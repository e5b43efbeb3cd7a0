------------------------------ MODULE ChatPage ------------------------------
(***************************************************************************)
(* The chat of src/app.ts in the browser, on the object of ChatSession:    *)
(* makeChatStream, the composer of mountConductor, and the history that a  *)
(* page keeps (state.conductorHistory).                                    *)
(*                                                                         *)
(* A page makes a stream each time its chat is shown, and closes none of   *)
(* them: those of earlier visits go on beside the one the composer uses.   *)
(* A stream has one socket at a time.  A frame is handled as it is sent:   *)
(* since a socket keeps the order, the time that frames and commands spend *)
(* on the way can all be charged to the commands, which wait in "wire".    *)
(***************************************************************************)
EXTENDS ChatSession, SequencesExt

CONSTANTS Page, Stream,
          Home,      \* Home[x]: the page that makes stream x
          Scenes     \* initial situations: [guests, patient, cuts, todo, streams]

ASSUME PageAssumption ==
    /\ Home \in [Stream -> Page]
    /\ Null \notin Stream
    /\ \A s \in Scenes :
          /\ s.guests \in Seq(Turn) /\ s.patient \in BOOLEAN /\ s.cuts \in Nat
          /\ s.streams \subseteq Stream /\ s.todo \in [Page -> SUBSET Turn]
          \* a message has a name of its own (clientMessageId, app.ts:3663)
          /\ \A p \in Page : s.todo[p] \cap Range(s.guests) = {}
          /\ \A p, q \in Page : p # q => s.todo[p] \cap s.todo[q] = {}

VARIABLES
    guests,   \* the messages that clients not followed here send, in this order
    patient,  \* bound: does a page that has pressed stop wait for the end of the turn?
    cuts,     \* bound: sockets that may still be lost
    page,     \* page[p]: the stream its composer uses, and what it has to send
    tab       \* tab[x]: the variables of one makeChatStream

pageVars == <<guests, patient, cuts, page, tab>>
allVars == <<vars, pageVars>>

\* conn: "opening", "live", "dead" (lost, unnoticed) or "down" (its timer runs).
\* queue, wire: commands kept for the next socket; commands on their way.
\* bubble, text: is streamEl there, and the turns whose text is in streamText.
\* busy: isStreaming of the composer.
\* said, told: how often this stream put a message, and a reply, into the
\* history (2 for more); mixed: has one bubble held text of two turns it heard?
\* lossy: (history) lost a socket while busy, or with a command on its way.
\* heard: (history) the turns whose frames this socket got from the first one on.
NoTab == [conn |-> "none", queue |-> <<>>, wire |-> <<>>, seen |-> {},
          bubble |-> FALSE, text |-> {}, busy |-> FALSE, lossy |-> FALSE,
          heard |-> {}, said |-> [t \in Turn |-> 0], told |-> [t \in Turn |-> 0], mixed |-> FALSE]

PageInit == \E s \in Scenes :
    /\ guests = s.guests /\ patient = s.patient /\ cuts = s.cuts
    /\ page = [p \in Page |-> [chat |-> Null, todo |-> s.todo[p]]]
    /\ tab = [x \in Stream |->
                 IF x \in s.streams THEN NoTab ELSE [NoTab EXCEPT !.conn = "off"]]
-----------------------------------------------------------------------------
(***************************************************************************)
(* handleEvent: v is one stream's variables, f a frame.                    *)
(***************************************************************************)
Once(n) == IF n = 0 THEN 1 ELSE 2

Says(v, t) == [v EXCEPT !.said[t] = Once(@)]
Tells(v, turns) ==
    [v EXCEPT !.told = [t \in Turn |-> IF t \in turns THEN Once(@[t]) ELSE @[t]],
              !.mixed = @ \/ (\E t, u \in turns \cap v.heard : t # u)]

\* Mutation: streamText is kept.
FinishedButText(v) ==
    IF v.bubble THEN [Tells(v, v.text) EXCEPT !.bubble = FALSE] ELSE v

\* finishStreaming: without a bubble it returns, and streamText stays.
Finished(v) ==
    IF v.bubble THEN [Tells(v, v.text) EXCEPT !.bubble = FALSE, !.text = {}] ELSE v

\* setStreaming.
Busy(v, b) == [v EXCEPT !.busy = b, !.lossy = @ /\ b]

\* Mutation: the composer keeps its stop button.
CompletedBusy(v) == v

\* A turn has ended, well or not.
Completed(v) == Busy(v, FALSE)

\* Frames that change nothing here (ready, pong, the details of tools) are left
\* out.  "streamed" is an assistant-message that says so; an error also adds a
\* line of its own.  final: the loop has a final text.
Handled(v, f) ==
    CASE f.kind = "user-message" ->
            LET w == [v EXCEPT !.heard = @ \cup {f.of}]
            IN  IF f.of \in v.seen THEN w ELSE Says(w, f.of)
      [] f.kind = "thinking" -> Busy(v, TRUE)
      [] f.kind = "turn-start" -> [v EXCEPT !.bubble = TRUE]
      [] f.kind = "text-delta" -> [v EXCEPT !.bubble = TRUE, !.text = @ \cup {f.of}]
      [] f.kind = "loop-done" ->
            Finished(IF f.final /\ v.text = {} THEN [v EXCEPT !.text = {f.of}] ELSE v)
      [] f.kind = "assistant-message" -> Tells(Finished(v), {f.of})
      [] f.kind = "halted" -> Busy(Finished(v), FALSE)
      [] f.kind = "complete" -> Completed(v)
      [] f.kind \in {"streamed", "error"} -> Finished(v)

Frame(kind, t) == [kind |-> kind, of |-> t, final |-> FALSE]
-----------------------------------------------------------------------------
(***************************************************************************)
(* What the object broadcasts, by what a step does to a turn.              *)
(***************************************************************************)
If(b, fs) == IF b THEN fs ELSE <<>>

\* The frames after the loop, or after the plan: the reply unless it failed, and
\* how it went.
Report(t, s) ==
    If("error" \notin s.notes,
       <<Frame(IF s.mode = "plan" THEN "assistant-message" ELSE "streamed", t)>>)
    \o If("error" \in s.notes, <<Frame("error", t)>>)
    \o If("cancelled" \in s.notes, <<Frame("halted", t)>>)
    \o <<Frame("complete", t)>>

\* The step of turn t from r to s.
Frames(t, r, s) ==
    LET loop == {"asked", "calling", "reading", "tools"}
        runs == r.mode = "execute" /\ r.phase \in loop
    IN  If(runs /\ s.text /\ ~r.text, <<Frame("text-delta", t)>>)
        \o If(s.phase \in {"calling", "tools"} /\ s.phase # r.phase,
              <<Frame("turn-start", t)>>)
        \o If(runs /\ (s.phase = "saving" \/ (s.phase = "over" /\ "error" \notin s.notes)),
              <<[Frame("loop-done", t) EXCEPT !.final = s.text]>>)
        \o If(s.phase = "over", Report(t, s))

\* A stream's variables when it has handled frames, one after the other.
Handling(v, fs) ==
    LET after[i \in 0..Len(fs)] == IF i = 0 THEN v ELSE Handled(after[i - 1], fs[i])
    IN  after[Len(fs)]

Seen(x, fs) == IF tab[x].conn = "live" THEN Handling(tab[x], fs) ELSE tab[x]

\* A turn goes on, and every open socket gets its frames.
Goes(t) ==
    /\ Moves(t)
    /\ tab' = [x \in Stream |-> Seen(x, Frames(t, turn[t], turn'[t]))]
    /\ UNCHANGED <<guests, patient, cuts, page>>

\* Text that is streamed before its block is complete.
Delta(t) ==
    /\ At(t, "reading") /\ ~turn[t].stop
    /\ tab' = [x \in Stream |-> Seen(x, <<Frame("text-delta", t)>>)]
    /\ tab' # tab
    /\ UNCHANGED <<vars, guests, patient, cuts, page>>

\* A message is echoed before its turn begins.
Echo(t) == <<Frame("user-message", t), Frame("thinking", t)>>

\* A command reaches the object: a message, or (Null) an interrupt.
Delivers(x) ==
    /\ tab[x].wire # <<>>
    /\ LET c == Head(tab[x].wire)
           fs == IF c = Null THEN <<Frame("halted", Null)>> ELSE Echo(c)
       IN  /\ IF c = Null THEN Interrupt ELSE UserMessage(c)
           /\ tab' = [y \in Stream |-> LET v == Seen(y, fs)
                                       IN  IF y = x THEN [v EXCEPT !.wire = Tail(@)] ELSE v]
    /\ UNCHANGED <<guests, patient, cuts, page>>

\* Clients that are not followed here.
GuestSends ==
    /\ \/ \E i \in DOMAIN guests : LET t == guests[i] IN
            /\ \A j \in 1..(i - 1) : ~At(guests[j], "idle")
            /\ UserMessage(t)
            /\ tab' = [x \in Stream |-> Seen(x, Echo(t))]
       \/ /\ guests # <<>>
          /\ Interrupt
          /\ tab' = [x \in Stream |-> Seen(x, <<Frame("halted", Null)>>)]
    /\ UNCHANGED <<guests, patient, cuts, page>>

Sleeps == Hibernate /\ UNCHANGED pageVars
-----------------------------------------------------------------------------
(***************************************************************************)
(* The page.                                                               *)
(***************************************************************************)
SetsTab(x, v) == tab' = [tab EXCEPT ![x] = v]

\* The chat is shown, for the first time or again: a new stream opens, and the
\* history is shown as it is.
Mounts(p, x) ==
    /\ Home[x] = p /\ tab[x].conn = "none"
    /\ page' = [page EXCEPT ![p].chat = x]
    /\ tab' = [tab EXCEPT ![x].conn = "opening"]
    /\ UNCHANGED <<vars, guests, patient, cuts>>

\* send: at once, or, without an open socket, once there is one.
Sent(v, c) ==
    CASE v.conn = "live" -> [v EXCEPT !.wire = Append(@, c)]
      [] v.conn = "dead" -> [v EXCEPT !.lossy = TRUE]
      [] OTHER -> [v EXCEPT !.queue = Append(@, c)]

\* Mutation: the message is not marked as seen.
TypesUnmarked(p, t) ==
    LET x == page[p].chat
    IN  /\ x # Null /\ t \in page[p].todo /\ ~tab[x].busy
        /\ patient => InFlight = {}
        /\ page' = [page EXCEPT ![p].todo = @ \ {t}]
        /\ SetsTab(x, Sent(Busy(Says(tab[x], t), TRUE), t))
        /\ UNCHANGED <<vars, guests, patient, cuts>>

\* The user sends a message, which is shown at once.
Types(p, t) ==
    LET x == page[p].chat
    IN  /\ x # Null /\ t \in page[p].todo /\ ~tab[x].busy
        /\ patient => InFlight = {}
        /\ page' = [page EXCEPT ![p].todo = @ \ {t}]
        /\ SetsTab(x, Sent([Busy(Says(tab[x], t), TRUE) EXCEPT !.seen = @ \cup {t}], t))
        /\ UNCHANGED <<vars, guests, patient, cuts>>

\* The user presses stop: nothing happens without an open socket.
Stops(p) ==
    LET x == page[p].chat
    IN  /\ x # Null /\ tab[x].busy /\ tab[x].conn = "live"
        /\ interrupts < MaxInterrupts
        /\ \A y \in Stream : Null \notin Range(tab[y].wire)
        /\ SetsTab(x, [tab[x] EXCEPT !.wire = Append(@, Null)])
        /\ UNCHANGED <<vars, guests, patient, cuts, page>>

\* The socket opens, and gets what was queued.
SocketOpens(x) ==
    /\ tab[x].conn = "opening"
    /\ SetsTab(x, [tab[x] EXCEPT !.conn = "live", !.wire = tab[x].queue, !.queue = <<>>])
    /\ UNCHANGED <<vars, guests, patient, cuts, page>>

\* The socket is lost, and what was on its way with it; or it cannot be opened.
Cut(x) ==
    /\ tab[x].conn \in {"opening", "live"} /\ cuts > 0
    /\ cuts' = cuts - 1
    /\ SetsTab(x, IF tab[x].conn = "opening" THEN [tab[x] EXCEPT !.conn = "down"]
                ELSE [tab[x] EXCEPT !.conn = "dead", !.wire = <<>>,
                                    !.heard = {}, !.mixed = FALSE,
                                    !.lossy = @ \/ tab[x].busy \/ tab[x].wire # <<>>])
    /\ UNCHANGED <<vars, guests, patient, page>>

\* The page is told, and tries again after a while.
Notices(x) ==
    /\ tab[x].conn = "dead" /\ SetsTab(x, [tab[x] EXCEPT !.conn = "down"])
    /\ UNCHANGED <<vars, guests, patient, cuts, page>>

Retries(x) ==
    /\ tab[x].conn = "down" /\ SetsTab(x, [tab[x] EXCEPT !.conn = "opening"])
    /\ UNCHANGED <<vars, guests, patient, cuts, page>>

PageNext ==
    \/ \E t \in Turn : Goes(t) \/ Delta(t)
    \/ GuestSends \/ Sleeps
    \/ \E x \in Stream : Delivers(x) \/ SocketOpens(x) \/ Cut(x) \/ Notices(x) \/ Retries(x)
    \/ \E p \in Page : \/ Stops(p)
                       \/ \E x \in Stream : Mounts(p, x)
                       \/ \E t \in Turn : Types(p, t)

ChatInit == Init /\ PageInit

PageSpec == ChatInit /\ [][PageNext]_allVars
            /\ \A t \in Turn : WF_allVars(Goes(t))
-----------------------------------------------------------------------------
(***************************************************************************)
(* Properties.                                                             *)
(***************************************************************************)
Command == Turn \cup {Null}

\* The types of ChatSession and of the pages.
PageTypeOK ==
    /\ TypeOK
    /\ guests \in Seq(Turn) /\ patient \in BOOLEAN /\ cuts \in Nat
    /\ page \in [Page -> [chat : Stream \cup {Null}, todo : SUBSET Turn]]
    /\ tab \in [Stream -> [conn : {"off", "none", "opening", "live", "dead", "down"},
                           queue : Seq(Command), wire : Seq(Command), seen : SUBSET Turn,
                           bubble : BOOLEAN, text : SUBSET Turn, busy : BOOLEAN,
                           lossy : BOOLEAN, heard : SUBSET Turn,
                           said : [Turn -> 0..2], told : [Turn -> 0..2],
                           mixed : BOOLEAN]]

\* Every message is shown once on a page that hears of it, whether it was sent
\* from there ("when the server echoes user-message, we skip rendering if the
\* id matches", app.ts:4018-4022) or from elsewhere; and so is every reply,
\* streamed or not ("Without this flag, the UI renders the full text TWICE",
\* chatSession.ts:202), in an entry of its own, as long as nobody pressed stop
\* and turns did not overlap.  The entries are those of one stream: a chat that
\* is left and shown again has two, which add to one history (see README).
ShownOnce ==
    \A x \in Stream : \A t \in tab[x].heard :
        /\ tab[x].said[t] = 1
        /\ interrupts = 0 /\ t \in complete /\ (\A u \in tab[x].heard : Alone(u))
              => /\ ~tab[x].mixed /\ tab[x].told[t] <= 1
                 /\ turn[t].text /\ ~(turn[t].mode = "plan" /\ "error" \in turn[t].notes)
                       => tab[x].told[t] = 1

\* The composer says stop only while there is a turn, or a command on its way,
\* unless a socket was lost: "Without this ... the user can't start a fresh
\* turn until they refresh the page" (app.ts:4279-4281).
StuckOnlyIfCut ==
    \A x \in Stream :
        tab[x].busy /\ ~tab[x].lossy => InFlight # {} \/ tab[x].wire # <<>> \/ tab[x].queue # <<>>
=============================================================================
