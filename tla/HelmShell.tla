----------------------------- MODULE HelmShell -----------------------------
(***************************************************************************)
(* The terminal of the page /app#/shell (src/app.ts, mountShell): sockets  *)
(* to a shell in the sandbox, and three timers.                            *)
(*                                                                         *)
(* The handlers of every socket work on the variables of the terminal, of  *)
(* which "ws" is the socket made last; a socket that is no longer it still *)
(* writes to the screen, and still reconnects when it closes.  The button  *)
(* closes the socket and connects again 100 ms later, by when the socket   *)
(* may have said that it is closed, or not.                                *)
(***************************************************************************)
EXTENDS Naturals, FiniteSets

CONSTANTS Visit,      \* visits of the page: each mounts a terminal
          Socket,     \* bound: sockets that are not over at one time
          Nobody,
          MaxClicks,  \* bound: clicks on "Reconnect"
          MaxBreaks   \* bound: sockets that break or are refused

ASSUME ShellAssumption ==
    /\ Nobody \notin Visit \cup Socket /\ Socket \subseteq Nat
    /\ MaxClicks \in Nat /\ MaxBreaks \in Nat

VARIABLES
    view,      \* the visit whose elements are on the page, or Nobody
    assets,    \* the promise of loadXterm: "none", "asked", "ready", "failed"
    term,      \* term[v]: the variables of one mountShell
    sock,      \* sock[s]: a socket and the terminal that made it
    clicks, breaks

shell == <<view, assets, term, sock, clicks, breaks>>

\* page: the visit whose buttons it listens to.  delays: clicks whose 100 ms
\* are not over.  doubled: (history) how often two ways of reconnecting met.
Terminal == [at : {"new", "loading", "on", "off"}, page : Visit \cup {Nobody},
             ws : Socket \cup {Nobody}, dot : {"connecting", "live", "reconnecting", "idle", "error"},
             manual : BOOLEAN, retry : BOOLEAN, ping : BOOLEAN,
             delays : 0 .. MaxClicks, doubled : Nat]

Over == [of |-> Nobody, at |-> "over"]

ShellInit ==
    /\ view = Nobody /\ assets = "none" /\ clicks = MaxClicks /\ breaks = MaxBreaks
    /\ term = [v \in Visit |->
                 [at |-> "new", page |-> Nobody, ws |-> Nobody, dot |-> "connecting",
                  manual |-> FALSE, retry |-> FALSE, ping |-> FALSE,
                  delays |-> 0, doubled |-> 0]]
    /\ sock = [s \in Socket |-> Over]
-----------------------------------------------------------------------------
StateOf(s) == IF s = Nobody THEN "over" ELSE sock[s].at
Free == {s \in Socket : sock[s].at = "over" /\ \A v \in Visit : term[v].ws # s}
FreshSocket == CHOOSE s \in Free : \A r \in Free : s <= r
On(v) == term[v].at = "on"

Connected(t, s) == [t EXCEPT !.ws = s, !.dot = "connecting"]

\* connect(): the terminal is t until then.
Connects(v, t) ==
    /\ Free # {}
    /\ term' = [term EXCEPT ![v] = Connected(t, FreshSocket)]
    /\ sock' = [sock EXCEPT ![FreshSocket] = [of |-> v, at |-> "connecting"]]

\* A visit waits for the script of the terminal, which is asked for once; the
\* elements of the visit before it are no longer on the page.
Visits(v) ==
    /\ term[v].at = "new" /\ view' = v
    /\ assets' = IF assets = "none" THEN "asked" ELSE assets
    /\ term' = [term EXCEPT ![v].at = "loading"]
    /\ UNCHANGED <<sock, clicks, breaks>>

LeavesPage == view # Nobody /\ view' = Nobody /\ UNCHANGED <<assets, term, sock, clicks, breaks>>

ScriptAnswers ==
    /\ assets = "asked" /\ assets' \in {"ready", "failed"}
    /\ UNCHANGED <<view, term, sock, clicks, breaks>>

\* What follows the await of loadXterm: without its buttons the function
\* throws; buttons of a later visit will do.
TerminalMounts(v) ==
    /\ term[v].at = "loading"
    /\ \/ /\ assets = "ready" /\ view # Nobody
          /\ Connects(v, [term[v] EXCEPT !.at = "on", !.page = view])
       \/ /\ assets = "ready" /\ view = Nobody
          /\ term' = [term EXCEPT ![v].at = "off"] /\ UNCHANGED sock
       \/ /\ assets = "failed"
          /\ term' = [term EXCEPT ![v] = [@ EXCEPT !.at = "off", !.dot = "error"]]
          /\ UNCHANGED sock
    /\ UNCHANGED <<view, assets, clicks, breaks>>

ShellOpens(s) ==
    /\ sock[s].at = "connecting"
    /\ sock' = [sock EXCEPT ![s].at = "open"]
    /\ term' = [term EXCEPT ![sock[s].of] = [@ EXCEPT !.dot = "live", !.ping = TRUE]]
    /\ UNCHANGED <<view, assets, clicks, breaks>>

\* Mutation: the heartbeat is left running.
NoticedPinging(t) == IF t.manual THEN t ELSE [t EXCEPT !.retry = TRUE]

\* ws.onclose, of whatever socket of the terminal.
Noticed(t) ==
    IF t.manual THEN [t EXCEPT !.ping = FALSE, !.dot = "idle"]
    ELSE [t EXCEPT !.ping = FALSE, !.dot = "reconnecting", !.retry = TRUE]

Breaks(s) ==
    /\ sock[s].at \in {"connecting", "open"} /\ breaks > 0 /\ breaks' = breaks - 1
    /\ sock' = [sock EXCEPT ![s] = Over]
    /\ term' = [term EXCEPT ![sock[s].of] = Noticed(@)]
    /\ UNCHANGED <<view, assets, clicks>>

\* The edge closes a socket on which nothing is said; only ws is pinged.
Idles(s) ==
    /\ sock[s].at = "open" /\ ~(term[sock[s].of].ws = s /\ term[sock[s].of].ping)
    /\ sock' = [sock EXCEPT ![s] = Over]
    /\ term' = [term EXCEPT ![sock[s].of] = Noticed(@)]
    /\ UNCHANGED <<view, assets, clicks, breaks>>

\* The answer to ws.close().
CloseAnswered(s) ==
    /\ sock[s].at = "closing"
    /\ sock' = [sock EXCEPT ![s] = Over]
    /\ LET t == term[sock[s].of]
       IN  term' = [term EXCEPT ![sock[s].of] =
             [Noticed(t) EXCEPT !.doubled = IF t.manual THEN @ ELSE @ + 1]]
    /\ UNCHANGED <<view, assets, clicks, breaks>>

\* The button of the page of visit p, and of every terminal that found it.
Clicks(p) ==
    /\ view = p /\ clicks > 0 /\ clicks' = clicks - 1
    /\ LET heard == {v \in Visit : On(v) /\ term[v].page = p}
       IN  /\ heard # {}
           /\ term' = [v \in Visit |->
                 IF v \notin heard THEN term[v]
                 ELSE [term[v] EXCEPT !.manual = TRUE, !.retry = FALSE, !.delays = @ + 1,
                                      !.doubled = IF term[v].delays > 0 THEN @ + 1 ELSE @]]
           /\ sock' = [s \in Socket |->
                 IF sock[s].at \in {"connecting", "open"} /\ \E v \in heard : term[v].ws = s
                 THEN [sock[s] EXCEPT !.at = "closing"] ELSE sock[s]]
    /\ UNCHANGED <<view, assets, breaks>>

\* Mutation: the flag of the click stays.
DelayOverManual(v) ==
    /\ term[v].delays > 0
    /\ Connects(v, [term[v] EXCEPT !.delays = @ - 1])
    /\ UNCHANGED <<view, assets, clicks, breaks>>

DelayOver(v) ==
    /\ term[v].delays > 0
    /\ Connects(v, [term[v] EXCEPT !.delays = @ - 1, !.manual = FALSE])
    /\ UNCHANGED <<view, assets, clicks, breaks>>

RetryFires(v) ==
    /\ term[v].retry
    /\ Connects(v, [term[v] EXCEPT !.retry = FALSE])
    /\ UNCHANGED <<view, assets, clicks, breaks>>

ShellNext ==
    \/ \E v \in Visit : Visits(v) \/ TerminalMounts(v) \/ Clicks(v) \/ DelayOver(v) \/ RetryFires(v)
    \/ \E s \in Socket : ShellOpens(s) \/ Breaks(s) \/ Idles(s) \/ CloseAnswered(s)
    \/ LeavesPage \/ ScriptAnswers
-----------------------------------------------------------------------------
\* Types, and a socket belongs to a terminal that has buttons and a screen.
ShellTypeOK ==
    /\ view \in Visit \cup {Nobody} /\ assets \in {"none", "asked", "ready", "failed"}
    /\ term \in [Visit -> Terminal]
    /\ sock \in [Socket -> [of : Visit \cup {Nobody}, at : {"connecting", "open", "closing", "over"}]]
    /\ clicks \in 0 .. MaxClicks /\ breaks \in 0 .. MaxBreaks
    /\ \A s \in Socket : sock[s].at # "over" => sock[s].of # Nobody /\ On(sock[s].of)

Shells(v) == {s \in Socket : sock[s].of = v /\ sock[s].at \in {"connecting", "open"}}

\* A terminal is never left without a shell and without a socket, a delay or a
\* retry that will bring one; and it has one, and one more for each time that a
\* close was answered after its delay, or the button was clicked twice in 100 ms
\* (mountShell, app.ts:3044-3084): nothing else doubles what is on the screen.
OneShell ==
    \A v \in Visit :
        LET t == term[v]
        IN  /\ On(v) => StateOf(t.ws) # "over" \/ t.retry \/ t.delays > 0
            /\ Cardinality(Shells(v)) <= 1 + t.doubled

\* While that has not happened, the dot tells how the one socket is.
DotTellsTruth ==
    \A v \in Visit :
        LET t == term[v]
        IN  On(v) /\ t.doubled = 0 =>
              CASE t.dot = "live"         -> StateOf(t.ws) = "closing" \/ (StateOf(t.ws) = "open" /\ t.ping)
                [] t.dot = "connecting"   -> StateOf(t.ws) \in {"connecting", "closing"}
                [] t.dot = "reconnecting" -> StateOf(t.ws) = "over" /\ (t.retry \/ t.delays > 0)
                [] t.dot = "idle"         -> StateOf(t.ws) \in {"closing", "over"} /\ t.delays > 0
                [] OTHER                  -> FALSE
=============================================================================
