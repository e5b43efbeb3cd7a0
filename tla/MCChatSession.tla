--------------------------- MODULE MCChatSession ---------------------------
(* Two user messages, one after the other or overlapping, an interrupt       *)
(* command at any moment, and the pages that show them; and the terminal.    *)
EXTENDS App

CONSTANTS p1, p2, x1, x2, x3, v1, v2

MCTurn == {"first", "second"}
MCHome == x1 :> p1 @@ x2 :> p1 @@ x3 :> p2

Typed(turns) == p1 :> turns @@ p2 :> {}
Quiet == [guests |-> <<>>, patient |-> TRUE, cuts |-> 0, todo |-> Typed({}), streams |-> {}]

(* Two clients send a message each.                                           *)
Guests == [Quiet EXCEPT !.guests = <<"first", "second">>]
(* A page sends one message after the other.                                 *)
Talks == [Quiet EXCEPT !.todo = Typed(MCTurn), !.streams = {x1}]
(* Its socket is lost, ...                                                   *)
Reconnects == [Quiet EXCEPT !.todo = Typed({"first"}), !.streams = {x1}, !.cuts = 1]
(* ... the chat is left and shown again, ...                                 *)
Returns == [Quiet EXCEPT !.todo = Typed({"first"}), !.streams = {x1, x2}]
(* ... or another page looks on.                                             *)
Watched == [Quiet EXCEPT !.todo = Typed({"first"}), !.streams = {x1, x3}, !.patient = FALSE]

MCScenes == {Guests, Talks, Reconnects, Returns, Watched}

MCPart == {"chat", "shell"}
OnlyChat == {"chat"}

(* The terminal of one visit and two clicks, or of two visits and one.       *)
Visited == {v \in Visit : term[v].at # "new"}
MCBudget == Cardinality(Visited) + (MaxClicks - clicks) <= 3

(* What the model is shown is no concern of the pages, nor of a turn that no  *)
(* other one went before: to these the transcript's answer is always readable *)
Shown == \E x \in Stream : tab[x].conn # "off"
MCReadable == \A t \in Turn : turn[t].phase = "asking" /\ turn[t].seen = Null
                                 => ~Shown /\ turn[t].after # {}

(* Beside the terminal one situation of the chat will do.                    *)
MCInit == AppInit /\ (part = "shell" => guests # <<>>)
MCSpec == MCInit /\ [][AppNext /\ MCBudget' /\ MCReadable']_appVars /\ AppFairness
=============================================================================
