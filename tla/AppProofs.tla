----------------------------- MODULE AppProofs -----------------------------
(***************************************************************************)
(* The theorems about the views of src/app.ts that hold sockets: the turns *)
(* of the chat's object, the pages that show them, and the terminal.       *)
(***************************************************************************)
EXTENDS App, FiniteSetTheorems, TLAPS

(***************************************************************************)
(* The turns: each step of a turn follows an edge, and keeps what holds in *)
(* the phase it comes to.                                                  *)
(***************************************************************************)
\* The phases of the tool loop.
Looping == {"calling", "reading", "tools"}

\* What the record of a turn satisfies in each of its phases: a turn that is
\* in the loop is not in plan mode and within its limit; text goes to the
\* transcript before the turn is over; what it has to report is known only at
\* its end; and it is cut only inside the loop.
TurnOK(r) ==
    /\ r.phase = "idle" => r.beside = {} /\ r.after = {} /\ r.seen = Null
    /\ r.phase \in Looping => r.mode = "execute" /\ r.iter \in 1 .. MaxIter
    /\ r.phase = "tools" => r.left > 0
    /\ r.phase = "planning" => r.mode = "plan"
    /\ r.text => r.phase \in Looping \cup {"saving", "saved", "over"}
    /\ r.phase \in {"saving", "saved"} => r.text
    /\ r.notes # {} => r.phase \in {"saving", "saved", "over"}
    /\ "error" \in r.notes /\ r.mode = "execute" => r.phase = "over"
    /\ "cancelled" \in r.notes => r.stop
    /\ r.stop => r.phase \in Looping \cup {"saving", "saved", "over"}

\* Where a turn may go from a phase.
Edge == {<<"booting", "opening">>, <<"opening", "asking">>, <<"asking", "asked">>, <<"asked", "planning">>,
   <<"asked", "calling">>, <<"calling", "reading">>, <<"reading", "reading">>, <<"reading", "tools">>,
   <<"reading", "saving">>, <<"tools", "tools">>, <<"tools", "calling">>, <<"tools", "saving">>,
   <<"planning", "saving">>, <<"saving", "saved">>} \cup
   ({"booting", "opening", "asked", "calling", "reading", "tools", "planning", "saved"} \X {"over"})

\* The new record of turn t, which is reported complete when it is over and
\* then drops the controller.
Puts(t, s) ==
    /\ turn' = [turn EXCEPT ![t] = s]
    /\ complete' = IF s.phase = "over" THEN complete \cup {t} ELSE complete
    /\ controller' = IF s.phase = "over" THEN Null ELSE controller

\* What any step of a turn does to its record.
Steps(r, s) ==
    /\ s \in TurnType /\ TurnOK(s)
    /\ s.mode = r.mode /\ s.after = r.after /\ s.beside = r.beside
    /\ <<r.phase, s.phase>> \in Edge
    /\ s.phase = "calling" => ~s.stop
    /\ r.text => s.text
    /\ s.text /\ ~r.text => r.phase \in {"reading", "planning"}
    /\ r.phase = "booting" \/ s.signal = r.signal
    /\ (r.phase = "opening" /\ s.phase = "asking") \/ s.seen = r.seen
    /\ r.phase = "asked" \/ (s.stop <=> r.stop)

\* A record that ends the turn, or goes to the transcript first.
Settled(r) == [r EXCEPT !.phase = IF r.text THEN "saving" ELSE "over"]

\* What a step of turn t does beside the turn itself.
Beside(t, r, s) ==
    /\ Puts(t, s) /\ UNCHANGED intrVars
    /\ \/ log' = log
       \/ r.phase = "asking" /\ log' = Append(log, [by |-> t, role |-> "user"])
       \/ r.phase = "saving" /\ log' = Append(log, [by |-> t, role |-> "assistant"])
    /\ r.phase = "booting" /\ s.phase = "opening" /\ r.mode = "execute" => s.signal = controller
    /\ r.phase = "opening" /\ s.phase = "asking" => s.seen \in {Len(log), Null} /\ log' = log
    /\ r.phase = "asked" /\ s.phase \in {"calling", "saving"} => (s.stop <=> r.signal \in aborted)

\* The invariant of the turns: complete is what is over, and a turn came after
\* turns that were complete.
TurnInv ==
    /\ TypeOK
    /\ \A t \in Turn : t \in complete <=> At(t, "over")
    /\ \A t \in Turn : TurnOK(turn[t]) /\ turn[t].after \subseteq complete

\* The outcome of a step of turn t.
Result(t) == \E s : Steps(turn[t], s) /\ Beside(t, turn[t], s)

\* A failure is an edge to the end of the turn.
LEMMA FailSteps ==
    ASSUME NEW r \in TurnType, TurnOK(r),
           <<r.phase, "over">> \in Edge
    PROVE  Steps(r, [r EXCEPT !.notes = @ \cup {"error"}, !.phase = "over"])
<1> DEFINE s == [r EXCEPT !.notes = @ \cup {"error"}, !.phase = "over"]
<1>1. s \in TurnType
  BY DEF TurnType
<1> QED
  BY <1>1 DEF TurnType, TurnOK, Steps, Edge, Looping

\* A step that fails ends the turn and does nothing else.
LEMMA TurnFails ==
    ASSUME NEW t \in Turn, turn[t] \in TurnType, TurnOK(turn[t]),
           <<turn[t].phase, "over">> \in Edge, Fails(t), log' = log, UNCHANGED intrVars
    PROVE  Result(t)
<1> DEFINE s == [turn[t] EXCEPT !.notes = @ \cup {"error"}, !.phase = "over"]
<1>1. Steps(turn[t], s)
  BY FailSteps
<1>2. s.phase = "over"
  BY DEF TurnType
<1>3. Puts(t, s)
  BY <1>2 DEF Fails, Finish, Sets, Puts
<1>4. turn[t].phase # "over" /\ Beside(t, turn[t], s)
  BY <1>2, <1>3 DEF Beside, Edge
<1> QED
  BY <1>1, <1>4 DEF Result

\* Settle writes the settled record.
LEMMA SettlePuts ==
    ASSUME NEW t \in Turn, NEW r \in TurnType, Settle(t, r)
    PROVE  Puts(t, Settled(r))
<1>1. CASE r.text
  <2>1. Settled(r) = [r EXCEPT !.phase = "saving"] /\ Settled(r).phase = "saving"
    BY <1>1 DEF Settled, TurnType
  <2> QED
    BY <1>1, <2>1 DEF Settle, Puts, Sets
<1>2. CASE ~r.text
  <2>1. Settled(r) = [r EXCEPT !.phase = "over"] /\ Settled(r).phase = "over"
    BY <1>2 DEF Settled, TurnType
  <2> QED
    BY <1>2, <2>1 DEF Settle, Finish, Puts, Sets
<1> QED
  BY <1>1, <1>2

\* The loop, from r with its iteration and its own controller set.
LEMMA LoopTopSteps ==
    ASSUME NEW t \in Turn, turn[t] \in TurnType, TurnOK(turn[t]),
           NEW r \in TurnType, LoopTop(t, r), log' = log, UNCHANGED intrVars,
           turn[t].phase \in {"asked", "tools"}, turn[t].mode = "execute",
           r.mode = turn[t].mode, r.after = turn[t].after, r.beside = turn[t].beside,
           r.seen = turn[t].seen, r.signal = turn[t].signal, (r.text <=> turn[t].text),
           r.notes = turn[t].notes, r.iter > 0,
           turn[t].phase = "asked" => (r.stop <=> turn[t].signal \in aborted),
           turn[t].phase = "tools" => (r.stop <=> turn[t].stop)
    PROVE  Result(t)
<1>0. MaxIter \in Nat /\ r.iter \in 0 .. (MaxIter + 1)
  BY ChatAssumption DEF TurnType
<1>1. CASE r.iter > MaxIter
  <2> DEFINE s == Settled(r)
  <2>1. Puts(t, s)
    BY <1>1, SettlePuts DEF LoopTop
  <2>2. s \in TurnType
    BY DEF Settled, TurnType
  <2>3. Steps(turn[t], s)
    BY <2>2 DEF Settled, Steps, TurnType, TurnOK, Edge, Looping
  <2>4. Beside(t, turn[t], s)
    BY <2>1, <2>2 DEF Beside, Settled, TurnType
  <2> QED
    BY <2>3, <2>4 DEF Result
<1>2. CASE r.iter <= MaxIter /\ r.stop
  <2> DEFINE q == [r EXCEPT !.notes = @ \cup {"cancelled"}]
             s == Settled(q)
  <2>1. q \in TurnType
    BY DEF TurnType
  <2>2. Puts(t, s)
    BY <1>0, <1>2, <2>1, SettlePuts DEF LoopTop
  <2>3. s \in TurnType
    BY <2>1 DEF Settled, TurnType
  <2>6. r.notes = {} /\ q.notes = {"cancelled"} /\ r.stop
    BY <1>2 DEF TurnType, TurnOK
  <2>7. s.notes = {"cancelled"} /\ s.phase = IF r.text THEN "saving" ELSE "over"
    BY <2>6 DEF Settled, TurnType
  <2>8. s.stop
    BY <1>2 DEF Settled, TurnType
  <2>9. s.text <=> r.text
    BY DEF Settled, TurnType
  <2>10. /\ s.mode = r.mode /\ s.after = r.after /\ s.beside = r.beside
         /\ s.seen = r.seen /\ s.signal = r.signal
    BY DEF Settled, TurnType
  <2>11. turn[t].phase = "asked" \/ (s.stop <=> turn[t].stop)
    BY <1>2, <2>8
  <2> HIDE DEF q, s
  <2>12. <<turn[t].phase, s.phase>> \in Edge
    <3>1. turn[t].phase = "asked" => ~r.text
      BY DEF TurnOK, Looping
    <3> QED
      BY <2>7, <3>1 DEF Edge
  <2>13. TurnOK(s)
    BY <2>7, <2>8, <2>9, <2>10 DEF TurnOK, Looping
  <2>4. Steps(turn[t], s)
    BY <2>3, <2>7, <2>9, <2>10, <2>11, <2>12, <2>13 DEF Steps
  <2>5. Beside(t, turn[t], s)
    BY <2>2, <2>3, <2>6, <2>7, <2>8, <2>10 DEF Beside
  <2> QED
    BY <2>4, <2>5 DEF Result
<1>3. CASE r.iter <= MaxIter /\ ~r.stop
  <2> DEFINE s == [r EXCEPT !.phase = "calling"]
  <2>1. s \in TurnType
    BY DEF TurnType
  <2>2. Puts(t, s)
    BY <1>0, <1>3 DEF LoopTop, Sets, Puts, TurnType
  <2>3. Steps(turn[t], s)
    BY <1>0, <1>3, <2>1 DEF Steps, TurnType, TurnOK, Edge, Looping
  <2>5. Beside(t, turn[t], s)
    BY <1>3, <2>2, <2>1 DEF Beside, TurnType
  <2> QED
    BY <2>3, <2>5 DEF Result
<1> QED
  BY <1>0, <1>1, <1>2, <1>3

\* Every step of a turn is of this form: the cases are the actions of Moves.
LEMMA MovesStep ==
    ASSUME TurnInv, NEW t \in Turn, Moves(t)
    PROVE  Result(t)
<1> DEFINE r == turn[t]
<1>0. r \in TurnType /\ TurnOK(r)
  BY DEF TurnInv, TypeOK
<1>1. CASE Boots(t)
  <2>1. log' = log /\ UNCHANGED intrVars /\ r.phase = "booting"
    BY <1>1 DEF Boots, At
  <2>2. CASE Fails(t)
    BY <2>1, <2>2, <1>0, TurnFails DEF Edge
  <2>3. CASE Sets(t, Opens(t, r, controller)) /\ UNCHANGED <<complete, controller>>
    <3> DEFINE s == Opens(t, r, controller)
    <3>1. controller \in Turn \cup {Null}
      BY DEF TurnInv, TypeOK
    <3>2. s \in TurnType /\ s.phase = "opening"
      BY <1>0, <3>1 DEF Opens, TurnType
    <3>3. Steps(r, s)
      BY <1>0, <2>1, <3>2 DEF Opens, Steps, TurnType, TurnOK, Edge, Looping
    <3>4. Beside(t, r, s)
      BY <1>0, <2>1, <2>3, <3>2 DEF Opens, Beside, TurnType, Puts, Sets
    <3> QED
      BY <3>3, <3>4 DEF Result
  <2> QED
    BY <1>1, <2>2, <2>3 DEF Boots
<1>2. CASE ReadsHistory(t)
  <2>1. log' = log /\ UNCHANGED intrVars /\ r.phase = "opening"
    BY <1>2 DEF ReadsHistory, At
  <2>2. CASE Fails(t)
    BY <2>1, <2>2, <1>0, TurnFails DEF Edge
  <2>3. ASSUME NEW seen \in {Len(log), Null},
               Sets(t, [turn[t] EXCEPT !.phase = "asking", !.seen = seen]),
               UNCHANGED <<complete, controller>>
        PROVE  Result(t)
    <3> DEFINE s == [turn[t] EXCEPT !.phase = "asking", !.seen = seen]
    <3>1. seen \in Nat \cup {Null}
      BY DEF TurnInv, TypeOK
    <3>2. s \in TurnType /\ s.phase = "asking"
      BY <1>0, <3>1 DEF TurnType
    <3>3. Steps(r, s)
      BY <1>0, <2>1, <3>2 DEF Steps, TurnType, TurnOK, Edge, Looping
    <3>4. Beside(t, r, s)
      BY <1>0, <2>1, <2>3, <3>2 DEF Beside, TurnType, Puts, Sets
    <3> QED
      BY <3>3, <3>4 DEF Result
  <2> QED
    BY <1>2, <2>2, <2>3 DEF ReadsHistory
<1>3. CASE MessageStored(t)
  <2> DEFINE s == [turn[t] EXCEPT !.phase = "asked"]
  <2>1. /\ log' = log \/ log' = Append(log, [by |-> t, role |-> "user"])
        /\ UNCHANGED <<complete, controller, intrVars>> /\ r.phase = "asking" /\ Sets(t, s)
    BY <1>3 DEF MessageStored, At
  <2>2. s \in TurnType /\ s.phase = "asked"
    BY <1>0 DEF TurnType
  <2>3. Steps(r, s)
    BY <1>0, <2>1, <2>2 DEF Steps, TurnType, TurnOK, Edge, Looping
  <2>4. Beside(t, r, s)
    BY <1>0, <2>1, <2>2 DEF Beside, TurnType, Puts, Sets
  <2> QED
    BY <2>3, <2>4 DEF Result
<1>4. CASE Starts(t)
  <2>1. log' = log /\ UNCHANGED intrVars /\ r.phase = "asked"
    BY <1>4 DEF Starts, At
  <2>2. CASE Fails(t)
    BY <2>1, <2>2, <1>0, TurnFails DEF Edge
  <2>3. CASE /\ turn[t].mode = "plan" /\ Sets(t, [turn[t] EXCEPT !.phase = "planning"])
             /\ UNCHANGED <<complete, controller>>
    <3> DEFINE s == [turn[t] EXCEPT !.phase = "planning"]
    <3>2. s \in TurnType /\ s.phase = "planning"
      BY <1>0 DEF TurnType
    <3>3. Steps(r, s)
      BY <1>0, <2>1, <2>3, <3>2 DEF Steps, TurnType, TurnOK, Edge, Looping
    <3>4. Beside(t, r, s)
      BY <1>0, <2>1, <2>3, <3>2 DEF Beside, TurnType, Puts, Sets
    <3> QED
      BY <3>3, <3>4 DEF Result
  <2>4. CASE /\ turn[t].mode = "execute"
             /\ LoopTop(t, [turn[t] EXCEPT !.iter = 1, !.stop = turn[t].signal \in aborted])
    <3> DEFINE b == IF turn[t].signal \in aborted THEN TRUE ELSE FALSE
               q == [turn[t] EXCEPT !.iter = 1, !.stop = b]
    <3>0. /\ b \in BOOLEAN /\ (b <=> turn[t].signal \in aborted)
          /\ q = [turn[t] EXCEPT !.iter = 1, !.stop = turn[t].signal \in aborted]
      <4>1. CASE turn[t].signal \in aborted
        BY <4>1
      <4>2. CASE turn[t].signal \notin aborted
        <5>1. (turn[t].signal \in aborted) = FALSE /\ b = FALSE
          BY <4>2
        <5> QED
          BY <5>1
      <4> QED
        BY <4>1, <4>2
    <3>6. 1 \in 0 .. (MaxIter + 1)
      BY ChatAssumption
    <3>1. q \in TurnType
      BY <1>0, <3>6 DEF TurnType
    <3>2. /\ q.mode = r.mode /\ q.after = r.after /\ q.beside = r.beside
          /\ q.seen = r.seen /\ q.signal = r.signal /\ q.notes = r.notes /\ q.iter > 0
      BY <1>0 DEF TurnType
    <3>3. q.text <=> r.text
      BY <1>0 DEF TurnType
    <3>4. q.stop <=> r.signal \in aborted
      BY <1>0, <3>0 DEF TurnType
    <3>5. LoopTop(t, q) /\ r.mode = "execute"
      BY <2>4, <3>0
    <3> HIDE DEF q
    <3> QED
      BY <3>1, <3>2, <3>3, <3>4, <3>5, <2>1, <1>0, LoopTopSteps
  <2> QED
    BY <1>4, <2>2, <2>3, <2>4 DEF Starts
<1>5. CASE CallAnswered(t)
  <2> DEFINE s == [turn[t] EXCEPT !.phase = "reading"]
  <2>1. log' = log /\ UNCHANGED <<complete, controller, intrVars>> /\ r.phase = "calling" /\ Sets(t, s)
    BY <1>5 DEF CallAnswered, At
  <2>2. s \in TurnType /\ s.phase = "reading"
    BY <1>0 DEF TurnType
  <2>3. Steps(r, s)
    BY <1>0, <2>1, <2>2 DEF Steps, TurnType, TurnOK, Edge, Looping
  <2>4. Beside(t, r, s)
    BY <1>0, <2>1, <2>2 DEF Beside, TurnType, Puts, Sets
  <2> QED
    BY <2>3, <2>4 DEF Result
<1>6. CASE CallFails(t) \/ CallAborted(t) \/ StreamFails(t)
  <2>1. log' = log /\ UNCHANGED intrVars /\ r.phase \in {"calling", "reading"} /\ Fails(t)
    BY <1>6 DEF CallFails, CallAborted, StreamFails, At
  <2> QED
    BY <2>1, <1>0, TurnFails DEF Edge
<1>7. CASE StreamEvent(t)
  <2>1. log' = log /\ UNCHANGED intrVars /\ r.phase = "reading"
    BY <1>7 DEF StreamEvent, At
  <2>2. CASE r.stop
    <3> DEFINE q == [r EXCEPT !.notes = @ \cup {"cancelled"}]
               s == Settled(q)
    <3>1. q \in TurnType
      BY <1>0 DEF TurnType
    <3>2. Puts(t, s)
      BY <1>7, <2>2, <3>1, SettlePuts DEF StreamEvent
    <3>3. s \in TurnType
      BY <3>1 DEF Settled, TurnType
    <3>4. Steps(r, s)
      BY <1>0, <2>1, <2>2, <3>3 DEF Settled, Steps, TurnType, TurnOK, Edge, Looping
    <3>5. Beside(t, r, s)
      BY <1>0, <2>1, <3>2, <3>3 DEF Beside, Settled, TurnType
    <3> QED
      BY <3>4, <3>5 DEF Result
  <2>3. CASE ~r.stop
    <3> DEFINE s == [r EXCEPT !.text = TRUE]
    <3>1. s \in TurnType /\ s.phase = "reading"
      BY <1>0, <2>1 DEF TurnType
    <3>2. Puts(t, s)
      BY <1>7, <2>3, <3>1 DEF StreamEvent, Sets, Puts
    <3>3. Steps(r, s)
      BY <1>0, <2>1, <3>1 DEF Steps, TurnType, TurnOK, Edge, Looping
    <3>4. Beside(t, r, s)
      BY <1>0, <2>1, <3>1, <3>2 DEF Beside, TurnType
    <3> QED
      BY <3>3, <3>4 DEF Result
  <2> QED
    BY <2>2, <2>3
<1>8. CASE StreamEnd(t)
  <2>1. log' = log /\ UNCHANGED intrVars /\ r.phase = "reading"
    BY <1>8 DEF StreamEnd, At
  <2>2. PICK text \in {r.text, TRUE} :
           LET q == [r EXCEPT !.text = text] IN
           \/ Settle(t, q)
           \/ \E n \in 1..MaxTools :
                /\ Sets(t, [q EXCEPT !.phase = "tools", !.left = n])
                /\ UNCHANGED <<complete, controller>>
    BY <1>8 DEF StreamEnd
  <2> DEFINE q == [r EXCEPT !.text = text]
  <2>3. text \in BOOLEAN /\ (r.text => text)
    BY <1>0, <2>2 DEF TurnType
  <2>4. q \in TurnType
    BY <1>0, <2>3 DEF TurnType
  <2>5. CASE Settle(t, q)
    <3> DEFINE s == Settled(q)
    <3>2. Puts(t, s)
      BY <2>4, <2>5, SettlePuts
    <3>3. s \in TurnType
      BY <2>4 DEF Settled, TurnType
    <3>4. Steps(r, s)
      BY <1>0, <2>1, <2>3, <3>3 DEF Settled, Steps, TurnType, TurnOK, Edge, Looping
    <3>5. Beside(t, r, s)
      BY <1>0, <2>1, <3>2, <3>3 DEF Beside, Settled, TurnType
    <3> QED
      BY <3>4, <3>5 DEF Result
  <2>6. CASE \E n \in 1..MaxTools :
                /\ Sets(t, [q EXCEPT !.phase = "tools", !.left = n])
                /\ UNCHANGED <<complete, controller>>
    <3>1. PICK n \in 1..MaxTools :
                /\ Sets(t, [q EXCEPT !.phase = "tools", !.left = n])
                /\ UNCHANGED <<complete, controller>>
      BY <2>6
    <3> DEFINE s == [q EXCEPT !.phase = "tools", !.left = n]
    <3>2. n \in 0 .. MaxTools /\ n > 0
      BY <3>1, ChatAssumption
    <3>3. s \in TurnType /\ s.phase = "tools"
      BY <2>4, <3>2 DEF TurnType
    <3>4. Puts(t, s)
      BY <3>1, <3>3 DEF Sets, Puts
    <3>5. Steps(r, s)
      BY <1>0, <2>1, <2>3, <3>2, <3>3 DEF Steps, TurnType, TurnOK, Edge, Looping
    <3>6. Beside(t, r, s)
      BY <1>0, <2>1, <3>3, <3>4 DEF Beside, TurnType
    <3> QED
      BY <3>5, <3>6 DEF Result
  <2> QED
    BY <2>2, <2>5, <2>6
<1>9. CASE ToolReturns(t)
  <2> DEFINE q == [r EXCEPT !.left = @ - 1]
  <2>1. log' = log /\ UNCHANGED intrVars /\ r.phase = "tools"
    BY <1>9 DEF ToolReturns, At
  <2>2. r.left - 1 \in 0 .. MaxTools /\ r.iter + 1 \in 0 .. (MaxIter + 1) /\ r.iter + 1 > 0
    BY <1>0, <2>1, ChatAssumption DEF TurnType, TurnOK, Looping
  <2>3. q \in TurnType /\ q.left = r.left - 1 /\ q.phase = "tools"
    BY <1>0, <2>1, <2>2 DEF TurnType
  <2>4. CASE q.left = 0
    <3> DEFINE u == [q EXCEPT !.iter = @ + 1]
    <3>1. u \in TurnType
      BY <2>2, <2>3, <1>0 DEF TurnType
    <3>2. /\ u.mode = r.mode /\ u.after = r.after /\ u.beside = r.beside
          /\ u.seen = r.seen /\ u.signal = r.signal /\ u.notes = r.notes /\ u.iter > 0
      BY <1>0, <2>2 DEF TurnType
    <3>3. u.text <=> r.text
      BY <1>0 DEF TurnType
    <3>4. u.stop <=> r.stop
      BY <1>0 DEF TurnType
    <3>5. LoopTop(t, u) /\ r.mode = "execute"
      BY <1>0, <1>9, <2>1, <2>4 DEF ToolReturns, TurnOK, Looping
    <3> HIDE DEF u, q
    <3> QED
      BY <3>1, <3>2, <3>3, <3>4, <3>5, <2>1, <1>0, LoopTopSteps
  <2>5. CASE q.left # 0
    <3>0. Sets(t, q) /\ UNCHANGED <<complete, controller>>
      BY <1>9, <2>5 DEF ToolReturns
    <3>1. Puts(t, q)
      <4> HIDE DEF q
      <4> QED
        BY <2>3, <3>0 DEF Sets, Puts
    <3>2. q.left > 0
      <4>1. q.left \in Nat
        BY <2>2, <2>3, ChatAssumption
      <4> HIDE DEF q
      <4> QED
        BY <2>5, <4>1
    <3>3. Steps(r, q)
      BY <1>0, <2>1, <2>3, <3>2 DEF Steps, TurnType, TurnOK, Edge, Looping
    <3>4. Beside(t, r, q)
      BY <1>0, <2>1, <2>3, <3>1 DEF Beside, TurnType
    <3> QED
      BY <3>3, <3>4 DEF Result
  <2> QED
    BY <2>4, <2>5
<1>10. CASE PlanAnswered(t)
  <2>1. log' = log /\ UNCHANGED intrVars /\ r.phase = "planning" /\ r.mode = "plan"
    BY <1>0, <1>10 DEF PlanAnswered, At, TurnOK
  <2>2. CASE Fails(t)
    BY <2>1, <2>2, <1>0, TurnFails DEF Edge
  <2>3. CASE Settle(t, [turn[t] EXCEPT !.text = TRUE, !.notes = @ \cup {"error"}])
    <3> DEFINE q == [turn[t] EXCEPT !.text = TRUE, !.notes = @ \cup {"error"}]
               s == Settled(q)
    <3>1. q \in TurnType
      BY <1>0 DEF TurnType
    <3>2. Puts(t, s)
      BY <2>3, <3>1, SettlePuts
    <3>3. s \in TurnType
      BY <3>1 DEF Settled, TurnType
    <3>4. Steps(r, s)
      BY <1>0, <2>1, <3>3 DEF Settled, Steps, TurnType, TurnOK, Edge, Looping
    <3>5. Beside(t, r, s)
      BY <1>0, <2>1, <3>2, <3>3 DEF Beside, Settled, TurnType
    <3> QED
      BY <3>4, <3>5 DEF Result
  <2>4. CASE \E text \in BOOLEAN : Settle(t, [turn[t] EXCEPT !.text = text])
    <3>0. PICK text \in BOOLEAN : Settle(t, [turn[t] EXCEPT !.text = text])
      BY <2>4
    <3> DEFINE q == [turn[t] EXCEPT !.text = text]
               s == Settled(q)
    <3>1. q \in TurnType
      BY <1>0 DEF TurnType
    <3>2. Puts(t, s)
      BY <3>0, <3>1, SettlePuts
    <3>3. s \in TurnType
      BY <3>1 DEF Settled, TurnType
    <3>4. Steps(r, s)
      BY <1>0, <2>1, <3>3 DEF Settled, Steps, TurnType, TurnOK, Edge, Looping
    <3>5. Beside(t, r, s)
      BY <1>0, <2>1, <3>2, <3>3 DEF Beside, Settled, TurnType
    <3> QED
      BY <3>4, <3>5 DEF Result
  <2> QED
    BY <1>10, <2>2, <2>3, <2>4 DEF PlanAnswered
<1>11. CASE TextStored(t)
  <2> DEFINE s == [turn[t] EXCEPT !.phase = "saved"]
  <2>1. /\ log' = log \/ log' = Append(log, [by |-> t, role |-> "assistant"])
        /\ UNCHANGED <<complete, controller, intrVars>> /\ r.phase = "saving" /\ Sets(t, s)
    BY <1>11 DEF TextStored, At
  <2>2. s \in TurnType /\ s.phase = "saved"
    BY <1>0 DEF TurnType
  <2>3. Steps(r, s)
    BY <1>0, <2>1, <2>2 DEF Steps, TurnType, TurnOK, Edge, Looping
  <2>4. Beside(t, r, s)
    BY <1>0, <2>1, <2>2 DEF Beside, TurnType, Puts, Sets
  <2> QED
    BY <2>3, <2>4 DEF Result
<1>12. CASE Saved(t)
  <2>1. log' = log /\ UNCHANGED intrVars /\ r.phase = "saved"
    BY <1>12 DEF Saved, At
  <2>2. CASE Fails(t)
    BY <2>1, <2>2, <1>0, TurnFails DEF Edge
  <2>3. CASE Finish(t, r)
    <3> DEFINE s == [turn[t] EXCEPT !.phase = "over"]
    <3>1. s \in TurnType /\ s.phase = "over"
      BY <1>0 DEF TurnType
    <3>2. Puts(t, s)
      BY <2>3, <3>1 DEF Finish, Sets, Puts
    <3>3. Steps(r, s)
      BY <1>0, <2>1, <3>1 DEF Steps, TurnType, TurnOK, Edge, Looping
    <3>4. Beside(t, r, s)
      BY <1>0, <2>1, <3>1, <3>2 DEF Beside, TurnType
    <3> QED
      BY <3>3, <3>4 DEF Result
  <2> QED
    BY <1>12, <2>2, <2>3 DEF Saved
<1> QED
  BY <1>1, <1>2, <1>3, <1>4, <1>5, <1>6, <1>7, <1>8, <1>9, <1>10, <1>11, <1>12 DEF Moves
\* A message gets to the transcript once its turn has asked, and a reply when
\* the turn has saved it.
Logged(e, turns) ==
    LET p == turns[e.by].phase
    IN  IF e.role = "user" THEN p \notin {"idle", "booting", "opening", "asking"}
        ELSE p \in {"saved", "over"}

\* Every entry of the transcript belongs to a turn that was far enough to
\* write it.
LogOK == \A i \in 1 .. Len(log) : Logged(log[i], turn)

\* A loop that was given the signal of an aborted controller has stopped; and a
\* turn that is alone has the controller, whose signal its loop was given.
OwnController ==
    /\ told = aborted
    /\ \A t \in Turn : turn[t].signal \in told /\ turn[t].phase \in Looping => turn[t].stop
    /\ \A t \in Turn : Alone(t) =>
         /\ t \in InFlight => controller = t /\ InFlight = {t}
         /\ turn[t].mode = "execute"
            /\ turn[t].phase \in {"opening", "asking", "asked"} \cup Looping => turn[t].signal = t
         /\ t \in told /\ turn[t].phase \in Looping => turn[t].stop

\* The inductive invariant of the object.
ChatInv == TurnInv /\ LogOK /\ HistoryIsComplete /\ OwnController

\* It holds at first.
LEMMA ChatInitially == Init => ChatInv
<1> SUFFICES ASSUME Init
             PROVE  ChatInv
  OBVIOUS
<1>1. Fresh \in TurnType
  BY ChatAssumption DEF Fresh, TurnType
<1>2. \A t \in Turn : turn[t] = Fresh
  BY DEF Init
<1>3. TypeOK
  <2>1. turn \in [Turn -> TurnType]
    BY <1>1 DEF Init
  <2>2. log \in Seq([by : Turn, role : {"user", "assistant"}]) /\ Len(log) = 0
    BY DEF Init
  <2>3. interrupts \in 0 .. MaxInterrupts
    BY ChatAssumption DEF Init
  <2>4. {told, missed} \subseteq SUBSET Turn
    BY DEF Init
  <2>5. \A i, j \in 1 .. Len(log) : log[i] = log[j] => i = j
    BY <2>2
  <2> QED
    BY <2>1, <2>2, <2>3, <2>4, <2>5 DEF Init, TypeOK
<1>4. TurnOK(Fresh) /\ Fresh.after = {} /\ Fresh.phase = "idle" /\ Fresh.seen = Null
  BY DEF TurnOK, Fresh, Looping
<1>5. TurnInv
  BY <1>2, <1>3, <1>4 DEF TurnInv, Init, At
<1>6. LogOK /\ HistoryIsComplete
  BY DEF Init, LogOK, HistoryIsComplete
<1>7. OwnController
  BY <1>2, <1>4 DEF Init, OwnController, InFlight, Looping
<1> QED
  BY <1>5, <1>6, <1>7 DEF ChatInv

\* The transcript after at most one more message.
LEMMA LogGrows ==
    ASSUME ChatInv, NEW t \in Turn, NEW s, Steps(turn[t], s), Beside(t, turn[t], s)
    PROVE  /\ log' \in Seq([by : Turn, role : {"user", "assistant"}])
           /\ \A i, j \in 1 .. Len(log') : log'[i] = log'[j] => i = j
           /\ LogOK' /\ HistoryIsComplete'
<1> DEFINE r == turn[t]
           Entry == [by : Turn, role : {"user", "assistant"}]
<1>1. /\ turn \in [Turn -> TurnType] /\ log \in Seq(Entry) /\ Len(log) \in Nat
      /\ \A i, j \in 1 .. Len(log) : log[i] = log[j] => i = j
  BY DEF ChatInv, TurnInv, TypeOK
<1>12. \A i \in 1 .. Len(log) : log[i] \in Entry
  <2>1. log \in Seq(Entry)
    BY <1>1
  <2> HIDE DEF Entry
  <2> QED
    BY <2>1
<1>2. /\ turn'[t] = s /\ \A u \in Turn : u # t => turn'[u] = turn[u]
  BY <1>1 DEF Beside, Puts
<1>3. /\ <<r.phase, s.phase>> \in Edge /\ s.after = r.after
      /\ (r.phase = "opening" /\ s.phase = "asking") \/ s.seen = r.seen
  BY DEF Steps
<1>4. \A u \in Turn : turn[u].after \subseteq complete /\ (u \in complete <=> turn[u].phase = "over")
  BY DEF ChatInv, TurnInv, At
<1>5. t \notin complete
  BY <1>3, <1>4 DEF Edge
<1>6. \A i \in 1 .. Len(log) : Logged(log[i], turn')
  <2> SUFFICES ASSUME NEW i \in 1 .. Len(log)
               PROVE  Logged(log[i], turn')
    OBVIOUS
  <2>1. log[i].by \in Turn /\ log[i].role \in {"user", "assistant"} /\ Logged(log[i], turn)
    BY <1>12 DEF ChatInv, LogOK
  <2> QED
    BY <2>1, <1>2, <1>3 DEF Logged, Edge
<1>7. \A u \in Turn : \A i \in 1 .. Len(log) :
          log[i].by \in turn'[u].after /\ turn'[u].seen # Null => i <= turn'[u].seen
  <2> SUFFICES ASSUME NEW u \in Turn, NEW i \in 1 .. Len(log), log[i].by \in turn'[u].after,
                      turn'[u].seen # Null
               PROVE  i <= turn'[u].seen
    OBVIOUS
  <2>1. CASE u # t
    BY <2>1, <1>2 DEF ChatInv, HistoryIsComplete
  <2>2. CASE u = t /\ s.seen = r.seen
    BY <2>2, <1>2, <1>3 DEF ChatInv, HistoryIsComplete
  <2>3. CASE u = t /\ r.phase = "opening" /\ s.phase = "asking"
    BY <2>3, <1>1, <1>2 DEF Beside
  <2> QED
    BY <2>1, <2>2, <2>3, <1>3
<1>8. CASE log' = log
  BY <1>8, <1>1, <1>6, <1>7 DEF LogOK, HistoryIsComplete
<1>9. ASSUME NEW e \in Entry, e.by = t, log' = Append(log, e),
             e.role = "user" => r.phase = "asking", e.role = "assistant" => r.phase = "saving"
      PROVE  /\ log' \in Seq(Entry)
             /\ \A i, j \in 1 .. Len(log') : log'[i] = log'[j] => i = j
             /\ LogOK' /\ HistoryIsComplete'
  <2>1. /\ log' \in Seq(Entry) /\ Len(log') = Len(log) + 1 /\ log'[Len(log) + 1] = e
        /\ \A i \in 1 .. Len(log) : log'[i] = log[i]
    BY <1>1, <1>9
  <2>2. \A i \in 1 .. Len(log') : i \in 1 .. Len(log) \/ i = Len(log) + 1
    BY <1>1, <2>1
  <2>3. \A i \in 1 .. Len(log) : log[i] # e
    <3> SUFFICES ASSUME NEW i \in 1 .. Len(log), log[i] = e
                 PROVE  FALSE
      OBVIOUS
    <3>1. Logged(e, turn)
      BY DEF ChatInv, LogOK
    <3>2. e.role \in {"user", "assistant"}
      OBVIOUS
    <3> QED
      BY <3>1, <3>2, <1>9 DEF Logged
  <2>4. Logged(e, turn')
    <3>1. e.role \in {"user", "assistant"}
      OBVIOUS
    <3> QED
      BY <3>1, <1>2, <1>3, <1>9 DEF Logged, Edge
  <2>5. \A i, j \in 1 .. Len(log') : log'[i] = log'[j] => i = j
    BY <1>1, <2>1, <2>2, <2>3
  <2>6. LogOK'
    <3> SUFFICES ASSUME NEW i \in 1 .. Len(log')
                 PROVE  Logged(log'[i], turn')
      BY DEF LogOK
    <3>1. CASE i \in 1 .. Len(log)
      BY <3>1, <2>1, <1>6
    <3>2. CASE i = Len(log) + 1
      BY <3>2, <2>1, <2>4
    <3> QED
      BY <3>1, <3>2, <2>2
  <2>7. HistoryIsComplete'
    <3> SUFFICES ASSUME NEW u \in Turn, NEW i \in 1 .. Len(log'), log'[i].by \in turn'[u].after,
                        turn'[u].seen # Null
                 PROVE  i <= turn'[u].seen
      BY DEF HistoryIsComplete
    <3>1. CASE i \in 1 .. Len(log)
      BY <3>1, <2>1, <1>7
    <3>2. CASE i = Len(log) + 1
      <4>1. t \in turn'[u].after
        BY <3>2, <2>1, <1>9
      <4>2. turn'[u].after = turn[u].after
        BY <1>2, <1>3
      <4> QED
        BY <4>1, <4>2, <1>4, <1>5
    <3> QED
      BY <3>1, <3>2, <2>2
  <2> QED
    BY <2>1, <2>5, <2>6, <2>7
<1>10. CASE r.phase = "asking" /\ log' = Append(log, [by |-> t, role |-> "user"])
  <2> DEFINE e == [by |-> t, role |-> "user"]
  <2>1. e \in Entry /\ e.by = t /\ e.role = "user"
    OBVIOUS
  <2> HIDE DEF e
  <2> QED
    BY <2>1, <1>9, <1>10 DEF e
<1>11. CASE r.phase = "saving" /\ log' = Append(log, [by |-> t, role |-> "assistant"])
  <2> DEFINE e == [by |-> t, role |-> "assistant"]
  <2>1. e \in Entry /\ e.by = t /\ e.role = "assistant"
    OBVIOUS
  <2> HIDE DEF e
  <2> QED
    BY <2>1, <1>9, <1>11 DEF e
<1> QED
  BY <1>8, <1>10, <1>11 DEF Beside
\* A step of a turn, from its record to the next one.
LEMMA StepKeepsChat ==
    ASSUME ChatInv, NEW t \in Turn, NEW s, Steps(turn[t], s), Beside(t, turn[t], s),
           booted' \in BOOLEAN
    PROVE  /\ ChatInv'
           /\ \A u \in Turn : Interrupted(u) /\ turn'[u].phase = "calling" => turn[u].phase = "calling"
<1> DEFINE r == turn[t]
<1>1. turn \in [Turn -> TurnType]
  BY DEF ChatInv, TurnInv, TypeOK
<1>2. /\ turn' = [turn EXCEPT ![t] = s] /\ turn'[t] = s
      /\ \A u \in Turn : u # t => turn'[u] = turn[u]
  BY <1>1 DEF Beside, Puts
<1>3. /\ s \in TurnType /\ TurnOK(s) /\ <<r.phase, s.phase>> \in Edge
      /\ s.mode = r.mode /\ s.after = r.after /\ s.beside = r.beside
  BY DEF Steps
<1>4. /\ complete' = IF s.phase = "over" THEN complete \cup {t} ELSE complete
      /\ controller' = IF s.phase = "over" THEN Null ELSE controller
      /\ UNCHANGED intrVars
  BY DEF Beside, Puts
<1>5. \A u \in Turn : /\ u \in complete <=> turn[u].phase = "over"
                      /\ TurnOK(turn[u]) /\ turn[u].after \subseteq complete
  BY DEF ChatInv, TurnInv, At
<1>6. r.phase \notin {"idle", "over"} /\ s.phase # "idle"
  BY <1>3 DEF Edge
<1>7. TypeOK'
  <2>1. turn' \in [Turn -> TurnType]
    BY <1>1, <1>2, <1>3
  <2>2. complete' \in SUBSET Turn /\ controller' \in Turn \cup {Null}
    BY <1>4 DEF ChatInv, TurnInv, TypeOK
  <2>3. /\ aborted' \in SUBSET Turn /\ interrupts' \in 0 .. MaxInterrupts
        /\ {told', missed'} \subseteq SUBSET Turn
    BY <1>4 DEF ChatInv, TurnInv, TypeOK, intrVars
  <2>4. /\ log' \in Seq([by : Turn, role : {"user", "assistant"}])
        /\ \A i, j \in 1 .. Len(log') : log'[i] = log'[j] => i = j
    BY LogGrows
  <2> QED
    BY <2>1, <2>2, <2>3, <2>4 DEF TypeOK
<1>8. TurnInv'
  <2>1. \A u \in Turn : u \in complete' <=> turn'[u].phase = "over"
    BY <1>2, <1>4, <1>5, <1>6
  <2>2. \A u \in Turn : TurnOK(turn'[u])
    BY <1>2, <1>3, <1>5
  <2>3. \A u \in Turn : turn'[u].after \subseteq complete'
    BY <1>2, <1>3, <1>4, <1>5
  <2> QED
    BY <1>7, <2>1, <2>2, <2>3 DEF TurnInv, At
<1>9. \A u \in Turn : turn'[u].beside = turn[u].beside
  BY <1>2, <1>3
<1>10. \A u \in Turn : Alone(u)' <=> Alone(u)
  BY <1>9 DEF Alone
<1>11. InFlight' = IF s.phase = "over" THEN InFlight \ {t} ELSE InFlight
  BY <1>2, <1>4, <1>6 DEF InFlight
<1>12. t \in InFlight
  BY <1>5, <1>6 DEF InFlight
<1>13. told = aborted /\ told' = told /\ aborted' = aborted
  BY <1>4 DEF ChatInv, OwnController, intrVars
<1>14. Alone(t) => /\ controller = t
                   /\ r.mode = "execute"
                      /\ r.phase \in {"opening", "asking", "asked"} \cup Looping => r.signal = t
                   /\ t \in told /\ r.phase \in Looping => r.stop
  BY <1>12 DEF ChatInv, OwnController
<1>15. ASSUME Alone(t), r.mode = "execute"
       PROVE  s.phase \in {"opening", "asking", "asked"} \cup Looping => s.signal = t
  <2>1. CASE r.phase = "booting"
    BY <2>1, <1>3, <1>14, <1>15 DEF Edge, Beside, Looping
  <2>2. CASE r.phase # "booting"
    BY <2>2, <1>3, <1>14, <1>15 DEF Edge, Looping, Steps
  <2> QED
    BY <2>1, <2>2
\* A loop that was given an aborted signal stops, or has stopped.
<1>20. ASSUME s.signal \in told
       PROVE  /\ s.phase \in Looping => s.stop
              /\ s.phase # "calling"
  <2>1. CASE r.phase = "asked"
    <3>1. s.phase \in Looping => s.phase = "calling"
      BY <2>1, <1>3 DEF Edge, Looping
    <3>2. s.phase = "calling" => s.stop
      BY <2>1, <1>13, <1>20 DEF Beside, Steps
    <3> QED
      BY <3>1, <3>2 DEF Steps
  <2>2. CASE r.phase # "asked"
    <3>1. s.phase \in Looping => r.phase \in Looping
      BY <2>2, <1>3 DEF Edge, Looping
    <3>2. r.phase \in Looping => r.signal = s.signal
      BY DEF Steps, Looping
    <3>3. r.phase \in Looping => r.stop
      BY <3>2, <1>20 DEF ChatInv, OwnController
    <3>4. s.phase \in Looping => s.stop
      BY <2>2, <3>1, <3>3 DEF Steps
    <3> QED
      BY <3>4 DEF Steps, Looping
  <2> QED
    BY <2>1, <2>2
<1>16. ASSUME Alone(t), t \in told
       PROVE  /\ s.phase # "calling"
              /\ s.phase \in Looping => s.stop
  <2>1. CASE r.phase = "asked"
    <3>1. s.phase \in Looping => s.phase = "calling"
      BY <2>1, <1>3 DEF Edge, Looping
    <3>2. s.phase # "calling"
      <4> SUFFICES ASSUME s.phase = "calling"
                   PROVE  FALSE
        OBVIOUS
      <4>1. s.mode = "execute"
        BY <1>3 DEF TurnOK, Looping
      <4>2. r.signal = t
        BY <4>1, <2>1, <1>3, <1>14, <1>16
      <4>3. s.stop
        BY <4>2, <2>1, <1>13, <1>16 DEF Beside
      <4> QED
        BY <4>3 DEF Steps
    <3> QED
      BY <3>1, <3>2
  <2>2. CASE r.phase # "asked"
    <3>1. s.phase \in Looping => r.phase \in Looping
      BY <2>2, <1>3 DEF Edge, Looping
    <3>2. s.phase \in Looping => s.stop
      BY <3>1, <2>2, <1>14, <1>16 DEF Steps
    <3>3. s.phase = "calling" => ~s.stop
      BY DEF Steps
    <3> QED
      BY <3>2, <3>3 DEF Looping
  <2> QED
    BY <2>1, <2>2
<1>21. \A u \in Turn : turn'[u].signal \in told' /\ turn'[u].phase \in Looping
                          => turn'[u].stop
  BY <1>2, <1>13, <1>20 DEF ChatInv, OwnController
<1>17. OwnController'
  <2> SUFFICES ASSUME NEW u \in Turn, Alone(u)
               PROVE  /\ u \in InFlight' => controller' = u /\ InFlight' = {u}
                      /\ turn'[u].mode = "execute"
                         /\ turn'[u].phase \in {"opening", "asking", "asked"} \cup Looping
                            => turn'[u].signal = u
                      /\ u \in told /\ turn'[u].phase \in Looping => turn'[u].stop
    BY <1>10, <1>13, <1>21 DEF OwnController
  <2>1. u \in InFlight' => controller' = u /\ InFlight' = {u}
    <3>1. u \in InFlight => controller = u /\ InFlight = {u}
      BY DEF ChatInv, OwnController
    <3> QED
      BY <3>1, <1>4, <1>11, <1>12
  <2>2. CASE u = t
    BY <2>1, <2>2, <1>2, <1>3, <1>15, <1>16
  <2>3. CASE u # t
    BY <2>1, <2>3, <1>2 DEF ChatInv, OwnController
  <2> QED
    BY <2>2, <2>3
<1>18. LogOK' /\ HistoryIsComplete'
  BY LogGrows
<1>19. \A u \in Turn : Interrupted(u) /\ turn'[u].phase = "calling" => turn[u].phase = "calling"
  <2> SUFFICES ASSUME NEW u \in Turn, Interrupted(u), turn'[u].phase = "calling",
                      turn[u].phase # "calling"
               PROVE  FALSE
    OBVIOUS
  <2>1. u = t
    BY <1>2
  <2>2. CASE r.signal \in told
    <3>1. r.phase # "booting"
      BY <1>3, <2>1, <1>2 DEF Edge
    <3>2. s.signal = r.signal
      BY <3>1 DEF Steps
    <3> QED
      BY <1>2, <1>20, <2>1, <2>2, <3>2
  <2>3. CASE t \in told /\ Alone(t)
    BY <1>2, <1>16, <2>1, <2>3
  <2> QED
    BY <2>1, <2>2, <2>3 DEF Interrupted
<1> QED
  BY <1>8, <1>17, <1>18, <1>19 DEF ChatInv

\* A step of a turn keeps it, and a turn that was told and is alone is not let
\* into another call: its signal is aborted, and the loop looks at the signal
\* before it calls.
LEMMA MovesKeepsChat ==
    ASSUME ChatInv, NEW t \in Turn, Moves(t)
    PROVE  /\ ChatInv'
           /\ \A u \in Turn : Interrupted(u) /\ turn'[u].phase = "calling" => turn[u].phase = "calling"
<1>1. PICK s : Steps(turn[t], s) /\ Beside(t, turn[t], s)
  BY MovesStep DEF ChatInv, Result
<1>2. booted' \in BOOLEAN
  <2>1. booted \in BOOLEAN
    BY DEF ChatInv, TurnInv, TypeOK
  <2> QED
    BY <2>1 DEF Moves, Boots, ReadsHistory, MessageStored, Starts, CallAnswered, CallFails,
         CallAborted, StreamEvent, StreamEnd, StreamFails, ToolReturns, PlanAnswered,
         TextStored, Saved
<1> QED
  BY <1>1, <1>2, StepKeepsChat

\* A turn begins, beside those that are under way.
LEMMA MessageKeepsChat ==
    ASSUME ChatInv, NEW t \in Turn, UserMessage(t)
    PROVE  /\ ChatInv'
           /\ turn'[t].phase \in {"booting", "opening"} /\ t \in InFlight'
           /\ \A u \in Turn : u # t => turn'[u] = turn[u]
           /\ turn[t].phase = "idle" /\ complete' = complete /\ turn'[t].beside = InFlight
           /\ interrupts' = interrupts /\ ~turn'[t].text
<1>1. /\ turn \in [Turn -> TurnType] /\ Null \notin Turn /\ turn[t].phase = "idle"
      /\ UNCHANGED <<booted, log, complete, intrVars>> /\ controller' = t
      /\ complete \in SUBSET Turn /\ InFlight \in SUBSET Turn
  BY ChatAssumption DEF ChatInv, TurnInv, TypeOK, UserMessage, At, InFlight
<1>2. PICK mode \in {"plan", "execute"} :
         LET r == [Fresh EXCEPT !.mode = mode, !.after = complete, !.beside = InFlight]
         IN  Sets(t, IF booted THEN Opens(t, r, t) ELSE [r EXCEPT !.phase = "booting"])
  BY DEF UserMessage
<1> DEFINE r == [Fresh EXCEPT !.mode = mode, !.after = complete, !.beside = InFlight]
           s == IF booted THEN Opens(t, r, t) ELSE [r EXCEPT !.phase = "booting"]
<1>3. /\ s \in TurnType /\ s.phase \in {"booting", "opening"} /\ s.after = complete
      /\ s.beside = InFlight /\ s.seen = Null /\ s.notes = {}
      /\ s.phase = "opening" /\ s.mode = "execute" => s.signal = t
  <2>1. Fresh \in TurnType
    BY ChatAssumption DEF Fresh, TurnType
  <2>2. r \in TurnType
    BY <2>1, <1>1 DEF TurnType
  <2>3. /\ r.mode = mode /\ r.after = complete /\ r.beside = InFlight /\ r.seen = Null
        /\ r.notes = {}
    BY DEF Fresh
  <2> HIDE DEF r
  <2>4. CASE booted
    <3>1. s = [r EXCEPT !.phase = "opening",
                        !.signal = IF r.mode = "execute" THEN t ELSE Null]
      BY <2>4 DEF Opens
    <3> HIDE DEF s
    <3>2. s \in TurnType
      BY <2>2, <3>1 DEF TurnType
    <3> QED
      BY <2>2, <2>3, <3>1, <3>2 DEF TurnType
  <2>5. CASE ~booted
    <3>1. s = [r EXCEPT !.phase = "booting"]
      BY <2>5
    <3> HIDE DEF s
    <3>2. s \in TurnType
      BY <2>2, <3>1 DEF TurnType
    <3> QED
      BY <2>2, <2>3, <3>1, <3>2 DEF TurnType
  <2> QED
    BY <2>4, <2>5
<1>4. ~s.stop /\ ~s.text
  BY DEF Opens, Fresh
<1>5. turn' = [turn EXCEPT ![t] = s]
  BY <1>2 DEF Sets
<1> HIDE DEF s
<1>6. turn'[t] = s /\ \A u \in Turn : u # t => turn'[u] = turn[u]
  BY <1>1, <1>5
<1>7. TurnOK(s)
  BY <1>3, <1>4 DEF TurnOK, Looping
<1>8. \A u \in Turn : /\ u \in complete <=> turn[u].phase = "over"
                      /\ TurnOK(turn[u]) /\ turn[u].after \subseteq complete
  BY DEF ChatInv, TurnInv, At
<1>9. TurnInv'
  <2>1. TypeOK'
    <3>1. turn' \in [Turn -> TurnType]
      BY <1>1, <1>3, <1>5
    <3> QED
      BY <3>1, <1>1 DEF ChatInv, TurnInv, TypeOK, intrVars
  <2>2. \A u \in Turn : u \in complete' <=> turn'[u].phase = "over"
    BY <1>1, <1>3, <1>6, <1>8
  <2>3. \A u \in Turn : TurnOK(turn'[u]) /\ turn'[u].after \subseteq complete'
    BY <1>1, <1>3, <1>6, <1>7, <1>8
  <2> QED
    BY <2>1, <2>2, <2>3 DEF TurnInv, At
<1>10. LogOK'
  <2> SUFFICES ASSUME NEW i \in 1 .. Len(log)
               PROVE  Logged(log[i], turn')
    BY <1>1 DEF LogOK
  <2>1. Logged(log[i], turn) /\ log \in Seq([by : Turn, role : {"user", "assistant"}])
    BY DEF ChatInv, TurnInv, TypeOK, LogOK
  <2>2. log[i].by \in Turn
    <3> DEFINE Entry == [by : Turn, role : {"user", "assistant"}]
    <3>1. log \in Seq(Entry)
      BY <2>1
    <3>2. log[i] \in Entry
      <4> HIDE DEF Entry
      <4> QED
        BY <3>1
    <3> QED
      BY <3>2
  <2>3. log[i].by # t
    BY <2>1, <1>1 DEF Logged
  <2> QED
    BY <2>1, <2>2, <2>3, <1>6 DEF Logged
<1>11. HistoryIsComplete'
  BY <1>1, <1>3, <1>6 DEF HistoryIsComplete, ChatInv
<1>12. InFlight' = InFlight \cup {t} /\ t \notin InFlight
  BY <1>1, <1>3, <1>6, <1>8 DEF InFlight
<1>13. turn[t].beside = {}
  BY <1>1, <1>8 DEF TurnOK
<1>14. \A u \in Turn : u # t /\ Alone(u)' => Alone(u) /\ u \notin InFlight
  BY <1>3, <1>6, <1>13 DEF Alone
<1>15. Alone(t)' => InFlight = {}
  BY <1>3, <1>6 DEF Alone
<1>16. OwnController'
  <2>1. told' = told /\ aborted' = aborted
    BY <1>1 DEF intrVars
  <2>2. told = aborted
    BY DEF ChatInv, OwnController
  <2>5. \A u \in Turn : turn'[u].signal \in told /\ turn'[u].phase \in Looping
                          => turn'[u].stop
    BY <1>3, <1>6 DEF ChatInv, OwnController, Looping
  <2> SUFFICES ASSUME NEW u \in Turn, Alone(u)'
               PROVE  /\ u \in InFlight' => controller' = u /\ InFlight' = {u}
                      /\ turn'[u].mode = "execute"
                         /\ turn'[u].phase \in {"opening", "asking", "asked"} \cup Looping
                            => turn'[u].signal = u
                      /\ u \in told /\ turn'[u].phase \in Looping => turn'[u].stop
    BY <2>1, <2>2, <2>5 DEF OwnController
  <2>3. CASE u = t
    BY <2>3, <1>1, <1>3, <1>6, <1>12, <1>15 DEF Looping
  <2>4. CASE u # t
    BY <2>4, <1>6, <1>12, <1>14 DEF ChatInv, OwnController
  <2> QED
    BY <2>3, <2>4
<1>17. interrupts' = interrupts
  BY <1>1 DEF intrVars
<1> QED
  BY <1>1, <1>3, <1>4, <1>6, <1>9, <1>10, <1>11, <1>12, <1>16, <1>17 DEF ChatInv

\* An interrupt reaches the loop that listens to the controller.
LEMMA InterruptKeepsChat ==
    ASSUME ChatInv, Interrupt
    PROVE  /\ ChatInv' /\ interrupts' > 0
           /\ complete' = complete /\ InFlight' = InFlight
           /\ \A u \in Turn : /\ turn'[u].phase = turn[u].phase
                              /\ turn'[u].beside = turn[u].beside
<1>1. /\ turn \in [Turn -> TurnType] /\ Null \notin Turn /\ TypeOK
      /\ UNCHANGED <<controller, booted, log, complete>>
      /\ interrupts' = interrupts + 1 /\ interrupts < MaxInterrupts
      /\ interrupts \in Nat /\ MaxInterrupts \in Nat
  BY ChatAssumption DEF ChatInv, TurnInv, TypeOK, Interrupt
<1>2. \A u \in Turn : /\ u \in complete <=> turn[u].phase = "over"
                      /\ TurnOK(turn[u]) /\ turn[u].after \subseteq complete
  BY DEF ChatInv, TurnInv, At
<1>3. \A u \in Turn : \/ turn'[u] = turn[u]
                      \/ Listening(u) /\ turn'[u] = [turn[u] EXCEPT !.stop = TRUE]
  BY DEF Interrupt
<1>4. ASSUME NEW u \in Turn
      PROVE  /\ turn'[u] \in TurnType /\ TurnOK(turn'[u])
             /\ turn'[u].phase = turn[u].phase /\ turn'[u].after = turn[u].after
             /\ turn'[u].beside = turn[u].beside /\ turn'[u].seen = turn[u].seen
             /\ turn'[u].mode = turn[u].mode /\ turn'[u].signal = turn[u].signal
             /\ turn[u].stop => turn'[u].stop
  <2>1. turn[u] \in TurnType /\ TurnOK(turn[u])
    BY <1>1, <1>2
  <2>2. CASE turn'[u] = turn[u]
    BY <2>1, <2>2
  <2>3. CASE Listening(u) /\ turn'[u] = [turn[u] EXCEPT !.stop = TRUE]
    <3>1. turn'[u] \in TurnType
      BY <2>1, <2>3 DEF TurnType
    <3>2. turn'[u].stop
      BY <2>1, <2>3 DEF TurnType
    <3>3. TurnOK(turn'[u])
      BY <2>1, <2>3 DEF TurnOK, TurnType, Listening, Looping
    <3> QED
      BY <2>1, <2>3, <3>1, <3>2, <3>3 DEF TurnType
  <2> QED
    BY <2>2, <2>3, <1>3
<1>5. turn' \in [Turn -> TurnType]
  <2>1. turn' = turn \/ turn' = [t \in Turn |-> turn'[t]]
    BY DEF Interrupt
  <2> QED
    BY <2>1, <1>1, <1>4
<1>6. TypeOK'
  <2>1. interrupts' \in 0 .. MaxInterrupts
    BY <1>1
  <2>2. /\ aborted' \in SUBSET Turn /\ {told', missed'} \subseteq SUBSET Turn
    BY <1>1 DEF Interrupt, TypeOK, InFlight
  <2> QED
    BY <2>1, <2>2, <1>1, <1>5 DEF TypeOK
<1>7. TurnInv'
  BY <1>1, <1>2, <1>4, <1>6 DEF TurnInv, At
<1>8. LogOK'
  <2> SUFFICES ASSUME NEW i \in 1 .. Len(log)
               PROVE  Logged(log[i], turn')
    BY <1>1 DEF LogOK
  <2> DEFINE Entry == [by : Turn, role : {"user", "assistant"}]
  <2>1. log \in Seq(Entry) /\ Logged(log[i], turn)
    BY <1>1 DEF TypeOK, ChatInv, LogOK
  <2>2. log[i] \in Entry
    <3> HIDE DEF Entry
    <3> QED
      BY <2>1
  <2> QED
    BY <2>1, <2>2, <1>4 DEF Logged
<1>9. HistoryIsComplete'
  BY <1>1, <1>4 DEF HistoryIsComplete, ChatInv
<1>10. InFlight' = InFlight
  BY <1>1, <1>4 DEF InFlight
<1>11. \A u \in Turn : Alone(u)' <=> Alone(u)
  BY <1>4 DEF Alone
<1>12. OwnController'
  <2>1. told = aborted /\ told' = aborted'
    BY DEF ChatInv, OwnController, Interrupt
  <2>4. ASSUME NEW u \in Turn, turn'[u].signal \in told', turn'[u].phase \in Looping
        PROVE  turn'[u].stop
    <3>1. CASE turn[u].signal \in told
      BY <1>4, <2>4, <3>1 DEF ChatInv, OwnController
    <3>2. CASE turn[u].signal \notin told
      <4>1. controller # Null /\ turn[u].signal = controller
        BY <1>4, <2>4, <3>2 DEF Interrupt
      <4>2. Listening(u)
        BY <1>4, <2>4 DEF Listening, Looping
      <4>3. turn'[u] = [turn[u] EXCEPT !.stop = TRUE]
        BY <4>1, <4>2 DEF Interrupt
      <4> QED
        BY <4>3, <1>1 DEF TurnType
    <3> QED
      BY <3>1, <3>2
  <2> SUFFICES ASSUME NEW u \in Turn, Alone(u)
               PROVE  /\ u \in InFlight => controller = u /\ InFlight = {u}
                      /\ turn'[u].mode = "execute"
                         /\ turn'[u].phase \in {"opening", "asking", "asked"} \cup Looping
                            => turn'[u].signal = u
                      /\ u \in told' /\ turn'[u].phase \in Looping => turn'[u].stop
    BY <1>1, <1>10, <1>11, <2>1, <2>4 DEF OwnController
  <2>2. /\ u \in InFlight => controller = u /\ InFlight = {u}
        /\ turn[u].mode = "execute"
           /\ turn[u].phase \in {"opening", "asking", "asked"} \cup Looping => turn[u].signal = u
        /\ u \in told /\ turn[u].phase \in Looping => turn[u].stop
    BY DEF ChatInv, OwnController
  <2>3. ASSUME u \in told', turn[u].phase \in Looping, u \notin told
        PROVE  turn'[u].stop
    <3>1. controller = u /\ controller # Null
      BY <2>3, <1>1 DEF Interrupt
    <3>2. turn[u].signal = u
      BY <2>2, <2>3, <1>2 DEF TurnOK
    <3>3. Listening(u)
      BY <2>3 DEF Listening, Looping
    <3>4. turn'[u] = [turn[u] EXCEPT !.stop = TRUE]
      BY <3>1, <3>2, <3>3 DEF Interrupt
    <3> QED
      BY <3>4, <1>1 DEF TurnType
  <2> QED
    BY <2>2, <2>3, <1>4
<1>13. interrupts' > 0
  BY <1>1
<1> QED
  BY <1>1, <1>4, <1>7, <1>8, <1>9, <1>10, <1>12, <1>13 DEF ChatInv

\* Hibernation needs that no turn is in flight, and forgets the controller.
LEMMA SleepKeepsChat ==
    ASSUME ChatInv, Hibernate
    PROVE  ChatInv'
<1>1. UNCHANGED <<turn, log, complete, intrVars>> /\ InFlight = {} /\ controller' = Null
      /\ booted' = FALSE
  BY DEF Hibernate
<1>2. TypeOK' /\ TurnInv' /\ LogOK' /\ HistoryIsComplete'
  BY <1>1 DEF ChatInv, TurnInv, TypeOK, At, LogOK, HistoryIsComplete, intrVars
<1>3. InFlight' = {} /\ \A u \in Turn : Alone(u)' <=> Alone(u)
  BY <1>1 DEF InFlight, Alone
<1>4. OwnController'
  BY <1>1, <1>3 DEF ChatInv, OwnController, intrVars
<1> QED
  BY <1>2, <1>4 DEF ChatInv

\* The invariant depends on the variables of the object only.
LEMMA ChatStays ==
    ASSUME ChatInv, UNCHANGED vars
    PROVE  ChatInv'
<1>1. TypeOK' /\ TurnInv' /\ LogOK' /\ HistoryIsComplete'
  BY DEF vars, ChatInv, TurnInv, TypeOK, At, LogOK, HistoryIsComplete, intrVars
<1>2. OwnController'
  BY DEF vars, ChatInv, OwnController, InFlight, Alone
<1> QED
  BY <1>1, <1>2 DEF ChatInv
-----------------------------------------------------------------------------
\* A set of numbers that is not empty has a least element.
LEMMA LeastOf ==
    ASSUME NEW S \in SUBSET Nat, S # {}
    PROVE  \E n \in S : \A k \in S : n <= k
<1> DEFINE R == OpToRel(<, Nat)
<1>1. IsWellFoundedOn(R, Nat)
  BY NatLessThanWellFounded
<1>2. \A a, b \in Nat : <<a, b>> \in R <=> a < b
  BY DEF OpToRel
<1> HIDE DEF R
<1>3. PICK x \in S : \A y \in S : ~ (<<y, x>> \in R)
  BY <1>1, WFMin
<1>4. ASSUME NEW y \in S PROVE x <= y
  <2>1. x \in Nat /\ y \in Nat
    OBVIOUS
  <2>2. <<y, x>> \in R <=> y < x
    BY <1>2, <2>1
  <2>3. ~ (<<y, x>> \in R)
    BY <1>3
  <2> QED BY <2>1, <2>2, <2>3
<1> QED BY <1>4

\* What holds at 0, and of each number's successor, holds up to any bound.
LEMMA UpTo ==
    ASSUME NEW S, NEW n \in Nat, 0 \in S,
           \A k \in 0 .. (n - 1) : k \in S => k + 1 \in S
    PROVE  \A k \in 0 .. n : k \in S
<1> DEFINE T == {k \in 0 .. n : k \notin S}
<1>1. SUFFICES ASSUME T # {}
               PROVE  FALSE
  OBVIOUS
<1>2. T \in SUBSET Nat
  OBVIOUS
<1>3. 0 \notin T /\ \A k \in T : k \in 0 .. n /\ k \notin S
  OBVIOUS
<1>4. \A k \in 0 .. n : k \notin T => k \in S
  OBVIOUS
<1> HIDE DEF T
<1>5. PICK k \in T : \A j \in T : k <= j
  BY <1>1, <1>2, LeastOf
<1>6. k - 1 \in 0 .. (n - 1) /\ k - 1 \notin T
  BY <1>3, <1>5
<1>7. k - 1 \in S /\ (k - 1) + 1 = k
  BY <1>3, <1>4, <1>5, <1>6
<1> QED
  BY <1>3, <1>5, <1>6, <1>7
-----------------------------------------------------------------------------
(***************************************************************************)
(* A stream handles frames one after the other.                            *)
(***************************************************************************)
Runs(after, v, fs, n) ==
    after = [i \in 0 .. n |-> IF i = 0 THEN v ELSE Handled(after[i - 1], fs[i])]

\* A run over any number of frames exists: were there a least number without
\* one, the run before it could be continued.
LEMMA RunsExist ==
    ASSUME NEW v, NEW fs
    PROVE  \A n \in Nat : \E after : Runs(after, v, fs, n)
<1> DEFINE S == {n \in Nat : \E after : Runs(after, v, fs, n)}
<1>1. 0 \in S
  <2> DEFINE after == [i \in 0 .. 0 |-> v]
  <2>1. after = [i \in 0 .. 0 |-> IF i = 0 THEN v ELSE Handled(after[i - 1], fs[i])]
    OBVIOUS
  <2> HIDE DEF after
  <2>2. Runs(after, v, fs, 0)
    BY <2>1 DEF Runs
  <2> QED
    BY <2>2
<1>2. ASSUME NEW n \in Nat, n \in S
      PROVE  n + 1 \in S
  <2>1. PICK old : Runs(old, v, fs, n)
    BY <1>2
  <2> DEFINE x == Handled(old[n], fs[n + 1])
             new == [i \in 0 .. (n + 1) |-> IF i = n + 1 THEN x ELSE old[i]]
  <2> HIDE DEF x
  <2>2. ASSUME NEW i \in 0 .. (n + 1)
        PROVE  new[i] = IF i = 0 THEN v ELSE Handled(new[i - 1], fs[i])
    <3>1. CASE i = n + 1
      <4>1. new[i] = x /\ new[i - 1] = old[n] /\ i # 0
        BY <3>1
      <4> HIDE DEF new
      <4> QED
        BY <4>1, <3>1 DEF x
    <3>2. CASE i \in 0 .. n
      <4>1. new[i] = old[i] /\ (i # 0 => new[i - 1] = old[i - 1])
        BY <3>2
      <4>2. old[i] = IF i = 0 THEN v ELSE Handled(old[i - 1], fs[i])
        BY <2>1, <3>2 DEF Runs
      <4> HIDE DEF new
      <4> QED
        BY <4>1, <4>2
    <3> QED
      BY <3>1, <3>2
  <2>3. new = [i \in 0 .. (n + 1) |-> new[i]]
    OBVIOUS
  <2> HIDE DEF new
  <2>4. Runs(new, v, fs, n + 1)
    BY <2>2, <2>3 DEF Runs
  <2> QED
    BY <2>4
<1>3. ASSUME NEW n \in Nat
      PROVE  n \in S
  <2>1. \A k \in 0 .. (n - 1) : k \in S => k + 1 \in S
    BY <1>2
  <2> HIDE DEF S
  <2>2. \A k \in 0 .. n : k \in S
    BY <1>1, <2>1, UpTo
  <2> QED
    BY <2>2
<1> QED
  BY <1>3

\* The run over all of fs.
Ran(after, v, fs) ==
    /\ after[0] = v /\ Handling(v, fs) = after[Len(fs)]
    /\ \A i \in 1 .. Len(fs) : after[i] = Handled(after[i - 1], fs[i])

\* Handling(v, fs) is the end of a run over fs.
LEMMA HandlingRuns ==
    ASSUME NEW v, NEW fs, Len(fs) \in Nat
    PROVE  \E after : Ran(after, v, fs)
<1> DEFINE n == Len(fs)
           chosen == CHOOSE after : Runs(after, v, fs, n)
<1>1. Runs(chosen, v, fs, n)
  BY RunsExist
<1>2. Handling(v, fs) = chosen[n]
  BY DEF Handling, Runs
<1> HIDE DEF chosen
<1>3. chosen[0] = v /\ \A i \in 1 .. n : chosen[i] = Handled(chosen[i - 1], fs[i])
  BY <1>1 DEF Runs
<1> QED
  BY <1>2, <1>3 DEF Ran

\* Frames that come in two batches have the effect of one batch.
LEMMA HandlingConcat ==
    ASSUME NEW v, NEW S, NEW a \in Seq(S), NEW b \in Seq(S)
    PROVE  Handling(v, a \o b) = Handling(Handling(v, a), b)
<1> DEFINE c == a \o b
           m == Len(a)
           n == Len(b)
<1>1. /\ m \in Nat /\ n \in Nat /\ Len(c) = m + n /\ Len(c) \in Nat
      /\ \A i \in 1 .. m : c[i] = a[i]
      /\ \A i \in 1 .. n : c[m + i] = b[i]
  OBVIOUS
<1> HIDE DEF c
<1>8. PICK p : Ran(p, v, a)
  BY <1>1, HandlingRuns
<1>9. PICK q : Ran(q, Handling(v, a), b)
  BY <1>1, HandlingRuns
<1>10. PICK w : Ran(w, v, c)
  BY <1>1, HandlingRuns
<1>2. /\ p[0] = v /\ Handling(v, a) = p[m]
      /\ \A i \in 1 .. m : p[i] = Handled(p[i - 1], a[i])
  BY <1>8 DEF Ran
<1>3. /\ q[0] = p[m] /\ Handling(p[m], b) = q[n]
      /\ \A i \in 1 .. n : q[i] = Handled(q[i - 1], b[i])
  BY <1>9, <1>2 DEF Ran
<1>4. /\ w[0] = v /\ Handling(v, c) = w[Len(c)]
      /\ \A i \in 1 .. Len(c) : w[i] = Handled(w[i - 1], c[i])
  BY <1>10 DEF Ran
<1> HIDE DEF m, n
<1>5. \A i \in 0 .. m : w[i] = p[i]
  <2> DEFINE T == {i \in 0 .. m : w[i] = p[i]}
  <2>1. 0 \in T
    BY <1>1, <1>2, <1>4
  <2>2. ASSUME NEW k \in 0 .. (m - 1), k \in T
        PROVE  k + 1 \in T
    <3>1. k + 1 \in 1 .. m /\ k + 1 \in 1 .. Len(c) /\ (k + 1) - 1 = k /\ k + 1 \in 0 .. m
      BY <1>1
    <3>2. w[k + 1] = Handled(w[k], c[k + 1]) /\ p[k + 1] = Handled(p[k], a[k + 1])
      BY <3>1, <1>2, <1>4
    <3> QED
      BY <3>1, <3>2, <2>2, <1>1
  <2> HIDE DEF T
  <2>3. \A k \in 0 .. m : k \in T
    BY <1>1, <2>1, <2>2, UpTo
  <2> QED
    BY <2>3 DEF T
<1>6. \A i \in 0 .. n : w[m + i] = q[i]
  <2> DEFINE T == {i \in 0 .. n : w[m + i] = q[i]}
  <2>1. 0 \in T
    BY <1>1, <1>3, <1>5
  <2>2. ASSUME NEW k \in 0 .. (n - 1), k \in T
        PROVE  k + 1 \in T
    <3>1. /\ k + 1 \in 1 .. n /\ m + (k + 1) \in 1 .. Len(c) /\ (k + 1) - 1 = k
          /\ (m + (k + 1)) - 1 = m + k /\ k + 1 \in 0 .. n
      BY <1>1
    <3>2. w[m + (k + 1)] = Handled(w[m + k], c[m + (k + 1)])
      BY <3>1, <1>4
    <3>3. q[k + 1] = Handled(q[k], b[k + 1])
      BY <3>1, <1>3
    <3> QED
      BY <3>1, <3>2, <3>3, <2>2, <1>1
  <2> HIDE DEF T
  <2>3. \A k \in 0 .. n : k \in T
    BY <1>1, <2>1, <2>2, UpTo
  <2> QED
    BY <2>3 DEF T
<1>7. w[m + n] = q[n]
  BY <1>1, <1>6
<1> QED
  BY <1>1, <1>2, <1>3, <1>4, <1>7 DEF c

\* No frame has no effect.
LEMMA HandlingNone ==
    ASSUME NEW v
    PROVE  Handling(v, <<>>) = v
BY HandlingRuns DEF Ran

\* A single frame is handled by its handler.
LEMMA HandlingOne ==
    ASSUME NEW v, NEW f
    PROVE  Handling(v, <<f>>) = Handled(v, f)
<1>1. Len(<<f>>) = 1 /\ <<f>>[1] = f
  OBVIOUS
<1>2. PICK p : Ran(p, v, <<f>>)
  BY <1>1, HandlingRuns
<1> QED
  BY <1>1, <1>2 DEF Ran

\* A frame that may be left out.
LEMMA HandlingIf ==
    ASSUME NEW v, NEW f, NEW b \in BOOLEAN
    PROVE  Handling(v, If(b, <<f>>)) = IF b THEN Handled(v, f) ELSE v
BY HandlingNone, HandlingOne DEF If
-----------------------------------------------------------------------------
(***************************************************************************)
(* What the frames of turn t do to a stream.                               *)
(***************************************************************************)
TabType == [conn : {"off", "none", "opening", "live", "dead", "down"},
            queue : Seq(Command), wire : Seq(Command), seen : SUBSET Turn,
            bubble : BOOLEAN, text : SUBSET Turn, busy : BOOLEAN,
            lossy : BOOLEAN, heard : SUBSET Turn,
            said : [Turn -> 0..2], told : [Turn -> 0..2], mixed : BOOLEAN]

\* A frame changes no part of a stream but bubble, text, busy, told and mixed.
Same(v, w) == /\ w.conn = v.conn /\ w.queue = v.queue /\ w.wire = v.wire
              /\ w.seen = v.seen /\ w.heard = v.heard /\ w.said = v.said

\* The text in the bubble is, as far as it was heard, of turn t alone.
OneHeard(v, t) == \A a, b \in (v.text \cup {t}) \cap v.heard : a = b

\* What a frame of turn t leaves as it is: the replies of other turns that
\* have no text in the bubble, and a stream that is not mixed if all it has
\* heard of is t.
Keeps(t, v, w) ==
    /\ w \in TabType /\ Same(v, w)
    /\ w.text \subseteq v.text \cup {t}
    /\ \A u \in Turn : u # t /\ u \notin v.text => w.told[u] = v.told[u]
    /\ OneHeard(v, t) /\ ~v.mixed => ~w.mixed

\* Keeps is reflexive,
LEMMA KeepsItself ==
    ASSUME NEW t, NEW v \in TabType
    PROVE  Keeps(t, v, v)
BY DEF Keeps, Same

\* and transitive, so it is enough to look at one frame.
LEMMA KeepsAlong ==
    ASSUME NEW t, NEW v \in TabType, NEW w, NEW z, Keeps(t, v, w), Keeps(t, w, z)
    PROVE  Keeps(t, v, z)
<1>1. OneHeard(v, t) => OneHeard(w, t)
  BY DEF Keeps, Same, OneHeard
<1> QED
  BY <1>1 DEF Keeps, Same

\* To set or reset the composer is such a change.
LEMMA BusyKeeps ==
    ASSUME NEW t, NEW v \in TabType, NEW b \in BOOLEAN
    PROVE  Keeps(t, v, Busy(v, b)) /\ (Busy(v, b).busy <=> b)
           /\ Busy(v, b).text = v.text /\ Busy(v, b).told = v.told
           /\ (Busy(v, b).bubble <=> v.bubble)
<1> DEFINE w == Busy(v, b)
<1>1. w \in TabType
  BY DEF Busy, TabType
<1>2. Same(v, w) /\ w.text = v.text /\ w.told = v.told
  BY DEF Busy, Same, TabType
<1>3. (w.mixed <=> v.mixed) /\ (w.busy <=> b) /\ (w.bubble <=> v.bubble)
  BY DEF Busy, TabType
<1> QED
  BY <1>1, <1>2, <1>3 DEF Keeps

\* To put the bubble into the history counts the turns whose text it holds.
LEMMA TellsKeeps ==
    ASSUME NEW t, NEW v \in TabType, NEW S \in SUBSET Turn, S \subseteq v.text \cup {t}
    PROVE  /\ Keeps(t, v, Tells(v, S))
           /\ Tells(v, S).text = v.text /\ (Tells(v, S).bubble <=> v.bubble)
           /\ \A u \in Turn : Tells(v, S).told[u] = IF u \in S THEN Once(v.told[u]) ELSE v.told[u]
           /\ (Tells(v, S).busy <=> v.busy)
<1> DEFINE w == Tells(v, S)
           now == [u \in Turn |-> IF u \in S THEN Once(v.told[u]) ELSE v.told[u]]
           b == v.mixed \/ (\E a, u \in S \cap v.heard : a # u)
           c == IF b THEN TRUE ELSE FALSE
<1>1. now \in [Turn -> 0 .. 2]
  BY DEF TabType, Once
<1>2. c \in BOOLEAN /\ (c <=> b) /\ v.mixed \in BOOLEAN
  BY DEF TabType
<1>3. b = c
  BY <1>2
<1>4. w = [v EXCEPT !.told = now, !.mixed = c]
  <2>1. w = [v EXCEPT !.told = now, !.mixed = b]
    BY DEF Tells
  <2> HIDE DEF b, c, now
  <2> QED
    BY <2>1, <1>3
<1>5. OneHeard(v, t) /\ ~v.mixed => ~c
  BY <1>2 DEF OneHeard
<1>6. \A u \in Turn : now[u] = IF u \in S THEN Once(v.told[u]) ELSE v.told[u]
  OBVIOUS
<1>7. c \in BOOLEAN
  BY <1>2
<1> HIDE DEF b, c, now, w
<1>8. w \in TabType /\ w.told = now
  BY <1>1, <1>4, <1>7 DEF TabType
<1>9. Same(v, w) /\ w.text = v.text
  BY <1>4 DEF Same, TabType
<1>10. (w.mixed <=> c) /\ (w.bubble <=> v.bubble) /\ (w.busy <=> v.busy)
  BY <1>4, <1>7 DEF TabType
<1>11. Keeps(t, v, w)
  BY <1>5, <1>6, <1>8, <1>9, <1>10 DEF Keeps
<1> QED
  BY <1>6, <1>8, <1>9, <1>10, <1>11 DEF w

\* The end of a bubble, if there is one.
LEMMA FinishedKeeps ==
    ASSUME NEW t, NEW v \in TabType
    PROVE  /\ Keeps(t, v, Finished(v)) /\ ~Finished(v).bubble
           /\ (Finished(v).busy <=> v.busy)
           /\ Finished(v).text = IF v.bubble THEN {} ELSE v.text
           /\ \A u \in Turn : Finished(v).told[u] =
                IF v.bubble /\ u \in v.text THEN Once(v.told[u]) ELSE v.told[u]
<1>0. v.text \in SUBSET Turn
  BY DEF TabType
<1>1. CASE v.bubble
  <2> DEFINE w == Tells(v, v.text)
             z == [w EXCEPT !.bubble = FALSE, !.text = {}]
  <2>1. /\ Keeps(t, v, w) /\ w.text = v.text /\ (w.busy <=> v.busy)
        /\ \A u \in Turn : w.told[u] = IF u \in v.text THEN Once(v.told[u]) ELSE v.told[u]
    BY <1>0, TellsKeeps
  <2>2. Finished(v) = z
    BY <1>1 DEF Finished
  <2>3. w \in TabType
    BY <2>1 DEF Keeps
  <2> HIDE DEF w
  <2>4. z \in TabType /\ z.text = {} /\ z.told = w.told
    BY <2>3 DEF TabType
  <2>5. ~z.bubble /\ (z.busy <=> w.busy) /\ (z.mixed <=> w.mixed)
    BY <2>3 DEF TabType
  <2>6. Same(w, z)
    BY <2>3 DEF Same, TabType
  <2>7. Keeps(t, v, z)
    BY <2>1, <2>4, <2>5, <2>6 DEF Keeps, Same
  <2> HIDE DEF z
  <2> QED
    BY <1>1, <2>1, <2>2, <2>4, <2>5, <2>7
<1>2. CASE ~v.bubble
  BY <1>2, KeepsItself DEF Finished
<1> QED
  BY <1>1, <1>2
\* The effect of one frame on the text, the bubble and the count of replies.
Rests(v, w) == /\ w.text = v.text /\ w.told = v.told
               /\ (w.bubble <=> v.bubble)

\* What a frame at the end of a reply does: the bubble goes to the history,
\* and no text of t is left unless it had none to go.
Ends(t, v, w) ==
    /\ ~w.bubble
    /\ w.told[t] = IF v.bubble /\ t \in v.text THEN Once(v.told[t]) ELSE v.told[t]
    /\ t \in w.text => t \in v.text /\ ~v.bubble

\* A delta adds text of t to the bubble.
LEMMA HandledDelta ==
    ASSUME NEW t \in Turn, NEW v \in TabType
    PROVE  LET w == Handled(v, Frame("text-delta", t))
           IN  /\ Keeps(t, v, w) /\ w.bubble /\ t \in w.text /\ w.told = v.told
               /\ (w.busy <=> v.busy)
<1> DEFINE w == [v EXCEPT !.bubble = TRUE, !.text = @ \cup {t}]
<1>1. Handled(v, Frame("text-delta", t)) = w
  BY DEF Handled, Frame
<1>2. w \in TabType
  BY DEF TabType
<1>3. w.text = v.text \cup {t} /\ w.told = v.told
  BY DEF TabType
<1>4. w.bubble /\ (w.mixed <=> v.mixed) /\ (w.busy <=> v.busy)
  BY DEF TabType
<1>5. Same(v, w)
  BY DEF Same, TabType
<1> HIDE DEF w
<1>6. Keeps(t, v, w)
  BY <1>2, <1>3, <1>4, <1>5 DEF Keeps
<1> QED
  BY <1>1, <1>3, <1>4, <1>6

\* turn-start opens a bubble.
LEMMA HandledStart ==
    ASSUME NEW t \in Turn, NEW v \in TabType
    PROVE  LET w == Handled(v, Frame("turn-start", t))
           IN  /\ Keeps(t, v, w) /\ w.bubble /\ w.text = v.text /\ w.told = v.told
               /\ (w.busy <=> v.busy)
<1> DEFINE w == [v EXCEPT !.bubble = TRUE]
<1>1. Handled(v, Frame("turn-start", t)) = w
  BY DEF Handled, Frame
<1>2. w \in TabType
  BY DEF TabType
<1>3. w.text = v.text /\ w.told = v.told
  BY DEF TabType
<1>4. w.bubble /\ (w.mixed <=> v.mixed) /\ (w.busy <=> v.busy)
  BY DEF TabType
<1>5. Same(v, w)
  BY DEF Same, TabType
<1> HIDE DEF w
<1>6. Keeps(t, v, w)
  BY <1>2, <1>3, <1>4, <1>5 DEF Keeps
<1> QED
  BY <1>1, <1>3, <1>4, <1>6

\* To finish the bubble does what Ends says.
LEMMA FinishedEnds ==
    ASSUME NEW t \in Turn, NEW v \in TabType
    PROVE  Ends(t, v, Finished(v))
BY FinishedKeeps DEF Ends, TabType

\* loop-done ends the reply, unless it brings a text of which no delta was
\* shown.
LEMMA HandledDone ==
    ASSUME NEW t \in Turn, NEW v \in TabType, NEW b \in BOOLEAN
    PROVE  LET w == Handled(v, [Frame("loop-done", t) EXCEPT !.final = b])
           IN  /\ Keeps(t, v, w) /\ (w.busy <=> v.busy)
               /\ (b => t \in v.text) => Ends(t, v, w)
<1> DEFINE f == [Frame("loop-done", t) EXCEPT !.final = b]
           z == [v EXCEPT !.text = {t}]
           y == IF b /\ v.text = {} THEN z ELSE v
<1>1. f.kind = "loop-done" /\ f.of = t /\ (f.final <=> b)
  BY DEF Frame
<1> HIDE DEF f
<1>2. Handled(v, f) = Finished(y)
  BY <1>1 DEF Handled
<1>3. z \in TabType /\ z.text = {t} /\ z.told = v.told
  BY DEF TabType
<1>4. (z.bubble <=> v.bubble) /\ (z.mixed <=> v.mixed) /\ (z.busy <=> v.busy)
  BY DEF TabType
<1>5. Same(v, z)
  BY DEF Same, TabType
<1> HIDE DEF z
<1>6. Keeps(t, v, z)
  BY <1>3, <1>4, <1>5 DEF Keeps
<1>7. y \in TabType /\ Keeps(t, v, y) /\ (y.busy <=> v.busy)
  BY <1>3, <1>4, <1>6, KeepsItself
<1>8. (b => t \in v.text) => y = v
  OBVIOUS
<1> HIDE DEF y
<1>9. Keeps(t, y, Finished(y)) /\ (Finished(y).busy <=> y.busy) /\ Ends(t, y, Finished(y))
  BY <1>7, FinishedKeeps, FinishedEnds
<1> QED
  BY <1>2, <1>7, <1>8, <1>9, KeepsAlong DEF f

\* So do the frames for a streamed reply and for an error.
LEMMA HandledEnd ==
    ASSUME NEW t \in Turn, NEW v \in TabType, NEW k \in {"streamed", "error"}
    PROVE  LET w == Handled(v, Frame(k, t))
           IN  Keeps(t, v, w) /\ (w.busy <=> v.busy) /\ Ends(t, v, w)
<1>1. Handled(v, Frame(k, t)) = Finished(v)
  BY DEF Handled, Frame
<1> QED
  BY <1>1, FinishedKeeps, FinishedEnds

\* A reply that was not streamed is an entry of its own.
LEMMA HandledReply ==
    ASSUME NEW t \in Turn, NEW v \in TabType
    PROVE  LET w == Handled(v, Frame("assistant-message", t))
           IN  /\ Keeps(t, v, w) /\ ~w.bubble
               /\ t \notin v.text => t \notin w.text /\ w.told[t] = Once(v.told[t])
<1> DEFINE y == Finished(v)
           w == Tells(y, {t})
<1>1. Handled(v, Frame("assistant-message", t)) = w
  BY DEF Handled, Frame
<1>2. Keeps(t, v, y) /\ Ends(t, v, y)
  BY FinishedKeeps, FinishedEnds
<1>3. y \in TabType
  BY <1>2 DEF Keeps
<1> HIDE DEF y
<1>4. /\ Keeps(t, y, w) /\ w.text = y.text /\ (w.bubble <=> y.bubble)
      /\ w.told[t] = Once(y.told[t])
  <2> DEFINE S == {t}
  <2>1. S \in SUBSET Turn /\ S \subseteq y.text \cup {t} /\ t \in S
    OBVIOUS
  <2> HIDE DEF S
  <2>2. /\ Keeps(t, y, Tells(y, S)) /\ Tells(y, S).text = y.text
        /\ (Tells(y, S).bubble <=> y.bubble)
        /\ \A u \in Turn : Tells(y, S).told[u] = IF u \in S THEN Once(y.told[u]) ELSE y.told[u]
    BY <2>1, <1>3, TellsKeeps
  <2> QED
    BY <2>2 DEF S
<1> HIDE DEF w
<1> QED
  BY <1>1, <1>2, <1>4, KeepsAlong DEF Ends

\* halted ends the reply and frees the composer.
LEMMA HandledHalted ==
    ASSUME NEW t \in Turn, NEW v \in TabType
    PROVE  LET w == Handled(v, Frame("halted", t))
           IN  Keeps(t, v, w) /\ Ends(t, v, w) /\ ~w.busy
<1> DEFINE y == Finished(v)
           w == Busy(y, FALSE)
<1>1. Handled(v, Frame("halted", t)) = w
  BY DEF Handled, Frame
<1>2. Keeps(t, v, y) /\ Ends(t, v, y)
  BY FinishedKeeps, FinishedEnds
<1>3. y \in TabType
  BY <1>2 DEF Keeps
<1> HIDE DEF y
<1>4. /\ Keeps(t, y, w) /\ ~w.busy /\ w.text = y.text /\ w.told = y.told
      /\ (w.bubble <=> y.bubble)
  BY <1>3, BusyKeeps
<1> HIDE DEF w
<1> QED
  BY <1>1, <1>2, <1>4, KeepsAlong DEF Ends

\* complete frees the composer and touches nothing else.
LEMMA HandledComplete ==
    ASSUME NEW t \in Turn, NEW v \in TabType
    PROVE  LET w == Handled(v, Frame("complete", t))
           IN  Keeps(t, v, w) /\ Rests(v, w) /\ ~w.busy
<1>1. Handled(v, Frame("complete", t)) = Busy(v, FALSE)
  BY DEF Handled, Frame, Completed
<1>2. \A b \in BOOLEAN : /\ Keeps(t, v, Busy(v, b)) /\ (Busy(v, b).busy <=> b)
                         /\ Rests(v, Busy(v, b))
  BY BusyKeeps DEF Rests
<1> QED
  BY <1>1, <1>2
-----------------------------------------------------------------------------
(***************************************************************************)
(* The frames of a step of turn t, one after the other.                    *)
(***************************************************************************)
After(b, v, f) == IF b THEN Handled(v, f) ELSE v

\* The loop is running, or is about to.
InLoop(r) == r.mode = "execute" /\ r.phase \in {"asked"} \cup Looping

\* The effect of the frames sent by a step from r to s that does not end the
\* turn,
Streaming(t, r, s, v) ==
    After(InLoop(r) /\ (s.phase = "saving" \/ (s.phase = "over" /\ "error" \notin s.notes)),
          After(s.phase \in {"calling", "tools"} /\ s.phase # r.phase,
                After(InLoop(r) /\ s.text /\ ~r.text, v, Frame("text-delta", t)),
                Frame("turn-start", t)),
          [Frame("loop-done", t) EXCEPT !.final = s.text])

\* and of those that report its end.
Reporting(t, s, v) ==
    Handled(After("cancelled" \in s.notes,
                  After("error" \in s.notes,
                        After("error" \notin s.notes, v,
                              Frame(IF s.mode = "plan" THEN "assistant-message" ELSE "streamed", t)),
                        Frame("error", t)),
                  Frame("halted", t)),
            Frame("complete", t))

\* The frames.
FrameType == [kind : {"text-delta", "turn-start", "loop-done", "assistant-message",
                      "streamed", "error", "halted", "complete"},
              of : Turn \cup {Null}, final : BOOLEAN]

\* The frames of the report, handled one by one.
LEMMA ReportRuns ==
    ASSUME NEW t \in Turn, NEW s \in TurnType, NEW v
    PROVE  /\ Report(t, s) \in Seq(FrameType)
           /\ Handling(v, Report(t, s)) = Reporting(t, s, v)
<1> DEFINE k == IF s.mode = "plan" THEN "assistant-message" ELSE "streamed"
           e == ("error" \in s.notes)
           c == ("cancelled" \in s.notes)
           A == If("error" \notin s.notes, <<Frame(k, t)>>)
           B == If("error" \in s.notes, <<Frame("error", t)>>)
           C == If("cancelled" \in s.notes, <<Frame("halted", t)>>)
           D == <<Frame("complete", t)>>
<1>3. Frame(k, t) \in FrameType /\ Frame("error", t) \in FrameType
      /\ Frame("halted", t) \in FrameType /\ Frame("complete", t) \in FrameType
  BY DEF Frame, FrameType
<1>4. A \in Seq(FrameType) /\ B \in Seq(FrameType) /\ C \in Seq(FrameType)
  <2> HIDE DEF FrameType, k
  <2> QED
    BY <1>3 DEF If
<1>5. D \in Seq(FrameType)
  <2> HIDE DEF FrameType
  <2> QED
    BY <1>3
<1>6. Report(t, s) = ((A \o B) \o C) \o D
  BY DEF Report
<1>7. /\ Handling(v, A) = After("error" \notin s.notes, v, Frame(k, t))
      /\ \A w : Handling(w, B) = After("error" \in s.notes, w, Frame("error", t))
      /\ \A w : Handling(w, C) = After("cancelled" \in s.notes, w, Frame("halted", t))
      /\ \A w : Handling(w, D) = Handled(w, Frame("complete", t))
  BY HandlingNone, HandlingOne DEF After, If
<1> HIDE DEF A, B, C, D, k, FrameType
<1>8. A \o B \in Seq(FrameType) /\ (A \o B) \o C \in Seq(FrameType)
  BY <1>4
<1>9. Handling(v, Report(t, s)) =
        Handling(Handling(Handling(Handling(v, A), B), C), D)
  <2>1. Handling(v, A \o B) = Handling(Handling(v, A), B)
    BY <1>4, HandlingConcat
  <2> DEFINE X == A \o B
             Y == X \o C
  <2>2. X \in Seq(FrameType) /\ Y \in Seq(FrameType) /\ Report(t, s) = Y \o D
    BY <1>6, <1>8
  <2> HIDE DEF X
  <2>3. Handling(v, X \o C) = Handling(Handling(v, X), C)
    BY <1>4, <2>2, HandlingConcat
  <2> HIDE DEF Y
  <2>4. Handling(v, Y \o D) = Handling(Handling(v, Y), D)
    BY <1>5, <2>2, HandlingConcat
  <2> QED
    BY <2>1, <2>2, <2>3, <2>4 DEF X, Y
<1>10. Report(t, s) \in Seq(FrameType)
  BY <1>5, <1>6, <1>8
<1> QED
  BY <1>7, <1>9, <1>10 DEF Reporting, k

\* The frames of a step, handled one by one.
LEMMA FramesRun ==
    ASSUME NEW t \in Turn, NEW r \in TurnType, NEW s \in TurnType, NEW v
    PROVE  Handling(v, Frames(t, r, s)) =
             IF s.phase = "over" THEN Reporting(t, s, Streaming(t, r, s, v))
                                 ELSE Streaming(t, r, s, v)
<1> DEFINE f == [Frame("loop-done", t) EXCEPT !.final = s.text]
           A == If(InLoop(r) /\ s.text /\ ~r.text, <<Frame("text-delta", t)>>)
           B == If(s.phase \in {"calling", "tools"} /\ s.phase # r.phase,
                   <<Frame("turn-start", t)>>)
           C == If(InLoop(r) /\ (s.phase = "saving" \/ (s.phase = "over" /\ "error" \notin s.notes)),
                   <<f>>)
           D == If(s.phase = "over", Report(t, s))
<1>3. Frame("text-delta", t) \in FrameType /\ Frame("turn-start", t) \in FrameType
      /\ f \in FrameType
  BY DEF Frame, FrameType, TurnType
<1>4. A \in Seq(FrameType) /\ B \in Seq(FrameType) /\ C \in Seq(FrameType)
  <2> HIDE DEF FrameType, f
  <2> QED
    BY <1>3 DEF If
<1>5. D \in Seq(FrameType)
  <2>1. Report(t, s) \in Seq(FrameType)
    BY ReportRuns
  <2> HIDE DEF FrameType
  <2> QED
    BY <2>1 DEF If
<1>6. Frames(t, r, s) = ((A \o B) \o C) \o D
  <2>1. (r.mode = "execute" /\ r.phase \in {"asked", "calling", "reading", "tools"}) <=> InLoop(r)
    BY DEF InLoop, Looping
  <2> QED
    BY <2>1 DEF Frames, If
<1>7. /\ Handling(v, A) = After(InLoop(r) /\ s.text /\ ~r.text, v, Frame("text-delta", t))
      /\ \A w : Handling(w, B) = After(s.phase \in {"calling", "tools"} /\ s.phase # r.phase,
                                      w, Frame("turn-start", t))
      /\ \A w : Handling(w, C) =
                  After(InLoop(r) /\ (s.phase = "saving" \/ (s.phase = "over" /\ "error" \notin s.notes)),
                        w, f)
      /\ \A w : Handling(w, D) = IF s.phase = "over" THEN Reporting(t, s, w) ELSE w
  BY HandlingNone, HandlingOne, ReportRuns DEF After, If
<1> HIDE DEF A, B, C, D, FrameType
<1>9. Handling(v, Frames(t, r, s)) =
        Handling(Handling(Handling(Handling(v, A), B), C), D)
  <2>1. Handling(v, A \o B) = Handling(Handling(v, A), B)
    BY <1>4, HandlingConcat
  <2> DEFINE X == A \o B
             Y == X \o C
  <2>2. X \in Seq(FrameType) /\ Y \in Seq(FrameType) /\ Frames(t, r, s) = Y \o D
    BY <1>4, <1>6
  <2> HIDE DEF X
  <2>3. Handling(v, X \o C) = Handling(Handling(v, X), C)
    BY <1>4, <2>2, HandlingConcat
  <2> HIDE DEF Y
  <2>4. Handling(v, Y \o D) = Handling(Handling(v, Y), D)
    BY <1>5, <2>2, HandlingConcat
  <2> QED
    BY <2>1, <2>2, <2>3, <2>4 DEF X, Y
<1> QED
  BY <1>7, <1>9 DEF Streaming
-----------------------------------------------------------------------------
(***************************************************************************)
(* How often a stream that heard of turn t has told its reply.             *)
(***************************************************************************)
Tell(v, r, t) ==
    /\ r.phase \notin {"saving", "saved", "over"} => v.told[t] = 0
    /\ t \in v.text => r.phase \in Looping /\ v.bubble
    /\ r.phase \in Looping /\ r.text => t \in v.text
    /\ r.phase \in {"saving", "saved"} => v.told[t] = IF r.mode = "execute" THEN 1 ELSE 0
    /\ r.phase = "over" => /\ v.told[t] \in {0, 1}
                           /\ r.text /\ ~(r.mode = "plan" /\ "error" \in r.notes) => v.told[t] = 1

\* While a turn runs, its text is in an open bubble or was told; when its loop
\* is left, its text was told once.
LEMMA StreamingTells ==
    ASSUME NEW t \in Turn, NEW r \in TurnType, TurnOK(r), NEW s, Steps(r, s), NEW v \in TabType
    PROVE  LET w == Streaming(t, r, s, v)
           IN  /\ Keeps(t, v, w)
               /\ Tell(v, r, t) =>
                    /\ t \in w.text => w.bubble /\ r.phase \in Looping
                    /\ ~(InLoop(r) /\ (s.phase = "saving" \/ (s.phase = "over" /\ "error" \notin s.notes)))
                         => w.told = v.told /\ (r.phase \in Looping /\ s.text => t \in w.text)
                    /\ (InLoop(r) /\ (s.phase = "saving" \/ (s.phase = "over" /\ "error" \notin s.notes)))
                         => /\ t \notin w.text /\ w.told[t] \in {0, 1}
                            /\ s.text => w.told[t] = 1
<1> DEFINE f == [Frame("loop-done", t) EXCEPT !.final = s.text]
           v1 == After(InLoop(r) /\ s.text /\ ~r.text, v, Frame("text-delta", t))
           v2 == After(s.phase \in {"calling", "tools"} /\ s.phase # r.phase, v1, Frame("turn-start", t))
           v3 == After(InLoop(r) /\ (s.phase = "saving" \/ (s.phase = "over" /\ "error" \notin s.notes)),
                       v2, f)
<1>0. s \in TurnType /\ s.text \in BOOLEAN /\ (r.text => s.text) /\ TurnOK(s)
  BY DEF Steps, TurnType
<1>1. /\ Keeps(t, v, v1) /\ v1.told = v.told
      /\ t \in v1.text => (t \in v.text /\ v1.bubble = v.bubble) \/ v1.bubble
      /\ InLoop(r) /\ s.text /\ ~r.text => t \in v1.text
      /\ t \in v.text => t \in v1.text
      /\ (InLoop(r) /\ s.text /\ ~r.text) \/ v1 = v
  BY HandledDelta, KeepsItself DEF After, Keeps
<1>2. v1 \in TabType
  BY <1>1 DEF Keeps
<1> HIDE DEF v1
<1>3. /\ Keeps(t, v1, v2) /\ v2.told = v1.told /\ v2.text = v1.text
      /\ v2.bubble \/ v2 = v1
  BY <1>2, HandledStart, KeepsItself DEF After
<1>4. v2 \in TabType
  BY <1>3 DEF Keeps
<1> HIDE DEF v2
<1>5. CASE ~(InLoop(r) /\ (s.phase = "saving" \/ (s.phase = "over" /\ "error" \notin s.notes)))
  <2>1. v3 = v2
    BY <1>5 DEF After
  <2>2. Keeps(t, v, v3)
    BY <2>1, <1>1, <1>3, KeepsAlong
  <2>3. ASSUME Tell(v, r, t)
        PROVE  /\ t \in v3.text => v3.bubble /\ r.phase \in Looping
               /\ r.phase \in Looping /\ s.text => t \in v3.text
    <3>1. r.phase \in Looping => InLoop(r)
      BY DEF TurnOK, InLoop
    <3>2. InLoop(r) /\ s.text /\ ~r.text => r.phase \in Looping
      BY DEF Steps, Looping, InLoop
    <3>3. t \in v.text => v.bubble /\ r.phase \in Looping
      BY <2>3 DEF Tell
    <3>4. r.phase \in Looping /\ r.text => t \in v.text
      BY <2>3 DEF Tell
    <3>5. t \in v1.text => v1.bubble /\ r.phase \in Looping
      BY <1>1, <3>2, <3>3
    <3>6. r.phase \in Looping /\ s.text => t \in v1.text
      BY <1>1, <3>1, <3>4
    <3> QED
      BY <2>1, <1>3, <3>5, <3>6
  <2> HIDE DEF v3
  <2> QED
    BY <1>1, <1>3, <1>5, <2>1, <2>2, <2>3 DEF Streaming, v1, v2, v3
<1>6. CASE InLoop(r) /\ (s.phase = "saving" \/ (s.phase = "over" /\ "error" \notin s.notes))
  <2>1. v3 = Handled(v2, f)
    BY <1>6 DEF After
  <2>2. Keeps(t, v2, v3) /\ ((s.text => t \in v2.text) => Ends(t, v2, v3))
    BY <1>0, <1>4, <2>1, HandledDone
  <2> HIDE DEF v3
  <2>3. Keeps(t, v, v3)
    BY <2>2, <1>1, <1>2, <1>3, <1>4, KeepsAlong
  <2>4. ASSUME Tell(v, r, t)
        PROVE  /\ t \notin v3.text /\ v3.told[t] \in {0, 1}
               /\ s.text => v3.told[t] = 1
    <3>1. r.text => r.phase \in Looping
      BY <1>6 DEF TurnOK, InLoop, Looping
    <3>2. s.text => t \in v1.text
      BY <1>1, <1>6, <2>4, <3>1 DEF Tell
    <3>3. v.told[t] = 0
      BY <1>6, <2>4 DEF Tell, InLoop, Looping
    <3>4. t \in v1.text => v1.bubble
      BY <1>1, <2>4 DEF Tell
    <3>5. t \in v2.text => v2.bubble
      BY <1>3, <3>4
    <3>6. Ends(t, v2, v3) /\ v2.told[t] = 0
      BY <1>1, <1>3, <2>2, <3>2, <3>3
    <3> QED
      BY <1>3, <3>2, <3>5, <3>6 DEF Ends, Once
  <2> QED
    BY <1>6, <2>3, <2>4 DEF Streaming, v1, v2, v3
<1> QED
  BY <1>5, <1>6

\* The report tells a reply that was not told, and leaves the composer free.
LEMMA ReportingTells ==
    ASSUME NEW t \in Turn, NEW s \in TurnType, NEW v \in TabType
    PROVE  LET w == Reporting(t, s, v)
           IN  /\ Keeps(t, v, w) /\ ~w.busy
               /\ (t \in v.text => v.bubble /\ s.mode = "execute")
                    => /\ t \notin w.text
                       /\ w.told[t] = IF (s.mode = "plan" /\ "error" \notin s.notes) \/ t \in v.text
                                      THEN Once(v.told[t]) ELSE v.told[t]
<1> DEFINE k == IF s.mode = "plan" THEN "assistant-message" ELSE "streamed"
           v1 == After("error" \notin s.notes, v, Frame(k, t))
           v2 == After("error" \in s.notes, v1, Frame("error", t))
           v3 == After("cancelled" \in s.notes, v2, Frame("halted", t))
           v4 == Handled(v3, Frame("complete", t))
<1>1. /\ Keeps(t, v, v1)
      /\ \/ "error" \in s.notes /\ v1 = v
         \/ /\ "error" \notin s.notes /\ s.mode = "plan" /\ ~v1.bubble
            /\ t \notin v.text => t \notin v1.text /\ v1.told[t] = Once(v.told[t])
         \/ "error" \notin s.notes /\ s.mode # "plan" /\ Ends(t, v, v1)
  <2>1. CASE "error" \in s.notes
    BY <2>1, KeepsItself DEF After
  <2>2. CASE "error" \notin s.notes /\ s.mode = "plan"
    <3>1. v1 = Handled(v, Frame("assistant-message", t))
      BY <2>2 DEF After
    <3> QED
      BY <2>2, <3>1, HandledReply
  <2>3. CASE "error" \notin s.notes /\ s.mode # "plan"
    <3>1. v1 = Handled(v, Frame("streamed", t)) /\ "streamed" \in {"streamed", "error"}
      BY <2>3 DEF After
    <3> QED
      BY <2>3, <3>1, HandledEnd
  <2> QED
    BY <2>1, <2>2, <2>3
<1>2. v1 \in TabType
  BY <1>1 DEF Keeps
<1> HIDE DEF v1
<1>3. /\ Keeps(t, v1, v2)
      /\ \/ "error" \notin s.notes /\ v2 = v1
         \/ "error" \in s.notes /\ Ends(t, v1, v2)
  <2>1. "error" \in {"streamed", "error"}
    OBVIOUS
  <2> QED
    BY <1>2, <2>1, HandledEnd, KeepsItself DEF After
<1>4. v2 \in TabType
  BY <1>3 DEF Keeps
<1> HIDE DEF v2
<1>5. Keeps(t, v2, v3) /\ (v3 = v2 \/ Ends(t, v2, v3))
  BY <1>4, HandledHalted, KeepsItself DEF After
<1>6. v3 \in TabType
  BY <1>5 DEF Keeps
<1> HIDE DEF v3
<1>7. Keeps(t, v3, v4) /\ Rests(v3, v4) /\ ~v4.busy
  BY <1>6, HandledComplete
<1> HIDE DEF v4
<1>8. Keeps(t, v, v4)
  <2>1. Keeps(t, v, v2)
    BY <1>1, <1>2, <1>3, KeepsAlong
  <2>2. Keeps(t, v, v3)
    BY <2>1, <1>4, <1>5, KeepsAlong
  <2> QED
    BY <2>2, <1>6, <1>7, KeepsAlong
<1>9. ASSUME t \in v.text => v.bubble /\ s.mode = "execute"
      PROVE  /\ t \notin v4.text
             /\ v4.told[t] = IF (s.mode = "plan" /\ "error" \notin s.notes) \/ t \in v.text
                             THEN Once(v.told[t]) ELSE v.told[t]
  <2>1. /\ t \notin v2.text
        /\ v2.told[t] = IF (s.mode = "plan" /\ "error" \notin s.notes) \/ t \in v.text
                        THEN Once(v.told[t]) ELSE v.told[t]
    BY <1>1, <1>3, <1>9 DEF Ends
  <2>2. t \notin v3.text /\ v3.told[t] = v2.told[t]
    BY <1>5, <2>1 DEF Ends
  <2> QED
    BY <1>7, <2>1, <2>2 DEF Rests
<1> QED
  BY <1>7, <1>8, <1>9 DEF Reporting, v1, v2, v3, v4

\* A step of turn t, on a stream that has its frames.
LEMMA FramesTell ==
    ASSUME NEW t \in Turn, NEW r \in TurnType, TurnOK(r), NEW s, Steps(r, s), NEW v \in TabType
    PROVE  LET w == Handling(v, Frames(t, r, s))
           IN  /\ Keeps(t, v, w) /\ (s.phase = "over" => ~w.busy)
               /\ Tell(v, r, t) => Tell(w, s, t)
<1> DEFINE y == Streaming(t, r, s, v)
           w == Handling(v, Frames(t, r, s))
           z == Reporting(t, s, y)
           done == InLoop(r) /\ (s.phase = "saving" \/ (s.phase = "over" /\ "error" \notin s.notes))
<1>0. s \in TurnType /\ TurnOK(s) /\ s.mode = r.mode /\ (r.text => s.text)
  BY DEF Steps
<1>1. w = IF s.phase = "over" THEN z ELSE y
  BY <1>0, FramesRun
<1>2. /\ Keeps(t, v, y)
      /\ Tell(v, r, t) =>
           /\ t \in y.text => y.bubble /\ r.phase \in Looping
           /\ ~done => y.told = v.told /\ (r.phase \in Looping /\ s.text => t \in y.text)
           /\ done => /\ t \notin y.text /\ y.told[t] \in {0, 1}
                      /\ (s.text => y.told[t] = 1)
  BY StreamingTells
<1>3. y \in TabType
  BY <1>2 DEF Keeps
<1>4. done => s.mode = "execute" /\ r.phase \in {"asked"} \cup Looping
  BY <1>0 DEF InLoop
<1>9. done <=> (s.mode = "execute" /\ r.phase \in {"asked"} \cup Looping
               /\ (s.phase = "saving" \/ (s.phase = "over" /\ "error" \notin s.notes)))
  BY <1>0 DEF InLoop
<1> HIDE DEF y, done
<1>5. CASE s.phase # "over"
  <2>1. w = y
    BY <1>1, <1>5
  <2> HIDE DEF w
  <2>2. ASSUME Tell(v, r, t)
        PROVE  Tell(y, s, t)
    <3>1. CASE s.phase = "saving"
      <4>1. r.phase \in {"planning"} \cup Looping /\ s.text
        BY <3>1, <1>0 DEF Steps, Edge, Looping, TurnOK
      <4>2. CASE r.phase = "planning"
        <5>1. r.mode = "plan" /\ ~done /\ v.told[t] = 0 /\ t \notin y.text
          BY <4>2, <1>2, <1>4, <2>2 DEF TurnOK, Tell, Looping
        <5> QED
          BY <5>1, <1>0, <1>2, <2>2, <3>1 DEF Tell, Looping
      <4>3. CASE r.phase \in Looping
        <5>1. s.mode = "execute" /\ done
          BY <4>3, <1>0, <1>9, <3>1 DEF TurnOK
        <5>2. t \notin y.text /\ y.told[t] = 1
          BY <5>1, <4>1, <1>2, <2>2
        <5> QED
          BY <5>1, <5>2, <3>1 DEF Tell, Looping
      <4> QED
        BY <4>1, <4>2, <4>3
    <3>2. CASE s.phase = "saved"
      <4>1. r.phase = "saving" /\ ~done
        BY <3>2, <1>9 DEF Steps, Edge
      <4> QED
        BY <4>1, <1>0, <1>2, <2>2, <3>2 DEF Tell, Looping
    <3>3. CASE s.phase \in Looping
      <4>1. r.phase \in {"asked"} \cup Looping /\ ~done
        BY <3>3, <1>9 DEF Steps, Edge, Looping
      <4>2. v.told[t] = 0
        BY <4>1, <2>2 DEF Tell, Looping
      <4>3. s.text => r.phase \in Looping
        BY <4>1 DEF Steps, TurnOK, Looping
      <4> QED
        BY <4>1, <4>2, <4>3, <1>2, <2>2, <3>3 DEF Tell, Looping
    <3>4. CASE s.phase \in {"opening", "asking", "asked", "planning"}
      <4>1. r.phase \in {"booting", "opening", "asking", "asked"} /\ ~done
        BY <3>4, <1>9 DEF Steps, Edge
      <4>2. v.told[t] = 0
        BY <4>1, <2>2 DEF Tell
      <4> QED
        BY <4>1, <4>2, <1>2, <2>2, <3>4 DEF Tell, Looping
    <3> QED
      BY <1>5, <3>1, <3>2, <3>3, <3>4 DEF Steps, Edge, Looping
  <2> QED
    BY <1>2, <1>5, <2>1, <2>2 DEF w
<1>6. CASE s.phase = "over"
  <2>1. w = z
    BY <1>1, <1>6
  <2>2. /\ Keeps(t, y, z) /\ ~z.busy
        /\ (t \in y.text => y.bubble /\ s.mode = "execute")
             => /\ t \notin z.text
                /\ z.told[t] = IF (s.mode = "plan" /\ "error" \notin s.notes) \/ t \in y.text
                               THEN Once(y.told[t]) ELSE y.told[t]
    BY <1>0, <1>3, ReportingTells
  <2> HIDE DEF w, z
  <2>3. Keeps(t, v, z)
    BY <1>2, <1>3, <2>2, KeepsAlong
  <2>4. ASSUME Tell(v, r, t)
        PROVE  Tell(z, s, t)
    <3>1. r.phase \in Looping => r.mode = "execute"
      BY DEF TurnOK
    <3>2. t \in y.text => y.bubble /\ s.mode = "execute"
      BY <1>0, <1>2, <2>4, <3>1
    <3>3. /\ t \notin z.text
          /\ z.told[t] = IF (s.mode = "plan" /\ "error" \notin s.notes) \/ t \in y.text
                         THEN Once(y.told[t]) ELSE y.told[t]
      BY <2>2, <3>2
    <3>4. r.phase # "over" /\ r.phase # "saving"
      BY <1>6 DEF Steps, Edge
    <3>5. CASE done
      <4>1. /\ t \notin y.text /\ y.told[t] \in {0, 1} /\ s.mode = "execute"
            /\ s.text => y.told[t] = 1
        BY <3>5, <1>2, <1>4, <2>4
      <4> QED
        BY <3>3, <4>1, <1>6 DEF Tell, Looping
    <3>6. CASE ~done /\ r.phase = "saved"
      <4>1. v.told[t] = IF r.mode = "execute" THEN 1 ELSE 0
        BY <3>6, <2>4 DEF Tell
      <4>2. t \notin y.text /\ y.told = v.told
        BY <3>6, <1>2, <2>4 DEF Looping
      <4>3. s.mode \in {"plan", "execute"}
        BY <1>0 DEF TurnType
      <4> QED
        BY <3>3, <4>1, <4>2, <4>3, <1>0, <1>6 DEF Tell, Looping, Once
    <3>7. CASE ~done /\ r.phase # "saved"
      <4>1. v.told[t] = 0 /\ y.told = v.told
        BY <3>4, <3>7, <1>2, <2>4 DEF Tell
      <4>2. s.mode \in {"plan", "execute"}
        BY <1>0 DEF TurnType
      <4>3. s.text => r.phase \in Looping \/ s.mode = "plan"
        BY <3>4, <3>7, <1>0 DEF Steps, TurnOK, Looping
      <4>4. s.text /\ r.phase \in Looping => t \in y.text
        BY <3>7, <1>2, <2>4
      <4> QED
        BY <3>3, <4>1, <4>2, <4>3, <4>4, <1>6 DEF Tell, Looping, Once
    <3> QED
      BY <3>5, <3>6, <3>7
  <2> QED
    BY <2>1, <2>2, <2>3, <2>4 DEF w
<1> QED
  BY <1>5, <1>6
-----------------------------------------------------------------------------
(***************************************************************************)
(* The other frames: an echoed message, and an interrupt.                  *)
(***************************************************************************)
LEMMA EchoHandled ==
    ASSUME NEW t \in Turn, NEW v \in TabType
    PROVE  LET w == Handling(v, Echo(t))
           IN  /\ w \in TabType /\ w.conn = v.conn /\ w.queue = v.queue /\ w.wire = v.wire
               /\ w.seen = v.seen /\ w.heard = v.heard \cup {t}
               /\ w.text = v.text /\ w.told = v.told
               /\ (w.bubble <=> v.bubble) /\ (w.mixed <=> v.mixed)
               /\ \A u \in Turn : w.said[u] = IF u = t /\ t \notin v.seen
                                             THEN Once(v.said[u]) ELSE v.said[u]
<1> DEFINE f == Frame("user-message", t)
           g == Frame("thinking", t)
           y == Handled(v, f)
           w == Busy(y, TRUE)
<1>1. Handling(v, Echo(t)) = w
  <2> DEFINE S == {f, g}
             A == <<f>>
             B == <<g>>
  <2>1. Echo(t) = A \o B /\ A \in Seq(S) /\ B \in Seq(S)
    BY DEF Echo
  <2>2. Handling(v, A) = Handled(v, f) /\ \A z : Handling(z, B) = Handled(z, g)
    BY HandlingOne
  <2> HIDE DEF A, B, S
  <2>3. Handling(v, A \o B) = Handling(Handling(v, A), B)
    BY <2>1, HandlingConcat
  <2>4. \A z : Handled(z, g) = Busy(z, TRUE)
    BY DEF Handled, Frame
  <2> QED
    BY <2>1, <2>2, <2>3, <2>4
<1> DEFINE h == [v EXCEPT !.heard = @ \cup {t}]
           k == [h EXCEPT !.said[t] = Once(@)]
<1>2. y = IF t \in v.seen THEN h ELSE k
  BY DEF Handled, Frame, Says
<1>3. h \in TabType /\ k \in TabType
  <2>1. h \in TabType
    BY DEF TabType
  <2> HIDE DEF h
  <2>2. [h.said EXCEPT ![t] = Once(@)] \in [Turn -> 0 .. 2]
    BY <2>1 DEF TabType, Once
  <2> DEFINE n == [h.said EXCEPT ![t] = Once(@)]
  <2>3. k = [h EXCEPT !.said = n]
    BY <2>1 DEF TabType
  <2> HIDE DEF n
  <2>4. k \in TabType
    BY <2>1, <2>2, <2>3 DEF TabType, n
  <2> QED
    BY <2>1, <2>4
<1>4. /\ h.conn = v.conn /\ h.queue = v.queue /\ h.wire = v.wire /\ h.seen = v.seen
      /\ h.heard = v.heard \cup {t} /\ h.text = v.text /\ h.told = v.told /\ h.said = v.said
  BY DEF TabType
<1>5. (h.bubble <=> v.bubble) /\ (h.mixed <=> v.mixed)
  BY DEF TabType
<1> HIDE DEF h
<1>6. /\ k.conn = h.conn /\ k.queue = h.queue /\ k.wire = h.wire /\ k.seen = h.seen
      /\ k.heard = h.heard /\ k.text = h.text /\ k.told = h.told
  BY <1>3 DEF TabType
<1>7. (k.bubble <=> h.bubble) /\ (k.mixed <=> h.mixed)
  BY <1>3 DEF TabType
<1>8. \A u \in Turn : k.said[u] = IF u = t THEN Once(h.said[u]) ELSE h.said[u]
  BY <1>3 DEF TabType
<1> HIDE DEF k
<1>9. y \in TabType /\ y.conn = v.conn /\ y.queue = v.queue /\ y.wire = v.wire
      /\ y.seen = v.seen /\ y.heard = v.heard \cup {t} /\ y.text = v.text /\ y.told = v.told
      /\ (y.bubble <=> v.bubble) /\ (y.mixed <=> v.mixed)
  BY <1>2, <1>3, <1>4, <1>5, <1>6, <1>7
<1>10. \A u \in Turn : y.said[u] = IF u = t /\ t \notin v.seen
                                  THEN Once(v.said[u]) ELSE v.said[u]
  BY <1>2, <1>4, <1>8
<1> HIDE DEF y
<1>11. w \in TabType
  BY <1>9 DEF Busy, TabType
<1>12. /\ w.conn = y.conn /\ w.queue = y.queue /\ w.wire = y.wire /\ w.seen = y.seen
       /\ w.heard = y.heard /\ w.text = y.text /\ w.told = y.told /\ w.said = y.said
  BY <1>9 DEF Busy, TabType
<1>13. (w.bubble <=> y.bubble) /\ (w.mixed <=> y.mixed)
  BY <1>9 DEF Busy, TabType
<1> HIDE DEF w
<1> QED
  BY <1>1, <1>9, <1>10, <1>11, <1>12, <1>13

\* The frame that answers an interrupt is about no turn.
LEMMA HaltHandled ==
    ASSUME NEW v \in TabType
    PROVE  LET w == Handling(v, <<Frame("halted", Null)>>)
           IN  Keeps(Null, v, w) /\ ~w.busy
<1> DEFINE y == Finished(v)
           w == Busy(y, FALSE)
<1>1. Handling(v, <<Frame("halted", Null)>>) = w
  <2>1. Handled(v, Frame("halted", Null)) = w
    BY DEF Handled, Frame
  <2> QED
    BY <2>1, HandlingOne
<1>2. Keeps(Null, v, y)
  BY FinishedKeeps
<1>3. y \in TabType
  BY <1>2 DEF Keeps
<1> HIDE DEF y
<1>4. Keeps(Null, y, w) /\ ~w.busy
  BY <1>3, BusyKeeps
<1> HIDE DEF w
<1> QED
  BY <1>1, <1>2, <1>4, KeepsAlong
-----------------------------------------------------------------------------
(***************************************************************************)
(* The invariant of the pages: what a stream v knows of the turns, when    *)
(* these are turns, flying those in flight and n the number of interrupts. *)
(***************************************************************************)
CanWait(v) ==
    /\ v.wire # <<>> => v.conn = "live"
    /\ v.busy /\ ~v.lossy /\ v.conn # "live" => v.queue # <<>>

\* StuckOnlyIfCut, for one stream.
Composer(v, flying) == v.busy /\ ~v.lossy => flying # {} \/ v.wire # <<>> \/ v.queue # <<>>

\* A message is shown once if the stream typed it or heard of it, and not
\* before its turn has begun unless it was typed here.
Said(v, t, r) ==
    /\ v.said[t] \in {0, 1}
    /\ t \in v.seen => v.said[t] = 1
    /\ v.said[t] = 1 /\ t \notin v.seen => r.phase # "idle"
    /\ t \in v.heard => v.said[t] = 1 /\ r.phase # "idle" /\ v.conn = "live"

\* Of a turn that has not begun nothing was shown.
Unheard(v, t, r) == r.phase = "idle" => t \notin v.text /\ v.told[t] = 0

\* Alone, for any function of turns.
AloneIn(turns, t) == /\ turns[t].beside = {}
                     /\ \A u \in Turn : t \notin turns[u].beside

\* The second part of ShownOnce, from the point of view of one stream: what
\* was told of each turn it heard is what that turn should have told by now.
Replies(v, turns, n) ==
    n = 0 /\ (\A u \in v.heard : AloneIn(turns, u))
        => ~v.mixed /\ \A u \in v.heard : Tell(v, turns[u], u)

\* The invariant of a stream.
StreamOK(v, turns, flying, n) ==
    /\ CanWait(v) /\ Composer(v, flying) /\ Replies(v, turns, n)
    /\ \A t \in Turn : Said(v, t, turns[t]) /\ Unheard(v, t, turns[t])

\* The types of the pages.
PageTypes ==
    /\ guests \in Seq(Turn) /\ patient \in BOOLEAN /\ cuts \in Nat
    /\ page \in [Page -> [chat : Stream \cup {Null}, todo : SUBSET Turn]]
    /\ tab \in [Stream -> TabType]

\* A message that is still to be typed is nowhere else.
Elsewhere(t, v) == t \notin Range(v.wire) \cup Range(v.queue) \cup v.seen

\* A message that a page is still to type is nobody else's and has been seen
\* nowhere.
Untyped ==
    /\ \A p, q \in Page : p # q => page[p].todo \cap page[q].todo = {}
    /\ \A p \in Page : \A t \in page[p].todo :
          /\ At(t, "idle") /\ t \notin Range(guests)
          /\ \A x \in Stream : Elsewhere(t, tab[x])

\* The inductive invariant of the chat: the object, and each stream by itself.
PageInv ==
    /\ ChatInv /\ PageTypes /\ Untyped
    /\ \A x \in Stream : StreamOK(tab[x], turn, InFlight, interrupts)

\* The commands of a queue with one more,
LEMMA RangeAppend ==
    ASSUME NEW S, NEW q \in Seq(S), NEW c \in S
    PROVE  Range(Append(q, c)) = Range(q) \cup {c}
<1> DEFINE r == Append(q, c)
<1>1. r \in Seq(S) /\ Len(r) = Len(q) + 1 /\ Len(q) \in Nat
  OBVIOUS
<1>2. DOMAIN r = 1 .. (Len(q) + 1) /\ DOMAIN q = 1 .. Len(q)
  OBVIOUS
<1>3. r[Len(q) + 1] = c /\ \A i \in 1 .. Len(q) : r[i] = q[i]
  OBVIOUS
<1> HIDE DEF r
<1>4. ASSUME NEW e \in Range(r) PROVE e \in Range(q) \cup {c}
  <2>1. PICK i \in 1 .. (Len(q) + 1) : e = r[i]
    BY <1>2 DEF Range
  <2>2. CASE i = Len(q) + 1
    BY <2>1, <2>2, <1>3
  <2>3. CASE i \in 1 .. Len(q)
    BY <2>1, <2>3, <1>2, <1>3 DEF Range
  <2> QED
    BY <2>1, <2>2, <2>3, <1>1
<1>5. ASSUME NEW e \in Range(q) PROVE e \in Range(r)
  <2>1. PICK i \in 1 .. Len(q) : e = q[i]
    BY <1>2 DEF Range
  <2>2. i \in 1 .. (Len(q) + 1) /\ r[i] = e
    BY <1>1, <1>3, <2>1
  <2> QED
    BY <2>2, <1>2 DEF Range
<1>6. c \in Range(r)
  <2>1. Len(q) + 1 \in DOMAIN r
    BY <1>1, <1>2
  <2> QED
    BY <2>1, <1>3 DEF Range
<1> QED
  BY <1>4, <1>5, <1>6 DEF r

\* of a queue with one less,
LEMMA RangeTail ==
    ASSUME NEW S, NEW q \in Seq(S), q # <<>>
    PROVE  /\ Head(q) \in Range(q) /\ Head(q) \in S
           /\ Tail(q) \in Seq(S) /\ Range(Tail(q)) \subseteq Range(q)
<1>1. Len(q) \in Nat /\ Len(q) > 0 /\ DOMAIN q = 1 .. Len(q) /\ Head(q) = q[1]
  OBVIOUS
<1>2. Tail(q) \in Seq(S) /\ Len(Tail(q)) = Len(q) - 1
      /\ \A i \in 1 .. (Len(q) - 1) : Tail(q)[i] = q[i + 1]
  OBVIOUS
<1>3. DOMAIN Tail(q) = 1 .. (Len(q) - 1)
  BY <1>2
<1>4. 1 \in DOMAIN q /\ q[1] \in S
  BY <1>1
<1>5. ASSUME NEW e \in Range(Tail(q)) PROVE e \in Range(q)
  <2>1. PICK i \in 1 .. (Len(q) - 1) : e = Tail(q)[i]
    BY <1>3 DEF Range
  <2>2. i + 1 \in DOMAIN q /\ e = q[i + 1]
    BY <2>1, <1>1, <1>2
  <2> QED
    BY <2>2 DEF Range
<1> QED
  BY <1>1, <1>2, <1>4, <1>5 DEF Range

\* and of an empty one.
LEMMA RangeEmpty == Range(<<>>) = {}
BY DEF Range

\* A stream without a socket.
LEMMA DeafStays ==
    ASSUME NEW v \in TabType, v.conn # "live", NEW turns, NEW more, NEW flying, NEW others,
           NEW n, NEW m, StreamOK(v, turns, flying, n),
           n = 0 \/ m # 0,
           \A t \in Turn : more[t].phase = "idle" => turns[t].phase = "idle"
    PROVE  StreamOK(v, more, others, m)
<1>1. v.heard = {} /\ v.heard \subseteq Turn
  BY DEF StreamOK, Said, TabType
<1>2. Composer(v, others)
  BY DEF StreamOK, CanWait, Composer
<1>3. Replies(v, more, m)
  BY <1>1 DEF StreamOK, Replies
<1>4. ASSUME NEW t \in Turn
      PROVE  Said(v, t, more[t]) /\ Unheard(v, t, more[t])
  <2>1. Said(v, t, turns[t]) /\ Unheard(v, t, turns[t])
    BY DEF StreamOK
  <2>2. more[t].phase = "idle" => turns[t].phase = "idle"
    OBVIOUS
  <2> QED
    BY <1>1, <2>1, <2>2 DEF Said, Unheard
<1> QED
  BY <1>2, <1>3, <1>4 DEF StreamOK

\* A step of turn t only, to s, when flying are in flight.
OneStep(t, turns, s, more, flying) ==
    /\ turns[t].phase # "idle" /\ s.phase # "idle" /\ more[t] = s
    /\ \A u \in Turn : u # t => more[u] = turns[u]
    /\ s.beside = turns[t].beside
    /\ t \in flying
    /\ \A u \in Turn : u \in flying \/ turns[u].phase \in {"idle", "over"}
    /\ \A u \in Turn : u \in flying => turns[u].phase # "over"
    /\ \A u \in Turn : AloneIn(turns, u) /\ u \in flying => flying = {u}

\* What a stream knows when it handles the frames of such a step.
LEMMA StepHandled ==
    ASSUME NEW t \in Turn, NEW v \in TabType, NEW w, NEW turns, NEW s, NEW more,
           NEW flying, NEW n, OneStep(t, turns, s, more, flying),
           v.conn = "live", StreamOK(v, turns, flying, n), Keeps(t, v, w),
           Tell(v, turns[t], t) => Tell(w, s, t),
           NEW others, others # {} \/ ~w.busy
    PROVE  StreamOK(w, more, others, n)
<1>0. w \in TabType /\ Same(v, w) /\ v.heard \subseteq Turn
  BY DEF Keeps, TabType
<1>9. /\ turns[t].phase # "idle" /\ s.phase # "idle" /\ more[t] = s
      /\ \A u \in Turn : u # t => more[u] = turns[u]
      /\ s.beside = turns[t].beside
      /\ t \in flying
      /\ \A u \in Turn : u \in flying \/ turns[u].phase \in {"idle", "over"}
      /\ \A u \in Turn : u \in flying => turns[u].phase # "over"
      /\ \A u \in Turn : AloneIn(turns, u) /\ u \in flying => flying = {u}
  BY DEF OneStep
<1>1. CanWait(w) /\ Composer(w, others)
  BY <1>0 DEF StreamOK, CanWait, Composer, Same
<1>2. ASSUME NEW u \in Turn
      PROVE  Said(w, u, more[u]) /\ Unheard(w, u, more[u])
  <2>1. Said(v, u, turns[u]) /\ Unheard(v, u, turns[u])
    BY DEF StreamOK
  <2>2. (u # t => more[u] = turns[u]) /\ turns[t].phase # "idle" /\ more[t].phase # "idle"
    BY <1>9
  <2>3. Said(w, u, more[u])
    BY <1>0, <2>1, <2>2 DEF Said, Same
  <2>4. Unheard(w, u, more[u])
    BY <2>1, <2>2 DEF Unheard, Keeps
  <2> QED
    BY <2>3, <2>4
<1>3. Replies(w, more, n)
  <2> SUFFICES ASSUME n = 0, \A u \in w.heard : AloneIn(more, u)
               PROVE  ~w.mixed /\ \A u \in w.heard : Tell(w, more[u], u)
    BY DEF Replies
  <2>1. \A u \in Turn : more[u].beside = turns[u].beside
    BY <1>9
  <2>2. \A u \in v.heard : u \in Turn /\ AloneIn(turns, u)
    BY <1>0, <2>1 DEF Same, AloneIn
  <2>3. ~v.mixed /\ \A u \in v.heard : Tell(v, turns[u], u)
    BY <2>2 DEF StreamOK, Replies
  <2>4. ASSUME NEW u \in v.heard, u # t
        PROVE  turns[u].phase = "over"
    <3>1. u \in Turn /\ AloneIn(turns, u)
      BY <2>2
    <3>2. u \notin flying
      BY <3>1, <2>4, <1>9
    <3>3. turns[u].phase # "idle"
      BY <3>1 DEF StreamOK, Said
    <3> QED
      BY <3>1, <3>2, <3>3, <1>9
  <2>5. ASSUME NEW u \in v.heard, u # t
        PROVE  u \notin v.text
    BY <2>3, <2>4, <2>5 DEF Tell, Looping
  <2>6. OneHeard(v, t)
    BY <2>5 DEF OneHeard
  <2>7. ~w.mixed
    BY <2>3, <2>6 DEF Keeps
  <2>8. ASSUME NEW u \in w.heard
        PROVE  Tell(w, more[u], u)
    <3>1. u \in v.heard /\ u \in Turn
      BY <1>0, <2>2 DEF Same
    <3>2. CASE u = t
      BY <3>1, <3>2, <2>3, <1>9
    <3>3. CASE u # t
      <4>1. Tell(v, turns[u], u) /\ turns[u].phase = "over" /\ u \notin v.text
        BY <3>1, <3>3, <2>3, <2>4, <2>5
      <4>2. w.told[u] = v.told[u] /\ u \notin w.text /\ more[u] = turns[u]
        BY <3>1, <3>3, <4>1, <1>9 DEF Keeps
      <4> QED
        BY <4>1, <4>2 DEF Tell, Looping
    <3> QED
      BY <3>2, <3>3
  <2> QED
    BY <2>7, <2>8
<1> QED
  BY <1>1, <1>2, <1>3 DEF StreamOK

\* A message is echoed, and its turn begins.
LEMMA EchoHeard ==
    ASSUME NEW t \in Turn, NEW v \in TabType, NEW turns, NEW more, NEW flying, NEW others, NEW n,
           v.conn = "live", StreamOK(v, turns, flying, n),
           turns[t].phase = "idle", turns[t].beside = {},
           more[t].phase \in {"booting", "opening"},
           \A u \in Turn : u # t => more[u] = turns[u],
           others # {}
    PROVE  /\ StreamOK(Handling(v, Echo(t)), more, others, n)
           /\ Handling(v, Echo(t)) \in TabType
<1> DEFINE w == Handling(v, Echo(t))
<1>1. /\ w \in TabType /\ w.conn = v.conn /\ w.queue = v.queue /\ w.wire = v.wire
      /\ w.seen = v.seen /\ w.heard = v.heard \cup {t}
      /\ w.text = v.text /\ w.told = v.told
      /\ (w.bubble <=> v.bubble) /\ (w.mixed <=> v.mixed)
      /\ \A u \in Turn : w.said[u] = IF u = t /\ t \notin v.seen
                                    THEN Once(v.said[u]) ELSE v.said[u]
  BY EchoHandled
<1> HIDE DEF w
<1>2. CanWait(w) /\ Composer(w, others)
  BY <1>1 DEF StreamOK, CanWait, Composer
<1>3. ASSUME NEW u \in Turn
      PROVE  Said(w, u, more[u]) /\ Unheard(w, u, more[u])
  <2>1. Said(v, u, turns[u]) /\ Unheard(v, u, turns[u])
    BY DEF StreamOK
  <2>2. CASE u # t
    <3>1. more[u] = turns[u] /\ w.said[u] = v.said[u] /\ (u \in w.heard <=> u \in v.heard)
      BY <2>2, <1>1
    <3> QED
      BY <3>1, <2>1, <1>1 DEF Said, Unheard
  <2>3. CASE u = t
    <3>1. more[u].phase # "idle" /\ turns[u].phase = "idle"
      BY <2>3
    <3>2. w.said[u] = 1
      BY <2>1, <2>3, <3>1, <1>1 DEF Said, Once
    <3> QED
      BY <3>1, <3>2, <1>1 DEF Said, Unheard
  <2> QED
    BY <2>2, <2>3
<1>4. Replies(w, more, n)
  <2> SUFFICES ASSUME n = 0, \A u \in w.heard : AloneIn(more, u)
               PROVE  ~w.mixed /\ \A u \in w.heard : Tell(w, more[u], u)
    BY DEF Replies
  <2>1. v.heard \subseteq Turn /\ t \notin v.heard
    BY DEF StreamOK, Said, TabType
  <2>2. ASSUME NEW u \in v.heard
        PROVE  AloneIn(turns, u)
    <3>1. u # t /\ u \in Turn /\ AloneIn(more, u)
      BY <1>1, <2>1
    <3>2. \A a \in Turn : turns[a].beside \subseteq more[a].beside
      OBVIOUS
    <3>3. more[u] = turns[u]
      BY <3>1
    <3> QED
      BY <3>1, <3>2, <3>3 DEF AloneIn
  <2>3. ~v.mixed /\ \A u \in v.heard : Tell(v, turns[u], u)
    BY <2>2 DEF StreamOK, Replies
  <2>4. ASSUME NEW u \in w.heard
        PROVE  Tell(w, more[u], u)
    <3>1. CASE u = t
      <4>1. Unheard(v, t, turns[t])
        BY DEF StreamOK
      <4> QED
        BY <3>1, <4>1, <1>1 DEF Unheard, Tell, Looping
    <3>2. CASE u \in v.heard /\ u # t
      <4>1. Tell(v, turns[u], u) /\ more[u] = turns[u]
        BY <3>2, <2>1, <2>3
      <4> QED
        BY <4>1, <1>1 DEF Tell
    <3> QED
      BY <3>1, <3>2, <1>1
  <2> QED
    BY <1>1, <2>3, <2>4
<1>5. StreamOK(w, more, others, n)
  BY <1>2, <1>3, <1>4 DEF StreamOK
<1> QED
  BY <1>1, <1>5 DEF w

\* An interrupt ends the bubble, and the composer is free.
LEMMA HaltHeard ==
    ASSUME NEW v \in TabType, NEW turns, NEW more, NEW flying, NEW others, NEW n, NEW m,
           v.conn = "live", StreamOK(v, turns, flying, n), m # 0,
           \A u \in Turn : more[u].phase = turns[u].phase
    PROVE  LET w == Handling(v, <<Frame("halted", Null)>>)
           IN  /\ StreamOK(w, more, others, m)
               /\ w \in TabType /\ Same(v, w) /\ ~w.busy
<1> DEFINE w == Handling(v, <<Frame("halted", Null)>>)
<1>1. Keeps(Null, v, w) /\ ~w.busy
  BY HaltHandled
<1> HIDE DEF w
<1>2. w \in TabType /\ Same(v, w)
  BY <1>1 DEF Keeps
<1>3. CanWait(w) /\ Composer(w, others) /\ Replies(w, more, m)
  BY <1>1, <1>2 DEF StreamOK, CanWait, Composer, Replies, Same
<1>4. ASSUME NEW u \in Turn
      PROVE  Said(w, u, more[u]) /\ Unheard(w, u, more[u])
  <2>1. Said(v, u, turns[u]) /\ Unheard(v, u, turns[u])
    BY DEF StreamOK
  <2>2. u # Null /\ more[u].phase = turns[u].phase
    BY ChatAssumption
  <2>3. Said(w, u, more[u])
    BY <1>2, <2>1, <2>2 DEF Said, Same
  <2>4. Unheard(w, u, more[u])
    BY <2>1, <2>2, <1>1 DEF Unheard, Keeps
  <2> QED
    BY <2>3, <2>4
<1>5. StreamOK(w, more, others, m)
  BY <1>3, <1>4 DEF StreamOK
<1> QED
  BY <1>1, <1>2, <1>5 DEF w

\* The command that was delivered leaves the wire.
LEMMA WireAdvances ==
    ASSUME NEW v \in TabType, NEW turns, NEW flying, NEW n,
           StreamOK(v, turns, flying, n), v.conn = "live", v.wire # <<>>, flying # {} \/ ~v.busy
    PROVE  LET w == [v EXCEPT !.wire = Tail(@)]
           IN  /\ StreamOK(w, turns, flying, n) /\ w \in TabType
               /\ w.queue = v.queue /\ w.seen = v.seen /\ Range(w.wire) \subseteq Range(v.wire)
<1> DEFINE w == [v EXCEPT !.wire = Tail(@)]
<1>0. v.wire \in Seq(Command)
  BY DEF TabType
<1>1. Tail(v.wire) \in Seq(Command) /\ Range(Tail(v.wire)) \subseteq Range(v.wire)
  <2> HIDE DEF Command
  <2> QED
    BY <1>0, RangeTail
<1>2. w \in TabType
  BY <1>1 DEF TabType
<1>3. /\ w.conn = v.conn /\ w.queue = v.queue /\ w.seen = v.seen /\ w.heard = v.heard
      /\ w.text = v.text /\ w.told = v.told /\ w.said = v.said /\ w.wire = Tail(v.wire)
  BY DEF TabType
<1>4. /\ (w.bubble <=> v.bubble) /\ (w.mixed <=> v.mixed)
      /\ (w.busy <=> v.busy) /\ (w.lossy <=> v.lossy)
  BY DEF TabType
<1> HIDE DEF w
<1>5. CanWait(w) /\ Composer(w, flying)
  BY <1>3, <1>4 DEF StreamOK, CanWait, Composer
<1>6. Replies(w, turns, n)
  BY <1>3, <1>4 DEF StreamOK, Replies, Tell
<1>7. \A t \in Turn : Said(w, t, turns[t]) /\ Unheard(w, t, turns[t])
  BY <1>3 DEF StreamOK, Said, Unheard
<1>8. StreamOK(w, turns, flying, n)
  BY <1>5, <1>6, <1>7 DEF StreamOK
<1> QED
  BY <1>1, <1>2, <1>3, <1>8 DEF w
-----------------------------------------------------------------------------
(***************************************************************************)
(* The steps of the chat, for the pages.                                   *)
(***************************************************************************)

\* What the pages may rely on, in the terms of the object.
LEMMA ChatFacts ==
    ASSUME ChatInv
    PROVE  /\ turn \in [Turn -> TurnType] /\ Null \notin Turn
           /\ \A u \in Turn : TurnOK(turn[u])
           /\ \A u \in Turn : u \in InFlight \/ turn[u].phase \in {"idle", "over"}
           /\ \A u \in Turn : u \in InFlight => turn[u].phase \notin {"idle", "over"}
           /\ \A u \in Turn : AloneIn(turn, u) /\ u \in InFlight => InFlight = {u}
<1>1. turn \in [Turn -> TurnType] /\ Null \notin Turn /\ \A u \in Turn : TurnOK(turn[u])
  BY ChatAssumption DEF ChatInv, TurnInv, TypeOK
<1>2. \A u \in Turn : u \in complete <=> turn[u].phase = "over"
  BY DEF ChatInv, TurnInv, At
<1>3. \A u \in Turn : u \in InFlight <=> turn[u].phase # "idle" /\ turn[u].phase # "over"
  BY <1>2 DEF InFlight
<1>4. \A u \in Turn : AloneIn(turn, u) => Alone(u)
  BY DEF Alone, AloneIn
<1>5. \A u \in Turn : Alone(u) /\ u \in InFlight => InFlight = {u}
  BY DEF ChatInv, OwnController
<1> QED
  BY <1>1, <1>3, <1>4, <1>5

\* Nothing becomes idle, and what a page still has to type stays elsewhere.
LEMMA UntypedStays ==
    ASSUME Untyped, PageTypes, tab' \in [Stream -> TabType],
           \A t \in Turn : turn[t].phase = "idle" /\ (\E p \in Page : t \in page[p].todo)
                             => turn'[t].phase = "idle",
           UNCHANGED guests, \A p \in Page : page'[p].todo = page[p].todo,
           \A x \in Stream : /\ Range(tab'[x].wire) \subseteq Range(tab[x].wire) \cup Range(tab[x].queue)
                             /\ Range(tab'[x].queue) \subseteq Range(tab[x].queue)
                             /\ tab'[x].seen = tab[x].seen
    PROVE  Untyped'
<1>1. \A p, q \in Page : p # q => page'[p].todo \cap page'[q].todo = {}
  BY DEF Untyped
<1>2. ASSUME NEW p \in Page, NEW t \in page'[p].todo
      PROVE  /\ turn'[t].phase = "idle" /\ t \notin Range(guests')
             /\ \A x \in Stream : Elsewhere(t, tab'[x])
  <2>1. t \in page[p].todo /\ t \in Turn
    BY DEF PageTypes
  <2>2. turn[t].phase = "idle" /\ t \notin Range(guests) /\ \A x \in Stream : Elsewhere(t, tab[x])
    BY <2>1 DEF Untyped, At
  <2> QED
    BY <2>1, <2>2 DEF Elsewhere
<1> QED
  BY <1>1, <1>2 DEF Untyped, At

\* Only a stream with a live socket sees frames.
LEMMA SeenStream ==
    ASSUME NEW x \in Stream, NEW fs
    PROVE  Seen(x, fs) = IF tab[x].conn = "live" THEN Handling(tab[x], fs) ELSE tab[x]
BY DEF Seen

\* A step of a turn and the frames it sends to every stream.
LEMMA GoesKeeps ==
    ASSUME PageInv, NEW t \in Turn, Goes(t)
    PROVE  /\ PageInv'
           /\ \A u \in Turn : Interrupted(u) /\ turn'[u].phase = "calling" => turn[u].phase = "calling"
<1>1. ChatInv /\ PageTypes /\ Untyped /\ Moves(t) /\ UNCHANGED <<guests, patient, cuts, page>>
      /\ tab' = [x \in Stream |-> Seen(x, Frames(t, turn[t], turn'[t]))]
  BY DEF PageInv, Goes
<1>2. PICK s : Steps(turn[t], s) /\ Beside(t, turn[t], s)
  BY <1>1, MovesStep DEF ChatInv, Result
<1>3. /\ turn \in [Turn -> TurnType] /\ TurnOK(turn[t])
      /\ \A u \in Turn : u \in InFlight \/ turn[u].phase \in {"idle", "over"}
      /\ \A u \in Turn : u \in InFlight => turn[u].phase \notin {"idle", "over"}
      /\ \A u \in Turn : AloneIn(turn, u) /\ u \in InFlight => InFlight = {u}
  BY <1>1, ChatFacts
<1>4. /\ turn'[t] = s /\ (\A u \in Turn : u # t => turn'[u] = turn[u])
      /\ complete' = (IF s.phase = "over" THEN complete \cup {t} ELSE complete)
      /\ interrupts' = interrupts
  BY <1>2, <1>3 DEF Beside, Puts, intrVars
<1>5. /\ turn[t].phase \notin {"idle", "over"} /\ s.phase # "idle"
      /\ s.beside = turn[t].beside /\ s \in TurnType /\ t \in InFlight
  BY <1>2, <1>3 DEF Steps, Edge
<1>6. s.phase # "over" => t \in InFlight'
  BY <1>4, <1>5 DEF InFlight
<1>7. /\ ChatInv'
      /\ \A u \in Turn : Interrupted(u) /\ turn'[u].phase = "calling" => turn[u].phase = "calling"
  BY <1>1, MovesKeepsChat
<1>8. ASSUME NEW x \in Stream
      PROVE  /\ tab'[x] \in TabType /\ Same(tab[x], tab'[x])
             /\ StreamOK(tab'[x], turn', InFlight', interrupts')
  <2>1. tab[x] \in TabType /\ StreamOK(tab[x], turn, InFlight, interrupts)
    BY DEF PageInv, PageTypes
  <2>2. CASE tab[x].conn = "live"
    <3> DEFINE w == Handling(tab[x], Frames(t, turn[t], s))
    <3>1. tab'[x] = w
      BY <1>1, <1>4, <2>2, SeenStream
    <3>2. /\ Keeps(t, tab[x], w) /\ (s.phase = "over" => ~w.busy)
          /\ Tell(tab[x], turn[t], t) => Tell(w, s, t)
      BY <1>2, <1>3, <2>1, FramesTell
    <3> HIDE DEF w
    <3>3. InFlight' # {} \/ ~w.busy
      BY <1>6, <3>2
    <3>4. StreamOK(w, turn', InFlight', interrupts)
      <4> DEFINE o == InFlight'
      <4>1. o # {} \/ ~w.busy
        BY <3>3
      <4> HIDE DEF o
      <4> DEFINE more == turn'
                 v == tab[x]
                 flying == InFlight
      <4>2. OneStep(t, turn, s, more, flying)
        BY <1>3, <1>4, <1>5 DEF OneStep
      <4>4. /\ v \in TabType /\ v.conn = "live" /\ StreamOK(v, turn, flying, interrupts)
            /\ Keeps(t, v, w) /\ (Tell(v, turn[t], t) => Tell(w, s, t))
        BY <2>1, <2>2, <3>2
      <4>5. StreamOK(w, more, o, interrupts)
        <5> HIDE DEF more, v, flying
        <5> QED
          BY <4>1, <4>2, <4>4, StepHandled
      <4> QED
        BY <4>5 DEF o
    <3> QED
      BY <1>4, <3>1, <3>2, <3>4 DEF Keeps
  <2>3. CASE tab[x].conn # "live"
    <3>1. tab'[x] = tab[x]
      BY <1>1, <2>3, SeenStream
    <3>2. \A u \in Turn : turn'[u].phase = "idle" => turn[u].phase = "idle"
      BY <1>4, <1>5
    <3>3. StreamOK(tab[x], turn', InFlight', interrupts)
      BY <2>1, <2>3, <3>2, DeafStays
    <3> QED
      BY <1>4, <2>1, <3>1, <3>3 DEF Same
  <2> QED
    BY <2>2, <2>3
<1>9. PageTypes'
  BY <1>1, <1>8 DEF PageTypes
<1>10. Untyped'
  BY <1>1, <1>4, <1>5, <1>8, <1>9, UntypedStays DEF PageTypes, Same
<1> QED
  BY <1>7, <1>8, <1>9, <1>10 DEF PageInv

\* A further delta.
LEMMA DeltaKeeps ==
    ASSUME PageInv, NEW t \in Turn, Delta(t)
    PROVE  PageInv'
<1> DEFINE f == Frame("text-delta", t)
<1>1. ChatInv /\ PageTypes /\ Untyped /\ UNCHANGED vars /\ UNCHANGED <<guests, patient, cuts, page>>
      /\ tab' = [x \in Stream |-> Seen(x, <<f>>)] /\ turn[t].phase = "reading"
  BY DEF PageInv, Delta, At
<1> HIDE DEF f
<1>2. ChatInv' /\ turn' = turn /\ interrupts' = interrupts /\ InFlight' = InFlight
  BY <1>1, ChatStays DEF vars, InFlight
<1>3. /\ turn \in [Turn -> TurnType]
      /\ \A u \in Turn : u \in InFlight \/ turn[u].phase \in {"idle", "over"}
      /\ \A u \in Turn : u \in InFlight => turn[u].phase \notin {"idle", "over"}
      /\ \A u \in Turn : AloneIn(turn, u) /\ u \in InFlight => InFlight = {u}
  BY <1>1, ChatFacts
<1>4. ASSUME NEW x \in Stream
      PROVE  /\ tab'[x] \in TabType /\ Same(tab[x], tab'[x])
             /\ StreamOK(tab'[x], turn', InFlight', interrupts')
  <2> DEFINE v == tab[x]
             w == Handling(v, <<f>>)
             flying == InFlight
             s == turn[t]
  <2>1. v \in TabType /\ StreamOK(v, turn, flying, interrupts)
    BY DEF PageInv, PageTypes
  <2>2. CASE v.conn = "live"
    <3>1. tab'[x] = w /\ w = Handled(v, f)
      BY <1>1, <2>2, SeenStream, HandlingOne
    <3>2. Keeps(t, v, w) /\ w.bubble /\ t \in w.text /\ w.told = v.told
      BY <2>1, <3>1, HandledDelta DEF f
    <3>3. OneStep(t, turn, s, turn, flying)
      BY <1>1, <1>3 DEF OneStep
    <3>4. flying # {}
      BY <3>3 DEF OneStep
    <3>5. Tell(v, turn[t], t) => Tell(w, s, t)
      BY <1>1, <3>2 DEF Tell, Looping
    <3> HIDE DEF w, v, flying, s
    <3>6. StreamOK(w, turn, flying, interrupts)
      BY <2>1, <2>2, <3>2, <3>3, <3>4, <3>5, StepHandled
    <3> QED
      BY <1>2, <3>1, <3>2, <3>6 DEF Keeps, flying, v
  <2>3. CASE v.conn # "live"
    <3>1. tab'[x] = tab[x]
      BY <1>1, <2>3, SeenStream
    <3> QED
      BY <1>2, <2>1, <3>1 DEF Same
  <2> QED
    BY <2>2, <2>3
<1>5. PageTypes'
  BY <1>1, <1>4 DEF PageTypes
<1>6. Untyped'
  BY <1>1, <1>2, <1>4, <1>5, UntypedStays DEF PageTypes, Same
<1> QED
  BY <1>2, <1>4, <1>5, <1>6 DEF PageInv

\* A message, or an interrupt, reaches the object: what a stream hears.
Onlooker(v, w) == w.conn = v.conn /\ w.queue = v.queue /\ w.wire = v.wire /\ w.seen = v.seen

\* The echo of a message, on each stream.
LEMMA MessageHeard ==
    ASSUME PageInv, NEW c \in Turn, UserMessage(c), NEW x \in Stream
    PROVE  /\ Seen(x, Echo(c)) \in TabType /\ Onlooker(tab[x], Seen(x, Echo(c)))
           /\ StreamOK(Seen(x, Echo(c)), turn', InFlight', interrupts') /\ InFlight' # {}
<1> DEFINE v == tab[x]
           w == Handling(v, Echo(c))
           more == turn'
           flying == InFlight
           others == InFlight'
<1>1. /\ more[c].phase \in {"booting", "opening"} /\ others # {}
      /\ \A u \in Turn : u # c => more[u] = turn[u]
      /\ turn[c].phase = "idle" /\ interrupts' = interrupts
  BY MessageKeepsChat DEF PageInv
<1>2. turn[c].beside = {}
  BY <1>1 DEF PageInv, ChatInv, TurnInv, TurnOK
<1>3. v \in TabType /\ StreamOK(v, turn, flying, interrupts)
  BY DEF PageInv, PageTypes
<1>4. CASE v.conn = "live"
  <2>1. Seen(x, Echo(c)) = w
    BY <1>4, SeenStream
  <2>2. Onlooker(v, w)
    BY <1>3, EchoHandled DEF Onlooker
  <2>3. StreamOK(w, more, others, interrupts) /\ w \in TabType
    <3> HIDE DEF v, more, flying, others
    <3> QED
      BY <1>1, <1>2, <1>3, <1>4, EchoHeard
  <2> HIDE DEF w
  <2> QED
    BY <1>1, <2>1, <2>2, <2>3
<1>5. CASE v.conn # "live"
  <2>1. Seen(x, Echo(c)) = v
    BY <1>5, SeenStream
  <2>2. \A u \in Turn : more[u].phase = "idle" => turn[u].phase = "idle"
    BY <1>1
  <2>3. StreamOK(v, more, others, interrupts)
    <3> HIDE DEF v, more, flying, others
    <3> QED
      BY <1>3, <1>5, <2>2, DeafStays
  <2> QED
    BY <1>1, <1>3, <2>1, <2>3 DEF Onlooker
<1> QED
  BY <1>4, <1>5

\* The answer to an interrupt, on each stream.
LEMMA InterruptHeard ==
    ASSUME PageInv, Interrupt, NEW x \in Stream
    PROVE  LET w == Seen(x, <<Frame("halted", Null)>>)
           IN  /\ w \in TabType /\ Onlooker(tab[x], w) /\ (tab[x].conn = "live" => ~w.busy)
               /\ StreamOK(w, turn', InFlight', interrupts')
<1> DEFINE v == tab[x]
           w == Handling(v, <<Frame("halted", Null)>>)
           more == turn'
           flying == InFlight
           others == InFlight'
           m == interrupts'
<1>1. m > 0 /\ \A u \in Turn : more[u].phase = turn[u].phase
  BY InterruptKeepsChat DEF PageInv
<1>2. m # 0
  BY <1>1
<1>3. v \in TabType /\ StreamOK(v, turn, flying, interrupts)
  BY DEF PageInv, PageTypes
<1>4. CASE v.conn = "live"
  <2>1. Seen(x, <<Frame("halted", Null)>>) = w
    BY <1>4, SeenStream
  <2>3. StreamOK(w, more, others, m) /\ w \in TabType /\ Same(v, w) /\ ~w.busy
    <3> HIDE DEF v, more, flying, others, m
    <3> QED
      BY <1>1, <1>2, <1>3, <1>4, HaltHeard
  <2> HIDE DEF w
  <2> QED
    BY <2>1, <2>3 DEF Onlooker, Same
<1>5. CASE v.conn # "live"
  <2>1. Seen(x, <<Frame("halted", Null)>>) = v
    BY <1>5, SeenStream
  <2>2. \A u \in Turn : more[u].phase = "idle" => turn[u].phase = "idle"
    BY <1>1
  <2>3. StreamOK(v, more, others, m)
    <3> HIDE DEF v, more, flying, others, m
    <3> QED
      BY <1>2, <1>3, <1>5, <2>2, DeafStays
  <2> QED
    BY <1>3, <1>5, <2>1, <2>3 DEF Onlooker
<1> QED
  BY <1>4, <1>5

\* A command of a page arrives.
LEMMA DeliversKeeps ==
    ASSUME PageInv, NEW x \in Stream, Delivers(x)
    PROVE  PageInv'
<1> DEFINE c == Head(tab[x].wire)
           fs == IF c = Null THEN <<Frame("halted", Null)>> ELSE Echo(c)
<1>1. /\ ChatInv /\ PageTypes /\ Untyped /\ tab[x].wire # <<>>
      /\ UNCHANGED <<guests, patient, cuts, page>>
      /\ IF c = Null THEN Interrupt ELSE UserMessage(c)
      /\ tab' = [y \in Stream |-> LET v == Seen(y, fs)
                                  IN  IF y = x THEN [v EXCEPT !.wire = Tail(@)] ELSE v]
  BY DEF PageInv, Delivers
<1>2. tab[x] \in TabType /\ tab[x].wire \in Seq(Command) /\ tab[x].conn = "live"
  BY <1>1 DEF PageInv, PageTypes, TabType, StreamOK, CanWait
<1>3. c \in Range(tab[x].wire) /\ c \in Command
  <2> HIDE DEF Command
  <2> QED
    BY <1>1, <1>2, RangeTail
<1> HIDE DEF c
<1>4. /\ ChatInv'
      /\ \A u \in Turn : turn[u].phase = "idle" /\ (\E p \in Page : u \in page[p].todo)
                           => turn'[u].phase = "idle"
      /\ \A y \in Stream : /\ Seen(y, fs) \in TabType /\ Onlooker(tab[y], Seen(y, fs))
                           /\ StreamOK(Seen(y, fs), turn', InFlight', interrupts')
      /\ InFlight' # {} \/ ~Seen(x, fs).busy
  <2>1. CASE c = Null
    <3>1. Interrupt /\ fs = <<Frame("halted", Null)>>
      BY <2>1, <1>1
    <3> HIDE DEF fs
    <3> QED
      BY <3>1, <1>1, <1>2, InterruptKeepsChat, InterruptHeard
  <2>2. CASE c # Null
    <3>1. UserMessage(c) /\ fs = Echo(c) /\ c \in Turn
      BY <2>2, <1>1, <1>3 DEF Command
    <3> HIDE DEF fs
    <3>2. \A p \in Page : c \notin page[p].todo
      BY <1>1, <1>3, <3>1 DEF Untyped, Elsewhere
    <3> QED
      BY <3>1, <3>2, <1>1, MessageKeepsChat, MessageHeard
  <2> QED
    BY <2>1, <2>2
<1> HIDE DEF fs
<1>5. ASSUME NEW y \in Stream
      PROVE  /\ tab'[y] \in TabType /\ StreamOK(tab'[y], turn', InFlight', interrupts')
             /\ Range(tab'[y].wire) \subseteq Range(tab[y].wire)
             /\ tab'[y].queue = tab[y].queue /\ tab'[y].seen = tab[y].seen
  <2> DEFINE v == Seen(y, fs)
             w == [v EXCEPT !.wire = Tail(@)]
             more == turn'
             others == InFlight'
             m == interrupts'
  <2>1. v \in TabType /\ Onlooker(tab[y], v) /\ StreamOK(v, more, others, m)
    BY <1>4
  <2>2. CASE y = x
    <3>1. tab'[y] = w
      BY <1>1, <2>2
    <3>2. v.conn = "live" /\ v.wire # <<>> /\ (others # {} \/ ~v.busy)
      BY <1>1, <1>2, <1>4, <2>1, <2>2 DEF Onlooker
    <3> HIDE DEF v, more, others, m
    <3>3. /\ StreamOK(w, more, others, m) /\ w \in TabType
          /\ w.queue = v.queue /\ w.seen = v.seen /\ Range(w.wire) \subseteq Range(v.wire)
      BY <2>1, <3>2, WireAdvances
    <3> HIDE DEF w
    <3> QED
      BY <2>1, <3>1, <3>3 DEF Onlooker, more, others, m
  <2>3. CASE y # x
    <3>1. tab'[y] = v
      BY <1>1, <2>3
    <3> QED
      BY <2>1, <3>1 DEF Onlooker
  <2> QED
    BY <2>2, <2>3
<1>6. PageTypes'
  BY <1>1, <1>5 DEF PageTypes
<1>7. Untyped'
  BY <1>1, <1>4, <1>5, <1>6, UntypedStays DEF PageTypes
<1> QED
  BY <1>4, <1>5, <1>6, <1>7 DEF PageInv

\* A client that is not followed sends its message.
LEMMA GuestKeeps ==
    ASSUME PageInv, GuestSends
    PROVE  PageInv'
<1>1. ChatInv /\ PageTypes /\ Untyped /\ UNCHANGED <<guests, patient, cuts, page>>
  BY DEF PageInv, GuestSends
<1>2. \E fs : /\ tab' = [x \in Stream |-> Seen(x, fs)]
              /\ ChatInv'
              /\ \A u \in Turn : turn[u].phase = "idle" /\ (\E p \in Page : u \in page[p].todo)
                                   => turn'[u].phase = "idle"
              /\ \A y \in Stream : /\ Seen(y, fs) \in TabType /\ Onlooker(tab[y], Seen(y, fs))
                                   /\ StreamOK(Seen(y, fs), turn', InFlight', interrupts')
  <2>1. CASE Interrupt /\ tab' = [x \in Stream |-> Seen(x, <<Frame("halted", Null)>>)]
    BY <2>1, <1>1, InterruptKeepsChat, InterruptHeard
  <2>2. CASE \E i \in DOMAIN guests : /\ UserMessage(guests[i])
                                      /\ tab' = [x \in Stream |-> Seen(x, Echo(guests[i]))]
    <3>1. PICK i \in DOMAIN guests : /\ UserMessage(guests[i])
                                     /\ tab' = [x \in Stream |-> Seen(x, Echo(guests[i]))]
      BY <2>2
    <3> DEFINE c == guests[i]
    <3>2. c \in Turn /\ c \in Range(guests)
      BY <1>1 DEF PageTypes, Range
    <3>3. UserMessage(c) /\ tab' = [x \in Stream |-> Seen(x, Echo(c))]
      BY <3>1
    <3> HIDE DEF c
    <3>4. \A p \in Page : c \notin page[p].todo
      BY <1>1, <3>2 DEF Untyped
    <3> QED
      BY <3>2, <3>3, <3>4, <1>1, MessageKeepsChat, MessageHeard
  <2> QED
    BY <2>1, <2>2 DEF GuestSends
<1>3. PICK fs : /\ tab' = [x \in Stream |-> Seen(x, fs)]
                /\ ChatInv'
                /\ \A u \in Turn : turn[u].phase = "idle" /\ (\E p \in Page : u \in page[p].todo)
                                     => turn'[u].phase = "idle"
                /\ \A y \in Stream : /\ Seen(y, fs) \in TabType /\ Onlooker(tab[y], Seen(y, fs))
                                     /\ StreamOK(Seen(y, fs), turn', InFlight', interrupts')
  BY <1>2
<1>4. ASSUME NEW y \in Stream
      PROVE  /\ tab'[y] \in TabType /\ StreamOK(tab'[y], turn', InFlight', interrupts')
             /\ Onlooker(tab[y], tab'[y])
  BY <1>3
<1>5. PageTypes'
  BY <1>1, <1>3, <1>4 DEF PageTypes
<1>6. Untyped'
  BY <1>1, <1>3, <1>4, <1>5, UntypedStays DEF PageTypes, Onlooker
<1> QED
  BY <1>3, <1>4, <1>5, <1>6 DEF PageInv

\* Hibernation says nothing to the pages.
LEMMA SleepsKeeps ==
    ASSUME PageInv, Sleeps
    PROVE  PageInv'
<1>1. UNCHANGED <<turn, complete, interrupts, guests, patient, cuts, page, tab>> /\ Hibernate
  BY DEF Sleeps, Hibernate, intrVars, pageVars
<1>2. ChatInv'
  BY <1>1, SleepKeepsChat DEF PageInv
<1>3. InFlight' = InFlight
  BY <1>1 DEF InFlight
<1>4. PageTypes' /\ Untyped'
  BY <1>1 DEF PageInv, PageTypes, Untyped, At
<1> QED
  BY <1>1, <1>2, <1>3, <1>4 DEF PageInv
-----------------------------------------------------------------------------
(***************************************************************************)
(* The steps of a page.                                                    *)
(***************************************************************************)

\* One stream changes, and what it has to send is not to be typed any more.
LEMMA TabKeeps ==
    ASSUME PageInv, UNCHANGED vars, UNCHANGED <<guests, patient>>, cuts' \in Nat,
           page' \in [Page -> [chat : Stream \cup {Null}, todo : SUBSET Turn]],
           \A p \in Page : page'[p].todo \subseteq page[p].todo,
           NEW x \in Stream, NEW w \in TabType, tab' = [tab EXCEPT ![x] = w],
           StreamOK(w, turn, InFlight, interrupts),
           \A p \in Page : \A t \in page'[p].todo : Elsewhere(t, tab[x]) => Elsewhere(t, w)
    PROVE  PageInv'
<1>1. ChatInv' /\ turn' = turn /\ interrupts' = interrupts /\ InFlight' = InFlight
  BY ChatStays DEF PageInv, vars, InFlight
<1>2. tab \in [Stream -> TabType] /\ tab' \in [Stream -> TabType]
  BY DEF PageInv, PageTypes
<1>3. tab'[x] = w /\ \A y \in Stream : y # x => tab'[y] = tab[y]
  BY <1>2
<1>4. PageTypes'
  BY <1>2 DEF PageInv, PageTypes
<1>5. Untyped'
  <2>1. \A p, q \in Page : p # q => page'[p].todo \cap page'[q].todo = {}
    BY DEF PageInv, Untyped
  <2>2. ASSUME NEW p \in Page, NEW t \in page'[p].todo
        PROVE  /\ turn'[t].phase = "idle" /\ t \notin Range(guests')
               /\ \A y \in Stream : Elsewhere(t, tab'[y])
    <3>1. /\ turn[t].phase = "idle" /\ t \notin Range(guests)
          /\ \A y \in Stream : Elsewhere(t, tab[y])
      BY DEF PageInv, Untyped, At
    <3> QED
      BY <3>1, <1>1, <1>3
  <2> QED
    BY <2>1, <2>2 DEF Untyped, At
<1>6. \A y \in Stream : StreamOK(tab'[y], turn', InFlight', interrupts')
  BY <1>1, <1>3 DEF PageInv
<1> QED
  BY <1>1, <1>4, <1>5, <1>6 DEF PageInv

\* A stream with another state of its socket and other commands waiting.
Rewired(v, k, q, a) == [v EXCEPT !.conn = k, !.queue = q, !.wire = a]

\* The same stream, with other commands to send and another socket.
LEMMA CommandsMove ==
    ASSUME NEW v \in TabType, NEW turns, NEW flying, NEW n, StreamOK(v, turns, flying, n),
           NEW k \in {"opening", "live", "down"}, NEW q \in Seq(Command), NEW a \in Seq(Command),
           a # <<>> => k = "live",
           v.conn = "live" => k = "live",
           v.busy /\ ~v.lossy => flying # {} \/ a # <<>> \/ q # <<>>,
           v.busy /\ ~v.lossy /\ k # "live" => q # <<>>
    PROVE  LET w == Rewired(v, k, q, a)
           IN  /\ StreamOK(w, turns, flying, n) /\ w \in TabType
               /\ w.seen = v.seen /\ w.queue = q /\ w.wire = a
<1> DEFINE w == Rewired(v, k, q, a)
<1>1. w \in TabType
  BY DEF TabType, Rewired
<1>2. /\ w.conn = k /\ w.queue = q /\ w.wire = a /\ w.seen = v.seen /\ w.heard = v.heard
      /\ w.text = v.text /\ w.told = v.told /\ w.said = v.said
  BY DEF TabType, Rewired
<1>3. /\ (w.bubble <=> v.bubble) /\ (w.mixed <=> v.mixed)
      /\ (w.busy <=> v.busy) /\ (w.lossy <=> v.lossy)
  BY DEF TabType, Rewired
<1> HIDE DEF w
<1>4. CanWait(w) /\ Composer(w, flying)
  BY <1>2, <1>3 DEF CanWait, Composer
<1>5. Replies(w, turns, n)
  BY <1>2, <1>3 DEF StreamOK, Replies, Tell
<1>6. \A t \in Turn : Said(w, t, turns[t]) /\ Unheard(w, t, turns[t])
  BY <1>2 DEF StreamOK, Said, Unheard
<1>7. StreamOK(w, turns, flying, n)
  BY <1>4, <1>5, <1>6 DEF StreamOK
<1> QED
  BY <1>1, <1>2, <1>7 DEF w

\* A socket opens, its loss is noticed, or its stream tries again: what was
\* shown stays.
LEMMA SocketKeeps ==
    ASSUME PageInv, NEW x \in Stream, SocketOpens(x) \/ Notices(x) \/ Retries(x)
    PROVE  PageInv'
<1> DEFINE v == tab[x]
<1>1. /\ UNCHANGED vars /\ UNCHANGED <<guests, patient, cuts, page>>
      /\ v \in TabType /\ StreamOK(v, turn, InFlight, interrupts)
      /\ PageTypes
  BY DEF PageInv, PageTypes, SocketOpens, Notices, Retries
<1>2. \E k \in {"opening", "live", "down"}, q \in Seq(Command), a \in Seq(Command) :
         /\ tab' = [tab EXCEPT ![x] = Rewired(v, k, q, a)]
         /\ a # <<>> => k = "live"
         /\ v.conn # "live"
         /\ v.busy /\ ~v.lossy => a # <<>> \/ q # <<>>
         /\ v.busy /\ ~v.lossy /\ k # "live" => q # <<>>
         /\ Range(a) \cup Range(q) \subseteq Range(v.wire) \cup Range(v.queue)
  <2>1. /\ v.queue \in Seq(Command) /\ v.wire \in Seq(Command) /\ CanWait(v)
    BY <1>1 DEF TabType, StreamOK
  <2>2. CASE SocketOpens(x)
    <3>1. /\ v.conn = "opening"
          /\ tab' = [tab EXCEPT ![x] = Rewired(v, "live", <<>>, v.queue)]
      <4>1. Rewired(v, "live", <<>>, v.queue)
              = [v EXCEPT !.conn = "live", !.wire = v.queue, !.queue = <<>>]
        BY <1>1 DEF TabType, Rewired
      <4> QED
        BY <2>2, <4>1 DEF SocketOpens, SetsTab
    <3>2. <<>> \in Seq(Command) /\ Range(<<>>) = {}
      BY RangeEmpty
    <3> QED
      BY <2>1, <3>1, <3>2 DEF CanWait
  <2>3. CASE Notices(x) \/ Retries(x)
    <3>1. PICK k \in {"opening", "down"} : /\ tab' = [tab EXCEPT ![x] = [v EXCEPT !.conn = k]]
                                           /\ v.conn # "live"
      BY <2>3 DEF Notices, Retries, SetsTab
    <3>2. [v EXCEPT !.conn = k] = Rewired(v, k, v.queue, v.wire)
      BY <1>1 DEF TabType, Rewired
    <3>3. v.wire = <<>> /\ (v.busy /\ ~v.lossy => v.queue # <<>>)
      BY <2>1, <3>1 DEF CanWait
    <3> QED
      BY <2>1, <3>1, <3>2, <3>3
  <2> QED
    BY <2>2, <2>3
<1>3. PICK k \in {"opening", "live", "down"}, q \in Seq(Command), a \in Seq(Command) :
         /\ tab' = [tab EXCEPT ![x] = Rewired(v, k, q, a)]
         /\ a # <<>> => k = "live"
         /\ v.conn # "live"
         /\ v.busy /\ ~v.lossy => a # <<>> \/ q # <<>>
         /\ v.busy /\ ~v.lossy /\ k # "live" => q # <<>>
         /\ Range(a) \cup Range(q) \subseteq Range(v.wire) \cup Range(v.queue)
  BY <1>2
<1> DEFINE w == Rewired(v, k, q, a)
           flying == InFlight
<1>4. tab' = [tab EXCEPT ![x] = w]
  BY <1>3
<1>5. /\ StreamOK(w, turn, flying, interrupts) /\ w \in TabType
      /\ w.seen = v.seen /\ w.queue = q /\ w.wire = a
  <2> HIDE DEF v, flying
  <2> QED
    BY <1>1, <1>3, CommandsMove DEF flying
<1> HIDE DEF w
<1>6. \A t : Elsewhere(t, v) => Elsewhere(t, w)
  BY <1>3, <1>5 DEF Elsewhere
<1>7. page' = page /\ page \in [Page -> [chat : Stream \cup {Null}, todo : SUBSET Turn]]
      /\ cuts' \in Nat
  BY <1>1 DEF PageTypes
<1> QED
  BY <1>1, <1>4, <1>5, <1>6, <1>7, TabKeeps

\* A chat that is shown.
LEMMA ChatMountsKeeps ==
    ASSUME PageInv, NEW p \in Page, NEW x \in Stream, Mounts(p, x)
    PROVE  PageInv'
<1> DEFINE v == tab[x]
<1>1. /\ UNCHANGED vars /\ UNCHANGED <<guests, patient, cuts>>
      /\ v \in TabType /\ StreamOK(v, turn, InFlight, interrupts)
      /\ PageTypes /\ v.conn = "none"
      /\ page' = [page EXCEPT ![p].chat = x] /\ tab' = [tab EXCEPT ![x].conn = "opening"]
  BY DEF PageInv, PageTypes, Mounts
<1>2. v.queue \in Seq(Command) /\ v.wire \in Seq(Command) /\ v.wire = <<>>
      /\ (v.busy /\ ~v.lossy => v.queue # <<>>)
  BY <1>1 DEF TabType, StreamOK, CanWait
<1> DEFINE q == v.queue
           a == v.wire
           k == "opening"
           w == Rewired(v, k, q, a)
           flying == InFlight
<1>3. w = [v EXCEPT !.conn = "opening"]
  BY <1>1 DEF TabType, Rewired
<1>4. tab' = [tab EXCEPT ![x] = w]
  BY <1>1, <1>3
<1>5. /\ StreamOK(w, turn, flying, interrupts) /\ w \in TabType
      /\ w.seen = v.seen /\ w.queue = q /\ w.wire = a
  <2>1. k \in {"opening", "live", "down"} /\ q \in Seq(Command) /\ a \in Seq(Command)
        /\ (a # <<>> => k = "live") /\ (v.conn = "live" => k = "live")
        /\ (v.busy /\ ~v.lossy => flying # {} \/ a # <<>> \/ q # <<>>)
        /\ (v.busy /\ ~v.lossy /\ k # "live" => q # <<>>)
    BY <1>1, <1>2
  <2> HIDE DEF v, flying, q, a, k
  <2> QED
    BY <1>1, <2>1, CommandsMove DEF flying
<1> HIDE DEF w
<1>6. \A t : Elsewhere(t, v) => Elsewhere(t, w)
  BY <1>5 DEF Elsewhere
<1>7. /\ page' \in [Page -> [chat : Stream \cup {Null}, todo : SUBSET Turn]]
      /\ \A r \in Page : page'[r].todo = page[r].todo
  BY <1>1 DEF PageTypes
<1>8. cuts' \in Nat
  BY <1>1 DEF PageTypes
<1> QED
  BY <1>1, <1>4, <1>5, <1>6, <1>7, <1>8, TabKeeps

\* A socket that is lost, or cannot be opened.
LEMMA CutKeeps ==
    ASSUME PageInv, NEW x \in Stream, Cut(x)
    PROVE  PageInv'
<1> DEFINE v == tab[x]
<1>1. /\ UNCHANGED vars /\ UNCHANGED <<guests, patient, page>>
      /\ v \in TabType /\ StreamOK(v, turn, InFlight, interrupts)
      /\ PageTypes /\ cuts > 0 /\ cuts' = cuts - 1 /\ v.conn \in {"opening", "live"}
  BY DEF PageInv, PageTypes, Cut
<1>2. cuts' \in Nat /\ page' \in [Page -> [chat : Stream \cup {Null}, todo : SUBSET Turn]]
      /\ page' = page
  BY <1>1 DEF PageTypes
<1> DEFINE flying == InFlight
<1>3. \E w \in TabType : /\ tab' = [tab EXCEPT ![x] = w]
                         /\ StreamOK(w, turn, flying, interrupts)
                         /\ \A t : Elsewhere(t, v) => Elsewhere(t, w)
  <2>1. CASE v.conn = "opening"
    <3>1. v.queue \in Seq(Command) /\ v.wire \in Seq(Command) /\ v.wire = <<>>
          /\ (v.busy /\ ~v.lossy => v.queue # <<>>)
      BY <2>1, <1>1 DEF TabType, StreamOK, CanWait
    <3> DEFINE q == v.queue
               a == v.wire
               k == "down"
               w == Rewired(v, k, q, a)
    <3>2. w = [v EXCEPT !.conn = "down"]
      BY <1>1 DEF TabType, Rewired
    <3>3. tab' = [tab EXCEPT ![x] = w]
      BY <2>1, <3>2 DEF Cut, SetsTab
    <3>4. /\ StreamOK(w, turn, flying, interrupts) /\ w \in TabType
          /\ w.seen = v.seen /\ w.queue = q /\ w.wire = a
      <4>1. k \in {"opening", "live", "down"} /\ q \in Seq(Command) /\ a \in Seq(Command)
            /\ (a # <<>> => k = "live") /\ (v.conn = "live" => k = "live")
            /\ (v.busy /\ ~v.lossy => flying # {} \/ a # <<>> \/ q # <<>>)
            /\ (v.busy /\ ~v.lossy /\ k # "live" => q # <<>>)
        BY <2>1, <3>1
      <4> HIDE DEF v, flying, q, a, k
      <4> QED
        BY <1>1, <4>1, CommandsMove DEF flying
    <3> HIDE DEF w
    <3>5. \A t : Elsewhere(t, v) => Elsewhere(t, w)
      BY <3>4 DEF Elsewhere
    <3> QED
      BY <3>3, <3>4, <3>5
  <2>2. CASE v.conn = "live"
    <3> DEFINE l == v.lossy \/ v.busy \/ v.wire # <<>>
               b == IF l THEN TRUE ELSE FALSE
               w == [v EXCEPT !.conn = "dead", !.wire = <<>>, !.heard = {}, !.mixed = FALSE,
                              !.lossy = b]
    <3>1. b \in BOOLEAN /\ (b <=> l) /\ b = l
      <4>1. v.lossy \in BOOLEAN /\ v.busy \in BOOLEAN
        BY <1>1 DEF TabType
      <4> QED
        BY <4>1
    <3>2. tab' = [tab EXCEPT ![x] = w]
      <4>1. tab' = [tab EXCEPT ![x] = [v EXCEPT !.conn = "dead", !.wire = <<>>, !.heard = {},
                                                 !.mixed = FALSE, !.lossy = l]]
        BY <2>2 DEF Cut, SetsTab
      <4> HIDE DEF b, l
      <4> QED
        BY <4>1, <3>1
    <3>3. b \in BOOLEAN /\ (v.busy => b)
      BY <3>1
    <3> HIDE DEF b, l
    <3>4. w \in TabType
      <4>1. <<>> \in Seq(Command) /\ {} \in SUBSET Turn
        OBVIOUS
      <4> QED
        BY <1>1, <3>3, <4>1 DEF TabType
    <3>5. /\ w.conn = "dead" /\ w.wire = <<>> /\ w.heard = {} /\ w.queue = v.queue
          /\ w.seen = v.seen /\ w.text = v.text /\ w.told = v.told /\ w.said = v.said
      BY <1>1 DEF TabType
    <3>6. ~w.mixed /\ (w.busy <=> v.busy) /\ (w.lossy <=> b)
      BY <1>1, <3>3 DEF TabType
    <3> HIDE DEF w
    <3>7. CanWait(w) /\ Composer(w, flying) /\ Replies(w, turn, interrupts)
      BY <3>3, <3>5, <3>6 DEF CanWait, Composer, Replies
    <3>8. \A t \in Turn : Said(w, t, turn[t]) /\ Unheard(w, t, turn[t])
      BY <1>1, <3>5 DEF StreamOK, Said, Unheard
    <3>9. \A t : Elsewhere(t, v) => Elsewhere(t, w)
      BY <3>5, RangeEmpty DEF Elsewhere
    <3> QED
      BY <3>2, <3>4, <3>7, <3>8, <3>9 DEF StreamOK
  <2> QED
    BY <1>1, <2>1, <2>2
<1>4. PICK w \in TabType : /\ tab' = [tab EXCEPT ![x] = w]
                           /\ StreamOK(w, turn, flying, interrupts)
                           /\ \A t : Elsewhere(t, v) => Elsewhere(t, w)
  BY <1>3
<1> QED
  BY <1>1, <1>2, <1>4, TabKeeps

\* The stream where message t was typed.
Typed(v, t) == [Busy(Says(v, t), TRUE) EXCEPT !.seen = @ \cup {t}]

\* To type a message shows it and makes the composer busy.
LEMMA TypedMarks ==
    ASSUME NEW v \in TabType, NEW t \in Turn, v.said[t] = 0
    PROVE  LET w == Typed(v, t)
           IN  /\ w \in TabType /\ w.busy /\ (w.lossy <=> v.lossy)
               /\ w.conn = v.conn /\ w.queue = v.queue /\ w.wire = v.wire
               /\ w.heard = v.heard /\ w.text = v.text /\ w.told = v.told
               /\ (w.bubble <=> v.bubble) /\ (w.mixed <=> v.mixed)
               /\ w.seen = v.seen \cup {t}
               /\ \A u \in Turn : w.said[u] = IF u = t THEN 1 ELSE v.said[u]
<1> DEFINE n == [v.said EXCEPT ![t] = Once(@)]
           y == [v EXCEPT !.said = n]
           z == Busy(y, TRUE)
           w == Typed(v, t)
<1>1. n \in [Turn -> 0 .. 2] /\ \A u \in Turn : n[u] = IF u = t THEN 1 ELSE v.said[u]
  BY DEF TabType, Once
<1>2. Says(v, t) = y
  BY DEF Says, TabType
<1> HIDE DEF n
<1>3. y \in TabType /\ y.said = n
  BY <1>1 DEF TabType
<1>4. /\ y.conn = v.conn /\ y.queue = v.queue /\ y.wire = v.wire /\ y.seen = v.seen
      /\ y.heard = v.heard /\ y.text = v.text /\ y.told = v.told
  BY DEF TabType
<1>5. /\ (y.bubble <=> v.bubble) /\ (y.mixed <=> v.mixed) /\ (y.lossy <=> v.lossy)
  BY DEF TabType
<1>6. w = [z EXCEPT !.seen = @ \cup {t}]
  BY <1>2 DEF Typed
<1> HIDE DEF y, w
<1>7. z \in TabType
  BY <1>3 DEF Busy, TabType
<1>8. /\ z.conn = y.conn /\ z.queue = y.queue /\ z.wire = y.wire /\ z.seen = y.seen
      /\ z.heard = y.heard /\ z.text = y.text /\ z.told = y.told /\ z.said = y.said
  BY <1>3 DEF Busy, TabType
<1>9. /\ (z.bubble <=> y.bubble) /\ (z.mixed <=> y.mixed) /\ (z.lossy <=> y.lossy) /\ z.busy
  BY <1>3 DEF Busy, TabType
<1> HIDE DEF z
<1>10. w \in TabType
  BY <1>6, <1>7 DEF TabType
<1>11. /\ w.conn = z.conn /\ w.queue = z.queue /\ w.wire = z.wire /\ w.seen = z.seen \cup {t}
       /\ w.heard = z.heard /\ w.text = z.text /\ w.told = z.told /\ w.said = z.said
  BY <1>6, <1>7 DEF TabType
<1>12. /\ (w.bubble <=> z.bubble) /\ (w.mixed <=> z.mixed) /\ (w.lossy <=> z.lossy)
       /\ (w.busy <=> z.busy)
  BY <1>6, <1>7 DEF TabType
<1>13. \A u \in Turn : w.said[u] = IF u = t THEN 1 ELSE v.said[u]
  BY <1>1, <1>3, <1>8, <1>11
<1> QED
  BY <1>4, <1>5, <1>8, <1>9, <1>10, <1>11, <1>12, <1>13 DEF w

\* A command is on its way, is kept for the next socket, or is lost.
LEMMA SentGoes ==
    ASSUME NEW v \in TabType, NEW c \in Command
    PROVE  LET w == Sent(v, c)
           IN  /\ w \in TabType /\ w.conn = v.conn /\ w.seen = v.seen
               /\ w.heard = v.heard /\ w.text = v.text /\ w.told = v.told /\ w.said = v.said
               /\ (w.bubble <=> v.bubble) /\ (w.mixed <=> v.mixed) /\ (w.busy <=> v.busy)
               /\ v.conn = "live" => /\ w.wire # <<>> /\ w.queue = v.queue
                                     /\ (w.lossy <=> v.lossy)
                                     /\ Range(w.wire) = Range(v.wire) \cup {c}
               /\ v.conn = "dead" => w.lossy /\ w.queue = v.queue /\ w.wire = v.wire
               /\ v.conn \notin {"live", "dead"} =>
                     /\ w.queue # <<>> /\ w.wire = v.wire /\ (w.lossy <=> v.lossy)
                     /\ Range(w.queue) = Range(v.queue) \cup {c}
<1> DEFINE w == Sent(v, c)
<1>1. v.wire \in Seq(Command) /\ v.queue \in Seq(Command)
  BY DEF TabType
<1>2. \A q \in Seq(Command) : /\ Append(q, c) \in Seq(Command) /\ Append(q, c) # <<>>
                              /\ Range(Append(q, c)) = Range(q) \cup {c}
  <2> HIDE DEF Command
  <2>1. ASSUME NEW q \in Seq(Command)
        PROVE  Append(q, c) \in Seq(Command) /\ Append(q, c) # <<>>
    <3>1. /\ Append(q, c) \in Seq(Command) /\ Len(q) \in Nat
          /\ Len(Append(q, c)) = Len(q) + 1
      OBVIOUS
    <3>2. Len(<<>>) = 0
      OBVIOUS
    <3> QED
      BY <3>1, <3>2
  <2> QED
    BY <2>1, RangeAppend
<1> HIDE DEF Command
<1>3. CASE v.conn = "live"
  <2> DEFINE a == Append(v.wire, c)
  <2>1. w = [v EXCEPT !.wire = a]
    BY <1>3 DEF Sent
  <2>2. a \in Seq(Command) /\ a # <<>> /\ Range(a) = Range(v.wire) \cup {c}
    BY <1>1, <1>2
  <2> HIDE DEF a, w
  <2>3. w \in TabType
    BY <2>1, <2>2 DEF TabType
  <2>4. /\ w.conn = v.conn /\ w.seen = v.seen /\ w.heard = v.heard /\ w.text = v.text
        /\ w.told = v.told /\ w.said = v.said /\ w.wire = a /\ w.queue = v.queue
    BY <2>1 DEF TabType
  <2>5. /\ (w.bubble <=> v.bubble) /\ (w.mixed <=> v.mixed) /\ (w.busy <=> v.busy)
        /\ (w.lossy <=> v.lossy)
    BY <2>1 DEF TabType
  <2> QED
    BY <1>3, <2>2, <2>3, <2>4, <2>5 DEF w
<1>4. CASE v.conn = "dead"
  <2>1. w = [v EXCEPT !.lossy = TRUE]
    BY <1>4 DEF Sent
  <2> HIDE DEF w
  <2>3. w \in TabType
    BY <2>1 DEF TabType
  <2>4. /\ w.conn = v.conn /\ w.seen = v.seen /\ w.heard = v.heard /\ w.text = v.text
        /\ w.told = v.told /\ w.said = v.said /\ w.wire = v.wire /\ w.queue = v.queue
    BY <2>1 DEF TabType
  <2>5. /\ (w.bubble <=> v.bubble) /\ (w.mixed <=> v.mixed) /\ (w.busy <=> v.busy) /\ w.lossy
    BY <2>1 DEF TabType
  <2> QED
    BY <1>4, <2>3, <2>4, <2>5 DEF w
<1>5. CASE v.conn \notin {"live", "dead"}
  <2> DEFINE a == Append(v.queue, c)
  <2>1. w = [v EXCEPT !.queue = a]
    BY <1>5 DEF Sent
  <2>2. a \in Seq(Command) /\ a # <<>> /\ Range(a) = Range(v.queue) \cup {c}
    BY <1>1, <1>2
  <2> HIDE DEF a, w
  <2>3. w \in TabType
    BY <2>1, <2>2 DEF TabType
  <2>4. /\ w.conn = v.conn /\ w.seen = v.seen /\ w.heard = v.heard /\ w.text = v.text
        /\ w.told = v.told /\ w.said = v.said /\ w.wire = v.wire /\ w.queue = a
    BY <2>1 DEF TabType
  <2>5. /\ (w.bubble <=> v.bubble) /\ (w.mixed <=> v.mixed) /\ (w.busy <=> v.busy)
        /\ (w.lossy <=> v.lossy)
    BY <2>1 DEF TabType
  <2> QED
    BY <1>5, <2>2, <2>3, <2>4, <2>5 DEF w
<1> QED
  BY <1>3, <1>4, <1>5

\* A page types one of its messages: nobody has shown it before.
LEMMA TypesKeeps ==
    ASSUME PageInv, NEW p \in Page, NEW t \in Turn, Types(p, t)
    PROVE  PageInv'
<1> DEFINE x == page[p].chat
           v == tab[x]
           y == Typed(v, t)
           w == Sent(y, t)
           flying == InFlight
<1>1. /\ UNCHANGED vars /\ UNCHANGED <<guests, patient, cuts>>
      /\ PageTypes /\ x \in Stream /\ t \in page[p].todo
      /\ page' = [page EXCEPT ![p].todo = @ \ {t}]
      /\ tab' = [tab EXCEPT ![x] = w]
  BY DEF PageInv, PageTypes, Types, SetsTab, Typed
<1>2. v \in TabType /\ StreamOK(v, turn, flying, interrupts)
  BY <1>1 DEF PageInv, PageTypes
<1>3. /\ turn[t].phase = "idle" /\ t \notin v.seen
      /\ \A q \in Page : q # p => t \notin page[q].todo
  BY <1>1 DEF PageInv, Untyped, At, Elsewhere
<1>4. v.said[t] = 0 /\ t \notin v.heard
  BY <1>2, <1>3 DEF StreamOK, Said
<1> HIDE DEF x, v
<1>5. /\ y \in TabType /\ y.busy /\ (y.lossy <=> v.lossy)
      /\ y.conn = v.conn /\ y.queue = v.queue /\ y.wire = v.wire
      /\ y.heard = v.heard /\ y.text = v.text /\ y.told = v.told
      /\ (y.bubble <=> v.bubble) /\ (y.mixed <=> v.mixed)
      /\ y.seen = v.seen \cup {t}
      /\ \A u \in Turn : y.said[u] = IF u = t THEN 1 ELSE v.said[u]
  BY <1>2, <1>4, TypedMarks
<1> HIDE DEF y
<1>6. /\ w \in TabType /\ w.conn = y.conn /\ w.seen = y.seen
      /\ w.heard = y.heard /\ w.text = y.text /\ w.told = y.told /\ w.said = y.said
      /\ (w.bubble <=> y.bubble) /\ (w.mixed <=> y.mixed) /\ (w.busy <=> y.busy)
      /\ y.conn = "live" => /\ w.wire # <<>> /\ w.queue = y.queue
                            /\ (w.lossy <=> y.lossy)
                            /\ Range(w.wire) = Range(y.wire) \cup {t}
      /\ y.conn = "dead" => w.lossy /\ w.queue = y.queue /\ w.wire = y.wire
      /\ y.conn \notin {"live", "dead"} =>
            /\ w.queue # <<>> /\ w.wire = y.wire /\ (w.lossy <=> y.lossy)
            /\ Range(w.queue) = Range(y.queue) \cup {t}
  BY <1>5, SentGoes DEF Command
<1> HIDE DEF w
<1>7. StreamOK(w, turn, flying, interrupts)
  <2>1. CanWait(w)
    BY <1>2, <1>5, <1>6 DEF StreamOK, CanWait
  <2>2. Composer(w, flying)
    BY <1>5, <1>6 DEF Composer
  <2>3. Replies(w, turn, interrupts)
    BY <1>2, <1>5, <1>6 DEF StreamOK, Replies, Tell
  <2>4. ASSUME NEW u \in Turn
        PROVE  Said(w, u, turn[u]) /\ Unheard(w, u, turn[u])
    <3>1. Said(v, u, turn[u]) /\ Unheard(v, u, turn[u])
      BY <1>2 DEF StreamOK
    <3>2. /\ w.said[u] = (IF u = t THEN 1 ELSE v.said[u]) /\ w.seen = v.seen \cup {t}
          /\ w.heard = v.heard /\ w.conn = v.conn /\ w.text = v.text /\ w.told = v.told
      BY <1>5, <1>6
    <3> QED
      BY <3>1, <3>2, <1>4 DEF Said, Unheard
  <2> QED
    BY <2>1, <2>2, <2>3, <2>4 DEF StreamOK
<1>8. /\ page' \in [Page -> [chat : Stream \cup {Null}, todo : SUBSET Turn]]
      /\ \A q \in Page : page'[q].todo = IF q = p THEN page[q].todo \ {t} ELSE page[q].todo
  BY <1>1 DEF PageTypes
<1>9. \A q \in Page : \A u \in page'[q].todo : u # t
  BY <1>3, <1>8
<1>10. \A u : u # t /\ Elsewhere(u, v) => Elsewhere(u, w)
  <2>1. Range(w.wire) \cup Range(w.queue) \subseteq Range(v.wire) \cup Range(v.queue) \cup {t}
    BY <1>5, <1>6
  <2> QED
    BY <2>1, <1>5, <1>6 DEF Elsewhere
<1>11. cuts' \in Nat /\ \A q \in Page : page'[q].todo \subseteq page[q].todo
  BY <1>1, <1>8 DEF PageTypes
<1>12. \A q \in Page : \A u \in page'[q].todo : Elsewhere(u, tab[x]) => Elsewhere(u, w)
  BY <1>9, <1>10 DEF v
<1> QED
  BY <1>1, <1>6, <1>7, <1>8, <1>11, <1>12, TabKeeps

\* A page presses stop.
LEMMA StopsKeeps ==
    ASSUME PageInv, NEW p \in Page, Stops(p)
    PROVE  PageInv'
<1> DEFINE x == page[p].chat
           v == tab[x]
           a == Append(v.wire, Null)
           k == v.conn
           q == v.queue
           w == Rewired(v, k, q, a)
           flying == InFlight
<1>1. /\ UNCHANGED vars /\ UNCHANGED <<guests, patient, cuts, page>>
      /\ PageTypes /\ x \in Stream /\ k = "live"
      /\ tab' = [tab EXCEPT ![x] = [v EXCEPT !.wire = a]]
  BY DEF PageInv, PageTypes, Stops, SetsTab
<1>2. v \in TabType /\ StreamOK(v, turn, flying, interrupts)
  BY <1>1 DEF PageInv, PageTypes
<1>3. [v EXCEPT !.wire = a] = w
  BY <1>2 DEF TabType, Rewired
<1>4. q \in Seq(Command) /\ v.wire \in Seq(Command) /\ Null \in Command
  BY <1>2 DEF TabType, Command
<1>5. a \in Seq(Command) /\ a # <<>> /\ Range(a) = Range(v.wire) \cup {Null}
  <2> HIDE DEF Command, v
  <2>1. /\ a \in Seq(Command) /\ Len(v.wire) \in Nat /\ Len(a) = Len(v.wire) + 1
    BY <1>4
  <2>2. Len(<<>>) = 0
    OBVIOUS
  <2>3. Range(a) = Range(v.wire) \cup {Null}
    BY <1>4, RangeAppend
  <2> QED
    BY <2>1, <2>2, <2>3
<1>6. k \in {"opening", "live", "down"} /\ tab' = [tab EXCEPT ![x] = w]
  BY <1>1, <1>3
<1> HIDE DEF x, v, a, k, q
<1>7. /\ StreamOK(w, turn, flying, interrupts) /\ w \in TabType
      /\ w.seen = v.seen /\ w.queue = q /\ w.wire = a
  <2> HIDE DEF flying
  <2> QED
    BY <1>1, <1>2, <1>4, <1>5, <1>6, CommandsMove
<1> HIDE DEF w
<1>8. \A u \in Turn : Elsewhere(u, v) => Elsewhere(u, w)
  <2>1. Null \notin Turn
    BY ChatAssumption
  <2> QED
    BY <1>5, <1>7, <2>1 DEF Elsewhere, q
<1>9. /\ page' \in [Page -> [chat : Stream \cup {Null}, todo : SUBSET Turn]] /\ page' = page
      /\ cuts' \in Nat
  BY <1>1 DEF PageTypes
<1>10. \A r \in Page : \A u \in page'[r].todo : Elsewhere(u, tab[x]) => Elsewhere(u, w)
  BY <1>8, <1>9 DEF v
<1> QED
  BY <1>1, <1>6, <1>7, <1>9, <1>10, TabKeeps

\* The invariant holds at first.
LEMMA PageInitially == ChatInit => PageInv
<1> SUFFICES ASSUME ChatInit
             PROVE  PageInv
  OBVIOUS
<1>1. ChatInv /\ turn = [t \in Turn |-> Fresh]
  BY ChatInitially DEF ChatInit, Init
<1>2. PICK s \in Scenes :
         /\ guests = s.guests /\ patient = s.patient /\ cuts = s.cuts
         /\ page = [p \in Page |-> [chat |-> Null, todo |-> s.todo[p]]]
         /\ tab = [x \in Stream |->
                      IF x \in s.streams THEN NoTab ELSE [NoTab EXCEPT !.conn = "off"]]
  BY DEF ChatInit, PageInit
<1>3. /\ s.guests \in Seq(Turn) /\ s.patient \in BOOLEAN /\ s.cuts \in Nat
      /\ s.todo \in [Page -> SUBSET Turn]
      /\ \A p \in Page : s.todo[p] \cap Range(s.guests) = {}
      /\ \A p, q \in Page : p # q => s.todo[p] \cap s.todo[q] = {}
  BY PageAssumption
<1>4. \A t \in Turn : turn[t].phase = "idle"
  BY <1>1 DEF Fresh
<1>5. ASSUME NEW v, v = NoTab \/ v = [NoTab EXCEPT !.conn = "off"]
      PROVE  /\ v \in TabType /\ v.queue = <<>> /\ v.wire = <<>> /\ v.seen = {} /\ v.heard = {}
             /\ v.text = {} /\ v.said = [t \in Turn |-> 0] /\ v.told = [t \in Turn |-> 0]
             /\ ~v.busy /\ ~v.mixed
  <2>1. <<>> \in Seq(Command) /\ [t \in Turn |-> 0] \in [Turn -> 0 .. 2]
    OBVIOUS
  <2>2. v \in TabType
    <3>1. NoTab \in TabType
      <4> DEFINE zero == [t \in Turn |-> 0]
      <4>1. zero \in [Turn -> 0 .. 2] /\ <<>> \in Seq(Command) /\ {} \in SUBSET Turn
        BY <2>1
      <4>2. NoTab = [conn |-> "none", queue |-> <<>>, wire |-> <<>>, seen |-> {},
                     bubble |-> FALSE, text |-> {}, busy |-> FALSE, lossy |-> FALSE,
                     heard |-> {}, said |-> zero, told |-> zero, mixed |-> FALSE]
        BY DEF NoTab
      <4> HIDE DEF zero
      <4> QED
        BY <4>1, <4>2 DEF TabType
    <3>2. [NoTab EXCEPT !.conn = "off"] \in TabType
      BY <3>1 DEF TabType
    <3> QED
      BY <1>5, <3>1, <3>2
  <2> QED
    BY <1>5, <2>2 DEF NoTab
<1>6. ASSUME NEW x \in Stream
      PROVE  /\ tab[x] \in TabType /\ StreamOK(tab[x], turn, InFlight, interrupts)
             /\ \A t : Elsewhere(t, tab[x])
  <2> DEFINE v == tab[x]
  <2>1. v = NoTab \/ v = [NoTab EXCEPT !.conn = "off"]
    BY <1>2
  <2> HIDE DEF v
  <2>2. /\ v \in TabType /\ v.queue = <<>> /\ v.wire = <<>> /\ v.seen = {} /\ v.heard = {}
        /\ v.text = {} /\ v.said = [t \in Turn |-> 0] /\ v.told = [t \in Turn |-> 0]
        /\ ~v.busy /\ ~v.mixed
    BY <1>5, <2>1
  <2>3. CanWait(v) /\ Composer(v, InFlight) /\ Replies(v, turn, interrupts)
    BY <2>2 DEF CanWait, Composer, Replies
  <2>4. \A t \in Turn : Said(v, t, turn[t]) /\ Unheard(v, t, turn[t])
    BY <2>2 DEF Said, Unheard
  <2>5. \A t : Elsewhere(t, v)
    BY <2>2, RangeEmpty DEF Elsewhere
  <2> QED
    BY <2>2, <2>3, <2>4, <2>5 DEF StreamOK, v
<1>7. PageTypes
  <2>1. tab \in [Stream -> TabType]
    <3>1. tab = [x \in Stream |-> tab[x]]
      BY <1>2
    <3> QED
      BY <1>6, <3>1
  <2>2. page \in [Page -> [chat : Stream \cup {Null}, todo : SUBSET Turn]]
    BY <1>2, <1>3
  <2> QED
    BY <1>2, <1>3, <2>1, <2>2 DEF PageTypes
<1>8. Untyped
  <2>1. \A p \in Page : page[p].todo = s.todo[p] /\ s.todo[p] \subseteq Turn
    BY <1>2, <1>3
  <2> QED
    BY <1>2, <1>3, <1>4, <1>6, <2>1 DEF Untyped, At
<1> QED
  BY <1>1, <1>6, <1>7, <1>8 DEF PageInv

\* A turn that was told to stop makes no further call.
KeepsQuiet == \A t \in Turn : Interrupted(t) /\ turn'[t].phase = "calling" => turn[t].phase = "calling"

\* Each step of the object and the pages keeps it.
LEMMA PageNextKeeps ==
    ASSUME PageInv, PageNext
    PROVE  PageInv' /\ KeepsQuiet
<1>0. told \subseteq Turn
  BY DEF PageInv, ChatInv, TurnInv, TypeOK
<1>1. ASSUME NEW t \in Turn, Goes(t) PROVE PageInv' /\ KeepsQuiet
  BY <1>1, GoesKeeps DEF KeepsQuiet
<1>2. ASSUME NEW t \in Turn, Delta(t) PROVE PageInv' /\ KeepsQuiet
  <2>1. turn' = turn
    BY <1>2 DEF Delta, vars
  <2> QED
    BY <1>2, <2>1, DeltaKeeps DEF KeepsQuiet
<1>3. ASSUME NEW c \in Turn, UserMessage(c) PROVE KeepsQuiet
  <2>1. turn'[c].phase \in {"booting", "opening"} /\ \A u \in Turn : u # c => turn'[u] = turn[u]
    BY <1>3, MessageKeepsChat DEF PageInv
  <2> QED
    BY <2>1, <1>0 DEF KeepsQuiet
<1>4. ASSUME Interrupt PROVE KeepsQuiet
  BY <1>0, <1>4, InterruptKeepsChat DEF KeepsQuiet, PageInv
<1>5. ASSUME GuestSends PROVE PageInv' /\ KeepsQuiet
  <2>1. Interrupt \/ \E c \in Turn : UserMessage(c)
    BY <1>5 DEF GuestSends, PageInv, PageTypes
  <2> QED
    BY <1>3, <1>4, <1>5, <2>1, GuestKeeps
<1>6. ASSUME Sleeps PROVE PageInv' /\ KeepsQuiet
  <2>1. turn' = turn
    BY <1>6 DEF Sleeps, Hibernate
  <2> QED
    BY <1>6, <2>1, SleepsKeeps DEF KeepsQuiet
<1>7. ASSUME NEW x \in Stream, Delivers(x) PROVE PageInv' /\ KeepsQuiet
  <2>1. tab[x].wire \in Seq(Command) /\ tab[x].wire # <<>>
    BY <1>7 DEF Delivers, PageInv, PageTypes, TabType
  <2>2. Head(tab[x].wire) \in Command
    <3> HIDE DEF Command
    <3> QED
      BY <2>1, RangeTail
  <2>3. Interrupt \/ \E c \in Turn : UserMessage(c)
    BY <1>7, <2>2 DEF Delivers, Command
  <2> QED
    BY <1>3, <1>4, <1>7, <2>3, DeliversKeeps
<1>8. ASSUME UNCHANGED vars PROVE KeepsQuiet
  BY <1>8 DEF KeepsQuiet, vars
<1>9. ASSUME NEW x \in Stream, SocketOpens(x) \/ Cut(x) \/ Notices(x) \/ Retries(x)
      PROVE  PageInv' /\ KeepsQuiet
  <2>1. UNCHANGED vars
    BY <1>9 DEF SocketOpens, Cut, Notices, Retries
  <2> QED
    BY <1>8, <1>9, <2>1, SocketKeeps, CutKeeps
<1>10. ASSUME NEW p \in Page,
              \/ Stops(p)
              \/ \E x \in Stream : Mounts(p, x)
              \/ \E t \in Turn : Types(p, t)
       PROVE  PageInv' /\ KeepsQuiet
  <2>1. UNCHANGED vars
    BY <1>10 DEF Stops, Mounts, Types
  <2> QED
    BY <1>8, <1>10, <2>1, StopsKeeps, ChatMountsKeeps, TypesKeeps
<1> QED
  BY <1>1, <1>2, <1>5, <1>6, <1>7, <1>9, <1>10 DEF PageNext

\* The invariant depends on the variables of the chat only.
LEMMA PageStays ==
    ASSUME PageInv, UNCHANGED allVars
    PROVE  PageInv' /\ KeepsQuiet
<1>1. UNCHANGED vars /\ UNCHANGED <<guests, patient, cuts, page, tab>>
  BY DEF allVars, pageVars
<1>2. ChatInv' /\ turn' = turn /\ interrupts' = interrupts /\ InFlight' = InFlight
  BY <1>1, ChatStays DEF vars, PageInv, InFlight
<1>3. PageTypes' /\ Untyped'
  BY <1>1, <1>2 DEF PageInv, PageTypes, Untyped, At
<1> QED
  BY <1>1, <1>2, <1>3 DEF PageInv, KeepsQuiet

\* A step of the other view keeps it.
LEMMA AppSteps ==
    ASSUME PageInv, [AppNext]_appVars
    PROVE  PageInv' /\ KeepsQuiet
<1>1. CASE PageNext
  BY <1>1, PageNextKeeps
<1>2. CASE UNCHANGED allVars
  BY <1>2, PageStays
<1> QED
  BY <1>1, <1>2 DEF AppNext, appVars

\* It is an invariant of the two views.
LEMMA PageAlways == AppSpec => []PageInv
<1>1. AppInit => PageInv
  BY PageInitially DEF AppInit
<1>2. PageInv /\ [AppNext]_appVars => PageInv'
  BY AppSteps
<1> QED
  BY <1>1, <1>2, PTL DEF AppSpec

\* A turn that begins after the complete frame of another one is shown all that
\* one will have in the transcript, or nothing when the transcript's answer
\* cannot be read (handleUserMessage, chatSession.ts), for any turns, pages and
\* interrupts.
THEOREM HistoriesComplete == AppSpec => []HistoryIsComplete
<1>1. PageInv => HistoryIsComplete
  BY DEF PageInv, ChatInv
<1> QED
  BY <1>1, PageAlways, PTL

\* A turn of the tool loop that was given the signal of an aborted controller
\* makes no further call of the model, whoever made the controller and however
\* turns overlap; nor does one that is told while it waits for the bootstrap, if
\* no other turn is about (chatSession.ts:116-124).
THEOREM InterruptsStop == AppSpec => InterruptStops
<1>1. PageInv /\ [AppNext]_appVars =>
        [ \A t \in Turn : Interrupted(t) /\ turn'[t].phase = "calling"
                            => turn[t].phase = "calling" ]_vars
  BY AppSteps DEF KeepsQuiet
<1> QED
  BY <1>1, PageAlways, PTL DEF AppSpec, InterruptStops

\* Every message is shown once on a page that hears of it, and every reply as
\* well if nobody pressed stop and turns did not overlap (makeChatStream,
\* app.ts:4018-4090).
THEOREM EverythingShownOnce == AppSpec => []ShownOnce
<1>1. PageInv => ShownOnce
  <2> SUFFICES ASSUME PageInv, NEW x \in Stream, NEW t \in tab[x].heard
               PROVE  /\ tab[x].said[t] = 1
                      /\ interrupts = 0 /\ t \in complete /\ (\A u \in tab[x].heard : Alone(u))
                            => /\ ~tab[x].mixed /\ tab[x].told[t] <= 1
                               /\ turn[t].text /\ ~(turn[t].mode = "plan" /\ "error" \in turn[t].notes)
                                     => tab[x].told[t] = 1
    BY DEF ShownOnce
  <2>1. tab[x] \in TabType /\ StreamOK(tab[x], turn, InFlight, interrupts)
    BY DEF PageInv, PageTypes
  <2>2. t \in Turn
    BY <2>1 DEF TabType
  <2>3. tab[x].said[t] = 1
    BY <2>1, <2>2 DEF StreamOK, Said
  <2>4. ASSUME interrupts = 0, t \in complete, \A u \in tab[x].heard : Alone(u)
        PROVE  /\ ~tab[x].mixed /\ tab[x].told[t] <= 1
               /\ turn[t].text /\ ~(turn[t].mode = "plan" /\ "error" \in turn[t].notes)
                     => tab[x].told[t] = 1
    <3>1. ~tab[x].mixed /\ Tell(tab[x], turn[t], t)
      BY <2>1, <2>4 DEF StreamOK, Replies, AloneIn, Alone
    <3>2. turn[t].phase = "over"
      BY <2>2, <2>4 DEF PageInv, ChatInv, TurnInv, At
    <3> QED
      BY <3>1, <3>2 DEF Tell
  <2> QED
    BY <2>3, <2>4
<1> QED
  BY <1>1, PageAlways, PTL

\* The composer is busy only while there is a turn, or a command that waits or
\* is on its way, unless a socket was lost (app.ts:4279-4281).
THEOREM BusyForAReason == AppSpec => []StuckOnlyIfCut
<1>1. PageInv => StuckOnlyIfCut
  BY DEF PageInv, StuckOnlyIfCut, StreamOK, Composer
<1> QED
  BY <1>1, PageAlways, PTL
-----------------------------------------------------------------------------
(***************************************************************************)
(* The terminal, for any number of visits, sockets and clicks.  What a     *)
(* terminal owes is a shell for each click whose delay is not over and one *)
(* for a retry: shells and debts together are one, and one more for each   *)
(* time that two ways of reconnecting met.                                 *)
(***************************************************************************)
Owing(t) == t.delays + (IF t.retry THEN 1 ELSE 0)

\* A terminal with buttons has a socket of its own, the others have none.
OwnSocket(v) ==
    LET t == term[v]
    IN  /\ ~On(v) => t.ws = Nobody /\ ~t.retry /\ ~t.manual /\ t.delays = 0
        /\ On(v) => t.ws \in Socket /\ (sock[t.ws].at # "over" => sock[t.ws].of = v)

\* A socket that the button closes is followed by the end of a delay.
ClickIsDue(v) ==
    LET t == term[v]
    IN  /\ t.delays + clicks <= MaxClicks
        /\ t.manual \/ StateOf(t.ws) = "closing" => t.delays > 0

\* A terminal that is shown has a socket or owes one; sockets it has and
\* sockets it owes are at most one, and one more for each time that two ways
\* of reconnecting met.
ShellIsDue(v) ==
    LET t == term[v]
    IN  /\ On(v) => StateOf(t.ws) # "over" \/ Owing(t) > 0
        /\ IsFiniteSet(Shells(v))
        /\ Cardinality(Shells(v)) + Owing(t) <= 1 + t.doubled

\* DotTellsTruth, one implication for each state of the dot.
DotIsTrue(v) ==
    LET t == term[v]
    IN  On(v) /\ t.doubled = 0 =>
          /\ t.dot = "live" => StateOf(t.ws) = "closing" \/ (StateOf(t.ws) = "open" /\ t.ping)
          /\ t.dot = "connecting" => StateOf(t.ws) \in {"connecting", "closing"}
          /\ t.dot = "reconnecting" => StateOf(t.ws) = "over" /\ (t.retry \/ t.delays > 0)
          /\ t.dot = "idle" => StateOf(t.ws) \in {"closing", "over"} /\ t.delays > 0
          /\ t.dot # "error"

\* What holds of each visit by itself.
VisitOK(v) == OwnSocket(v) /\ ClickIsDue(v) /\ ShellIsDue(v) /\ DotIsTrue(v)

\* No two visits have one socket.
OneEach == \A v, w \in Visit : On(v) /\ term[w].ws = term[v].ws => w = v

\* The inductive invariant of the terminals.
ShellInv == ShellTypeOK /\ OneEach /\ \A v \in Visit : VisitOK(v)
-----------------------------------------------------------------------------
\* A socket that is made was not in use.
LEMMA FreshIsFree ==
    ASSUME Free # {}
    PROVE  FreshSocket \in Free
<1>1. Free \in SUBSET Nat
  BY ShellAssumption DEF Free
<1>2. \E s \in Free : \A r \in Free : s <= r
  BY <1>1, LeastOf
<1> QED
  BY <1>2 DEF FreshSocket

\* The invariant holds at first.
LEMMA ShellInitially == ShellInit => ShellInv
<1> SUFFICES ASSUME ShellInit
             PROVE  ShellInv
  OBVIOUS
<1>1. ShellTypeOK
  BY ShellAssumption DEF ShellInit, ShellTypeOK, Terminal, Over
<1>2. OneEach
  BY DEF ShellInit, OneEach, On
<1>3. ASSUME NEW v \in Visit
      PROVE  VisitOK(v)
  <2>1. Shells(v) = {}
    BY ShellAssumption DEF Shells, ShellInit, Over
  <2>2. IsFiniteSet(Shells(v)) /\ Cardinality(Shells(v)) = 0
    BY <2>1, FS_EmptySet
  <2>3. OwnSocket(v) /\ ClickIsDue(v) /\ DotIsTrue(v)
    BY ShellAssumption
    DEF ShellInit, OwnSocket, ClickIsDue, DotIsTrue, On, StateOf
  <2>4. ShellIsDue(v)
    BY <2>2 DEF ShellInit, ShellIsDue, On, Owing
  <2> QED
    BY <2>3, <2>4 DEF VisitOK
<1> QED
  BY <1>1, <1>2, <1>3 DEF ShellInv

\* A visit of which nothing changes stays as it is.
LEMMA VisitStays ==
    ASSUME NEW v \in Visit, ShellInv, term'[v] = term[v],
           clicks' \in Nat, clicks' <= clicks,
           On(v) => sock'[term[v].ws] = sock[term[v].ws],
           Shells(v)' = Shells(v)
    PROVE  VisitOK(v)'
<1>1. VisitOK(v)
  BY DEF ShellInv
<1>2. term[v] \in Terminal /\ clicks \in Nat /\ MaxClicks \in Nat
  BY ShellAssumption DEF ShellInv, ShellTypeOK
<1>3. On(v)' = On(v) /\ StateOf(term[v].ws)' = StateOf(term[v].ws)
  BY <1>1, ShellAssumption DEF On, StateOf, VisitOK, OwnSocket
<1>4. OwnSocket(v)'
  BY <1>1, <1>3 DEF VisitOK, OwnSocket
<1>5. ClickIsDue(v)'
  <2>1. term[v].delays \in Nat
    BY <1>2 DEF Terminal
  <2> QED
    BY <1>1, <1>2, <1>3, <2>1 DEF VisitOK, ClickIsDue, StateOf
<1>6. ShellIsDue(v)'
  BY <1>1, <1>3 DEF VisitOK, ShellIsDue, StateOf
<1>7. DotIsTrue(v)'
  BY <1>1, <1>3 DEF VisitOK, DotIsTrue, StateOf
<1> QED
  BY <1>4, <1>5, <1>6, <1>7 DEF VisitOK
\* connect() from t: the shell pays a debt, or is the first.
LEMMA ConnectKeeps ==
    ASSUME ShellInv, NEW v \in Visit, NEW t \in Terminal, Connects(v, t),
           UNCHANGED <<view, assets, clicks, breaks>>,
           t.at = "on", t.doubled = term[v].doubled, t.delays <= term[v].delays,
           t.manual => t.delays > 0,
           Cardinality(Shells(v)) + Owing(t) <= t.doubled
    PROVE  ShellInv'
<1> DEFINE f == FreshSocket
<1>1. f \in Free
  BY FreshIsFree DEF Connects
<1>2. /\ f \in Socket /\ sock[f].at = "over" /\ f # Nobody
      /\ \A w \in Visit : term[w].ws # f
  BY <1>1, ShellAssumption DEF Free
<1>3. /\ term' = [term EXCEPT ![v] = Connected(t, f)]
      /\ sock' = [sock EXCEPT ![f] = [of |-> v, at |-> "connecting"]]
  BY DEF Connects
<1> HIDE DEF f
<1>4. /\ term \in [Visit -> Terminal] /\ clicks \in Nat /\ MaxClicks \in Nat
      /\ sock \in [Socket -> [of : Visit \cup {Nobody},
                              at : {"connecting", "open", "closing", "over"}]]
      /\ v # Nobody
  BY ShellAssumption DEF ShellInv, ShellTypeOK
<1>5. Connected(t, f) \in Terminal
  BY <1>2 DEF Connected, Terminal
<1>6. /\ term'[v].ws = f /\ term'[v].dot = "connecting" /\ term'[v].at = "on"
      /\ term'[v].manual = t.manual /\ term'[v].retry = t.retry
      /\ term'[v].delays = t.delays /\ term'[v].doubled = t.doubled
  BY <1>3, <1>4 DEF Connected, Terminal
<1>7. \A w \in Visit : w # v => term'[w] = term[w]
  BY <1>3, <1>4
<1>8. /\ sock'[f].of = v /\ sock'[f].at = "connecting"
      /\ \A s \in Socket : s # f => sock'[s] = sock[s]
  BY <1>2, <1>3, <1>4
<1>9. t.delays \in Nat /\ t.doubled \in Nat /\ term[v].delays \in Nat /\ Owing(t) \in Nat
  BY <1>4 DEF Terminal, Owing
<1>10. ShellTypeOK'
  <2>1. term' \in [Visit -> Terminal]
    BY <1>3, <1>4, <1>5
  <2>2. sock' \in [Socket -> [of : Visit \cup {Nobody},
                              at : {"connecting", "open", "closing", "over"}]]
    BY <1>3, <1>4
  <2>3. ASSUME NEW s \in Socket, sock'[s].at # "over"
        PROVE  sock'[s].of # Nobody /\ On(sock[s].of)'
    <3>1. CASE s = f
      BY <3>1, <1>4, <1>6, <1>8 DEF On
    <3>2. CASE s # f
      <4>1. sock'[s] = sock[s]
        BY <3>2, <1>8
      <4>2. sock[s].of \in Visit /\ On(sock[s].of)
        BY <4>1, <2>3, <1>4 DEF ShellInv, ShellTypeOK
      <4>3. term'[sock[s].of].at = "on"
        BY <4>2, <1>6, <1>7 DEF On
      <4> QED
        BY <4>1, <4>2, <4>3, <1>4, ShellAssumption DEF On
    <3> QED
      BY <3>1, <3>2
  <2> QED
    BY <2>1, <2>2, <2>3 DEF ShellTypeOK, ShellInv
<1>11. OneEach'
  <2> SUFFICES ASSUME NEW x \in Visit, NEW w \in Visit, On(x)', term'[w].ws = term'[x].ws
               PROVE  w = x
    BY DEF OneEach
  <2>1. CASE x = v
    BY <2>1, <1>2, <1>6, <1>7
  <2>2. CASE w = v
    BY <2>2, <1>2, <1>6, <1>7
  <2>3. CASE x # v /\ w # v
    BY <2>3, <1>7 DEF OneEach, ShellInv, On
  <2> QED
    BY <2>1, <2>2, <2>3
<1>12. ASSUME NEW w \in Visit, w # v
       PROVE  VisitOK(w)'
  <2>1. On(w) => sock'[term[w].ws] = sock[term[w].ws]
    BY <1>2, <1>8 DEF ShellInv, VisitOK, OwnSocket
  <2>2. Shells(w)' = Shells(w)
    BY <1>2, <1>8, <1>12 DEF Shells
  <2>3. clicks' \in Nat /\ clicks' <= clicks /\ term'[w] = term[w]
    BY <1>4, <1>7, <1>12
  <2> QED
    BY <2>1, <2>2, <2>3, VisitStays
<1>13. VisitOK(v)'
  <2>1. Shells(v)' = Shells(v) \cup {f} /\ f \notin Shells(v)
    BY <1>2, <1>8 DEF Shells
  <2>2. IsFiniteSet(Shells(v))
    BY DEF ShellInv, VisitOK, ShellIsDue
  <2>3. /\ IsFiniteSet(Shells(v)') /\ Cardinality(Shells(v)') = Cardinality(Shells(v)) + 1
        /\ Cardinality(Shells(v)) \in Nat
    BY <2>1, <2>2, FS_AddElement, FS_CardinalityType
  <2>4. OwnSocket(v)'
    BY <1>2, <1>6, <1>8 DEF OwnSocket, On
  <2>5. ClickIsDue(v)'
    <3>1. term[v].delays + clicks <= MaxClicks
      BY DEF ShellInv, VisitOK, ClickIsDue
    <3>2. t.delays + clicks' <= MaxClicks
      BY <3>1, <1>4, <1>9
    <3>3. StateOf(term[v].ws)' = "connecting"
      BY <1>2, <1>6, <1>8 DEF StateOf
    <3> QED
      BY <3>2, <3>3, <1>6 DEF ClickIsDue, StateOf
  <2>6. ShellIsDue(v)'
    <3>1. Owing(term[v])' = Owing(t)
      BY <1>6 DEF Owing
    <3>2. StateOf(term[v].ws)' = "connecting"
      BY <1>2, <1>6, <1>8 DEF StateOf
    <3>3. Cardinality(Shells(v)') + Owing(t) <= 1 + t.doubled
      BY <2>3, <1>9
    <3> QED
      BY <3>1, <3>2, <3>3, <2>3, <1>6 DEF ShellIsDue, StateOf
  <2>7. DotIsTrue(v)'
    <3>2. StateOf(term[v].ws)' = "connecting"
      BY <1>2, <1>6, <1>8 DEF StateOf
    <3> QED
      BY <1>6, <3>2 DEF DotIsTrue, StateOf
  <2> QED
    BY <2>4, <2>5, <2>6, <2>7 DEF VisitOK
<1> QED
  BY <1>10, <1>11, <1>12, <1>13 DEF ShellInv
\* While nothing has met, an open shell is the terminal's last socket, and the
\* terminal owes none.
LEMMA OnlyShell ==
    ASSUME ShellInv, NEW v \in Visit, term[v].doubled = 0, NEW s \in Shells(v)
    PROVE  s = term[v].ws /\ ~term[v].retry /\ term[v].delays = 0 /\ ~term[v].manual
<1>1. /\ IsFiniteSet(Shells(v)) /\ Cardinality(Shells(v)) + Owing(term[v]) <= 1
      /\ ClickIsDue(v) /\ ShellIsDue(v) /\ OwnSocket(v)
  BY DEF ShellInv, VisitOK, ShellIsDue
<1>2. /\ term[v].delays \in Nat /\ term[v].retry \in BOOLEAN
      /\ sock \in [Socket -> [of : Visit \cup {Nobody},
                              at : {"connecting", "open", "closing", "over"}]]
  BY DEF ShellInv, ShellTypeOK, Terminal
<1>3. On(v) /\ s \in Socket
  BY DEF ShellInv, ShellTypeOK, Shells
<1>4. /\ IsFiniteSet(Shells(v) \ {s}) /\ Cardinality(Shells(v)) \in Nat
      /\ Cardinality(Shells(v) \ {s}) = Cardinality(Shells(v)) - 1
      /\ Cardinality(Shells(v) \ {s}) \in Nat
  BY <1>1, FS_RemoveElement, FS_CardinalityType
<1>5. Owing(term[v]) \in Nat
  BY <1>2 DEF Owing
<1>6. Owing(term[v]) = 0 /\ Cardinality(Shells(v) \ {s}) = 0
  BY <1>1, <1>4, <1>5
<1>7. Shells(v) \ {s} = {}
  BY <1>4, <1>6, FS_EmptySet
<1>8. ~term[v].retry /\ term[v].delays = 0
  BY <1>6, <1>2 DEF Owing
<1>9. ~term[v].manual /\ StateOf(term[v].ws) # "closing"
  BY <1>1, <1>8 DEF ClickIsDue
<1>10. StateOf(term[v].ws) # "over"
  BY <1>1, <1>3, <1>6 DEF ShellIsDue
<1>11. term[v].ws \in Shells(v)
  BY <1>1, <1>2, <1>3, <1>9, <1>10, ShellAssumption DEF OwnSocket, Shells, StateOf
<1> QED
  BY <1>7, <1>8, <1>9, <1>11

\* A socket that is over, of whatever age: ws.onclose.
LEMMA SocketEnds ==
    ASSUME ShellInv, NEW s \in Socket, sock[s].at # "over", NEW n \in Nat,
           UNCHANGED <<view, assets, clicks>>, breaks' \in 0 .. MaxBreaks,
           sock' = [sock EXCEPT ![s] = Over],
           term' = [term EXCEPT ![sock[s].of] =
                      [Noticed(term[sock[s].of]) EXCEPT !.doubled = n]],
           n = IF sock[s].at = "closing" /\ ~term[sock[s].of].manual
               THEN term[sock[s].of].doubled + 1 ELSE term[sock[s].of].doubled
    PROVE  ShellInv'
<1>1. PICK v \in Visit : sock[s].of = v /\ On(v)
  BY DEF ShellInv, ShellTypeOK
<1> DEFINE t == term[v]
<1>2. /\ term \in [Visit -> Terminal] /\ clicks \in Nat /\ MaxClicks \in Nat
      /\ sock \in [Socket -> [of : Visit \cup {Nobody},
                              at : {"connecting", "open", "closing", "over"}]]
      /\ Over \in [of : Visit \cup {Nobody}, at : {"connecting", "open", "closing", "over"}]
  BY ShellAssumption DEF ShellInv, ShellTypeOK, Over
<1>3. t \in Terminal /\ [Noticed(t) EXCEPT !.doubled = n] \in Terminal
  <2>1. t \in Terminal
    BY <1>2
  <2>2. CASE t.manual
    BY <2>1, <2>2 DEF Noticed, Terminal
  <2>3. CASE ~t.manual
    BY <2>1, <2>3 DEF Noticed, Terminal
  <2> QED
    BY <2>1, <2>2, <2>3
<1>4. /\ term'[v] = [Noticed(t) EXCEPT !.doubled = n]
      /\ \A w \in Visit : w # v => term'[w] = term[w]
  BY <1>1, <1>2
<1>5. /\ sock'[s].at = "over"
      /\ \A r \in Socket : r # s => sock'[r] = sock[r]
  BY <1>2 DEF Over
<1>6. /\ term'[v].at = "on" /\ term'[v].ws = t.ws /\ term'[v].delays = t.delays
      /\ term'[v].doubled = n /\ term'[v].ping = FALSE
      /\ term'[v].manual = t.manual
      /\ t.manual => term'[v].retry = t.retry /\ term'[v].dot = "idle"
      /\ ~t.manual => term'[v].retry = TRUE /\ term'[v].dot = "reconnecting"
  <2> DEFINE u == [Noticed(t) EXCEPT !.doubled = n]
  <2>1. t \in Terminal /\ t.at = "on"
    BY <1>1, <1>3 DEF On
  <2>2. u.at = "on" /\ u.ws = t.ws /\ u.delays = t.delays /\ u.doubled = n
    BY <2>1 DEF Noticed, Terminal
  <2>3. u.ping = FALSE
    BY <2>1 DEF Noticed, Terminal
  <2>4. u.manual = t.manual
    BY <2>1 DEF Noticed, Terminal
  <2>5. t.manual => u.retry = t.retry
    BY <2>1 DEF Noticed, Terminal
  <2>6. ~t.manual => u.retry = TRUE
    BY <2>1 DEF Noticed, Terminal
  <2>7. (t.manual => u.dot = "idle") /\ (~t.manual => u.dot = "reconnecting")
    BY <2>1 DEF Noticed, Terminal
  <2>8. term'[v] = u
    BY <1>4
  <2> HIDE DEF u
  <2> QED
    BY <2>2, <2>3, <2>4, <2>5, <2>6, <2>7, <2>8
<1>7. /\ t.delays \in Nat /\ t.retry \in BOOLEAN /\ t.manual \in BOOLEAN /\ t.doubled \in Nat
      /\ t.delays \in 0 .. MaxClicks
  BY <1>2 DEF Terminal
<1>8. VisitOK(v)
  BY DEF ShellInv
<1>9. ShellTypeOK'
  <2>1. term' \in [Visit -> Terminal]
    BY <1>1, <1>2, <1>3
  <2>2. sock' \in [Socket -> [of : Visit \cup {Nobody},
                              at : {"connecting", "open", "closing", "over"}]]
    BY <1>2
  <2>3. ASSUME NEW r \in Socket, sock'[r].at # "over"
        PROVE  sock'[r].of # Nobody /\ On(sock[r].of)'
    <3>1. r # s /\ sock'[r] = sock[r]
      BY <1>5, <2>3
    <3>2. sock[r].of # Nobody /\ sock[r].of \in Visit /\ On(sock[r].of)
      BY <3>1, <2>3, <1>2 DEF ShellInv, ShellTypeOK
    <3>3. term'[sock[r].of].at = "on"
      BY <3>2, <1>4, <1>6 DEF On
    <3> QED
      BY <3>1, <3>2, <3>3 DEF On
  <2> QED
    BY <2>1, <2>2, <2>3 DEF ShellTypeOK, ShellInv
<1>10. OneEach'
  <2>1. \A w \in Visit : term'[w].ws = term[w].ws /\ (On(w)' <=> On(w))
    BY <1>1, <1>4, <1>6 DEF On
  <2> QED
    BY <2>1 DEF OneEach, ShellInv, On
<1>11. ASSUME NEW w \in Visit, w # v
       PROVE  VisitOK(w)'
  <2>1. On(w) => sock'[term[w].ws] = sock[term[w].ws]
    BY <1>1, <1>5, <1>11 DEF ShellInv, VisitOK, OwnSocket
  <2>2. Shells(w)' = Shells(w)
    BY <1>1, <1>5, <1>11 DEF Shells
  <2>3. clicks' \in Nat /\ clicks' <= clicks /\ term'[w] = term[w]
    BY <1>2, <1>4, <1>11
  <2> QED
    BY <2>1, <2>2, <2>3, VisitStays
<1>12. StateOf(t.ws)' = IF t.ws = s THEN "over" ELSE StateOf(t.ws)
  BY <1>1, <1>5, <1>6, <1>8, ShellAssumption DEF StateOf, VisitOK, OwnSocket
<1> HIDE DEF t
<1>13. OwnSocket(v)'
  BY <1>1, <1>5, <1>6, <1>8 DEF OwnSocket, On, VisitOK, t
<1>14. ClickIsDue(v)'
  BY <1>6, <1>8, <1>12 DEF ClickIsDue, VisitOK, StateOf, t
<1>15. ShellIsDue(v)'
  <2>1. IsFiniteSet(Shells(v)) /\ Cardinality(Shells(v)) \in Nat
    BY <1>8, FS_CardinalityType DEF VisitOK, ShellIsDue
  <2>2. Cardinality(Shells(v)) + Owing(t) <= 1 + t.doubled
    BY <1>8 DEF VisitOK, ShellIsDue, t
  <2>3. Owing(t) \in Nat /\ Owing(term[v])' \in Nat
    BY <1>6, <1>7 DEF Owing, t
  <2>4. t.manual => Owing(term[v])' = Owing(t)
    BY <1>6, <1>7 DEF Owing
  <2>5. Owing(term[v])' <= Owing(t) + 1
    BY <1>6, <1>7 DEF Owing
  <2>6. IsFiniteSet(Shells(v)')
        /\ Cardinality(Shells(v)') + Owing(term[v])' <= 1 + n
    <3>1. CASE sock[s].at = "closing"
      <4>1. Shells(v)' = Shells(v)
        BY <3>1, <1>5 DEF Shells
      <4>2. n = IF t.manual THEN t.doubled ELSE t.doubled + 1
        BY <3>1, <1>1, <1>7 DEF t
      <4> QED
        BY <4>1, <4>2, <2>1, <2>2, <2>3, <2>4, <2>5, <1>7
    <3>2. CASE sock[s].at # "closing"
      <4>1. sock[s].at \in {"connecting", "open"}
        BY <3>2, <1>2
      <4>2. Shells(v)' = Shells(v) \ {s} /\ s \in Shells(v)
        BY <4>1, <1>1, <1>5 DEF Shells
      <4>3. /\ IsFiniteSet(Shells(v)')
            /\ Cardinality(Shells(v)') = Cardinality(Shells(v)) - 1
        BY <4>2, <2>1, FS_RemoveElement
      <4>4. n = t.doubled
        BY <3>2, <1>1 DEF t
      <4> QED
        BY <4>3, <4>4, <2>1, <2>2, <2>3, <2>5, <1>7
    <3> QED
      BY <3>1, <3>2
  <2>7. StateOf(term[v].ws)' # "over" \/ Owing(term[v])' > 0
    <3>1. CASE t.manual
      BY <3>1, <1>6, <1>7, <1>8 DEF VisitOK, ClickIsDue, Owing, t
    <3>2. CASE ~t.manual
      BY <3>2, <1>6, <1>7 DEF Owing
    <3> QED
      BY <3>1, <3>2
  <2> QED
    BY <2>6, <2>7, <1>6 DEF ShellIsDue, StateOf
<1>16. DotIsTrue(v)'
  <2> SUFFICES ASSUME n = 0
               PROVE  /\ t.manual => StateOf(term[v].ws)' \in {"closing", "over"} /\ t.delays > 0
                      /\ ~t.manual => StateOf(term[v].ws)' = "over"
    BY <1>6 DEF DotIsTrue
  <2>1. t.doubled = 0
    BY <1>1, <1>7 DEF t
  <2>2. sock[s].at = "closing" => t.manual
    BY <1>1, <1>7 DEF t
  <2>3. StateOf(term[v].ws)' = IF t.ws = s THEN "over" ELSE StateOf(t.ws)
    BY <1>6, <1>12 DEF StateOf, t
  <2>4. CASE t.manual
    <3>1. t.delays > 0
      BY <2>4, <1>8 DEF VisitOK, ClickIsDue, t
    <3>2. ASSUME NEW r \in Shells(v)
          PROVE  FALSE
      BY <2>1, <2>4, OnlyShell DEF t
    <3>3. StateOf(t.ws) \notin {"connecting", "open"}
      BY <3>2, <1>1, <1>8 DEF Shells, StateOf, VisitOK, OwnSocket, t
    <3>4. StateOf(t.ws) \in {"closing", "over"}
      BY <3>3, <1>1, <1>2, <1>8 DEF StateOf, VisitOK, OwnSocket, t
    <3> QED
      BY <3>1, <3>4, <2>3, <2>4
  <2>5. CASE ~t.manual
    <3>1. s \in Shells(v)
      BY <2>2, <2>5, <1>1, <1>2 DEF Shells
    <3>2. t.ws = s
      BY <3>1, <2>1, OnlyShell DEF t
    <3> QED
      BY <3>2, <2>3, <2>5
  <2> QED
    BY <2>4, <2>5
<1>17. VisitOK(v)'
  BY <1>13, <1>14, <1>15, <1>16 DEF VisitOK
<1> QED
  BY <1>9, <1>10, <1>11, <1>17 DEF ShellInv

\* A socket opens.
LEMMA OpensKeeps ==
    ASSUME ShellInv, NEW s \in Socket, ShellOpens(s)
    PROVE  ShellInv'
<1>1. PICK v \in Visit : sock[s].of = v /\ On(v) /\ sock[s].at = "connecting"
  BY DEF ShellInv, ShellTypeOK, ShellOpens
<1> DEFINE t == term[v]
<1>2. /\ term \in [Visit -> Terminal] /\ clicks \in Nat
      /\ sock \in [Socket -> [of : Visit \cup {Nobody},
                              at : {"connecting", "open", "closing", "over"}]]
      /\ UNCHANGED <<view, assets, clicks, breaks>>
  BY ShellAssumption DEF ShellInv, ShellTypeOK, ShellOpens
<1>3. t \in Terminal
  BY <1>2
<1>4. /\ term'[v] = [t EXCEPT !.dot = "live", !.ping = TRUE]
      /\ \A w \in Visit : w # v => term'[w] = term[w]
  BY <1>1, <1>2 DEF ShellOpens
<1>5. /\ sock'[s].at = "open" /\ sock'[s].of = v
      /\ \A r \in Socket : r # s => sock'[r] = sock[r]
  BY <1>1, <1>2 DEF ShellOpens
<1>6. /\ term'[v].at = "on" /\ term'[v].ws = t.ws /\ term'[v].delays = t.delays
      /\ term'[v].doubled = t.doubled /\ term'[v].dot = "live"
      /\ term'[v].manual = t.manual /\ term'[v].retry = t.retry /\ term'[v].ping = TRUE
  <2>1. term'[v].at = "on"
    BY <1>1, <1>3, <1>4 DEF Terminal, On
  <2>2. term'[v].manual = t.manual
    BY <1>3, <1>4 DEF Terminal
  <2>3. term'[v].retry = t.retry
    BY <1>3, <1>4 DEF Terminal
  <2>4. term'[v].ping = TRUE
    BY <1>3, <1>4 DEF Terminal
  <2> QED
    BY <2>1, <2>2, <2>3, <2>4, <1>3, <1>4 DEF Terminal
<1>7. /\ ShellTypeOK /\ OneEach /\ VisitOK(v)
  BY DEF ShellInv
<1>8. \A w \in Visit : term'[w].ws = term[w].ws /\ (On(w)' <=> On(w))
  BY <1>1, <1>4, <1>6 DEF On
<1>9. ShellTypeOK'
  <2>1. [t EXCEPT !.dot = "live", !.ping = TRUE] \in Terminal
    BY <1>3 DEF Terminal
  <2>2. term' \in [Visit -> Terminal]
    BY <1>1, <1>2, <2>1 DEF ShellOpens
  <2>3. sock' \in [Socket -> [of : Visit \cup {Nobody},
                              at : {"connecting", "open", "closing", "over"}]]
    BY <1>2 DEF ShellOpens
  <2>4. ASSUME NEW r \in Socket, sock'[r].at # "over"
        PROVE  sock'[r].of # Nobody /\ On(sock[r].of)'
    <3>1. sock'[r].of = sock[r].of /\ sock[r].at # "over"
      BY <1>1, <1>5, <2>4
    <3>2. sock[r].of # Nobody /\ sock[r].of \in Visit /\ On(sock[r].of)
      BY <3>1, <1>2, <1>7 DEF ShellTypeOK
    <3>3. term'[sock[r].of].at = "on"
      BY <3>2, <1>8 DEF On
    <3> QED
      BY <3>1, <3>2, <3>3 DEF On
  <2> QED
    BY <2>2, <2>3, <2>4, <1>2, <1>7 DEF ShellTypeOK
<1>10. OneEach'
  BY <1>7, <1>8 DEF OneEach
<1>11. ASSUME NEW w \in Visit, w # v
       PROVE  VisitOK(w)'
  <2>1. On(w) => sock'[term[w].ws] = sock[term[w].ws]
    BY <1>1, <1>5, <1>11 DEF ShellInv, VisitOK, OwnSocket
  <2>2. Shells(w)' = Shells(w)
    BY <1>1, <1>5, <1>11 DEF Shells
  <2>3. clicks' \in Nat /\ clicks' <= clicks /\ term'[w] = term[w]
    BY <1>2, <1>4, <1>11
  <2> QED
    BY <2>1, <2>2, <2>3, VisitStays
<1>12. VisitOK(v)'
  <2>1. Shells(v)' = Shells(v)
    BY <1>1, <1>5 DEF Shells
  <2>2. StateOf(term[v].ws)' = IF t.ws = s THEN "open" ELSE StateOf(t.ws)
    BY <1>1, <1>5, <1>6, <1>7, ShellAssumption DEF StateOf, VisitOK, OwnSocket
  <2>3. StateOf(s) = "connecting"
    BY <1>1, ShellAssumption DEF StateOf
  <2> HIDE DEF t
  <2>4. OwnSocket(v)'
    BY <1>1, <1>5, <1>6, <1>7 DEF OwnSocket, On, VisitOK, t
  <2>5. ClickIsDue(v)'
    BY <1>2, <1>6, <1>7, <2>2, <2>3 DEF ClickIsDue, VisitOK, StateOf, t
  <2>6. ShellIsDue(v)'
    BY <1>1, <1>6, <1>7, <2>1, <2>2 DEF ShellIsDue, VisitOK, StateOf, Owing, t
  <2>7. DotIsTrue(v)'
    <3> SUFFICES ASSUME t.doubled = 0
                 PROVE  StateOf(term[v].ws)' = "open"
      BY <1>6 DEF DotIsTrue, StateOf
    <3>1. s \in Shells(v)
      BY <1>1 DEF Shells
    <3> QED
      BY <3>1, <2>2, OnlyShell DEF t
  <2> QED
    BY <2>4, <2>5, <2>6, <2>7 DEF VisitOK
<1> QED
  BY <1>9, <1>10, <1>11, <1>12 DEF ShellInv

\* A click: a socket that is closed by it makes room for what it is to bring.
LEMMA ClicksKeeps ==
    ASSUME ShellInv, NEW p \in Visit, Clicks(p)
    PROVE  ShellInv'
<1> DEFINE heard == {v \in Visit : On(v) /\ term[v].page = p}
           Clicked(t) == [t EXCEPT !.manual = TRUE, !.retry = FALSE, !.delays = @ + 1,
                                   !.doubled = IF t.delays > 0 THEN @ + 1 ELSE @]
           closed == {s \in Socket : /\ sock[s].at \in {"connecting", "open"}
                                     /\ \E v \in heard : term[v].ws = s}
<1>1. /\ term' = [v \in Visit |-> IF v \notin heard THEN term[v] ELSE Clicked(term[v])]
      /\ sock' = [s \in Socket |-> IF s \in closed THEN [sock[s] EXCEPT !.at = "closing"]
                                   ELSE sock[s]]
  BY DEF Clicks
<1>12. clicks > 0 /\ clicks' = clicks - 1 /\ UNCHANGED <<view, assets, breaks>>
  BY DEF Clicks
<1>2. /\ term \in [Visit -> Terminal] /\ clicks \in Nat /\ MaxClicks \in Nat
      /\ clicks \in 0 .. MaxClicks
      /\ sock \in [Socket -> [of : Visit \cup {Nobody},
                              at : {"connecting", "open", "closing", "over"}]]
  BY ShellAssumption DEF ShellInv, ShellTypeOK
<1>13. ShellTypeOK /\ OneEach /\ \A v \in Visit : VisitOK(v)
  BY DEF ShellInv
<1>14. clicks \in Nat /\ clicks' \in Nat /\ MaxClicks \in Nat /\ clicks' <= clicks
  BY <1>2, <1>12
<1>3. ASSUME NEW v \in heard
      PROVE  /\ Clicked(term[v]) \in Terminal
             /\ term'[v].at = "on" /\ term'[v].ws = term[v].ws /\ term'[v].dot = term[v].dot
             /\ ~term'[v].retry
             /\ term'[v].delays = term[v].delays + 1
             /\ term'[v].doubled = IF term[v].delays > 0 THEN term[v].doubled + 1
                                   ELSE term[v].doubled
  <2>1. term[v] \in Terminal /\ v \in Visit /\ term[v].at = "on"
    BY <1>2 DEF On
  <2>2. term[v].delays + clicks <= MaxClicks /\ term[v].delays \in Nat /\ term[v].doubled \in Nat
    BY <1>13, <2>1 DEF VisitOK, ClickIsDue, Terminal
  <2>3. term[v].delays + 1 \in 0 .. MaxClicks
    BY <2>2, <1>12, <1>14
  <2>4. (IF term[v].delays > 0 THEN term[v].doubled + 1 ELSE term[v].doubled) \in Nat
    BY <2>2
  <2> HIDE DEF heard
  <2>5. Clicked(term[v]) \in Terminal
    BY <2>1, <2>3, <2>4 DEF Terminal
  <2>6. term'[v] = Clicked(term[v])
    BY <1>1, <2>1
  <2>8. ~term'[v].retry
    BY <2>1, <2>6 DEF Terminal
  <2>9. term'[v].at = "on" /\ term'[v].ws = term[v].ws /\ term'[v].dot = term[v].dot
    BY <2>1, <2>6 DEF Terminal
  <2>10. /\ term'[v].delays = term[v].delays + 1
         /\ term'[v].doubled = IF term[v].delays > 0 THEN term[v].doubled + 1
                               ELSE term[v].doubled
    BY <2>1, <2>6 DEF Terminal
  <2> QED
    BY <2>5, <2>8, <2>9, <2>10
<1>4. ASSUME NEW v \in Visit, v \notin heard
      PROVE  term'[v] = term[v]
  BY <1>1, <1>4
<1>5. ASSUME NEW s \in closed
      PROVE  /\ sock'[s].at = "closing" /\ sock'[s].of = sock[s].of
             /\ \E v \in heard : term[v].ws = s /\ sock[s].of = v
  BY <1>1, <1>2, <1>13 DEF VisitOK, OwnSocket
<1>6. ASSUME NEW s \in Socket, s \notin closed
      PROVE  sock'[s] = sock[s]
  BY <1>1, <1>6
<1>7. \A v \in Visit : term'[v].ws = term[v].ws /\ (On(v)' <=> On(v))
  BY <1>3, <1>4 DEF On
<1>8. ShellTypeOK'
  <2>1. term' \in [Visit -> Terminal]
    BY <1>1, <1>2, <1>3
  <2>2. sock' \in [Socket -> [of : Visit \cup {Nobody},
                              at : {"connecting", "open", "closing", "over"}]]
    BY <1>1, <1>2
  <2>3. clicks' \in 0 .. MaxClicks
    BY <1>2, <1>12
  <2>4. ASSUME NEW r \in Socket, sock'[r].at # "over"
        PROVE  sock'[r].of # Nobody /\ On(sock[r].of)'
    <3>1. sock'[r].of = sock[r].of /\ sock[r].at # "over"
      BY <1>5, <1>6, <2>4
    <3>2. sock[r].of # Nobody /\ sock[r].of \in Visit /\ On(sock[r].of)
      BY <3>1, <1>2, <1>13 DEF ShellTypeOK
    <3>3. term'[sock[r].of].at = "on"
      BY <3>2, <1>7 DEF On
    <3> QED
      BY <3>1, <3>2, <3>3 DEF On
  <2> QED
    BY <2>1, <2>2, <2>3, <2>4, <1>12, <1>13 DEF ShellTypeOK
<1>9. OneEach'
  BY <1>7, <1>13 DEF OneEach
<1>15. heard \subseteq Visit
  OBVIOUS
<1> HIDE DEF heard, Clicked, closed
<1>10. ASSUME NEW v \in Visit, v \notin heard
       PROVE  VisitOK(v)'
  <2>1. On(v) => sock'[term[v].ws] = sock[term[v].ws]
    <3> SUFFICES ASSUME On(v)
                 PROVE  sock'[term[v].ws] = sock[term[v].ws]
      OBVIOUS
    <3>1. \A w \in heard : term[w].ws # term[v].ws
      BY <1>10, <1>13, <1>15 DEF OneEach
    <3>2. term[v].ws \in Socket /\ term[v].ws \notin closed
      BY <3>1, <1>5, <1>13 DEF VisitOK, OwnSocket
    <3> QED
      BY <3>2, <1>6
  <2>2. \A s \in Socket : sock[s].of = v => s \notin closed
    BY <1>5, <1>10
  <2>3. Shells(v)' = Shells(v)
    BY <2>2, <1>5, <1>6 DEF Shells
  <2>4. clicks' \in Nat /\ clicks' <= clicks /\ term'[v] = term[v]
    BY <1>4, <1>10, <1>14
  <2> QED
    BY <2>1, <2>3, <2>4, VisitStays
<1>11. ASSUME NEW v \in heard
       PROVE  VisitOK(v)'
  <2> DEFINE t == term[v]
  <2>1. v \in Visit /\ On(v) /\ VisitOK(v) /\ t \in Terminal /\ t.ws \in Socket /\ t.ws # Nobody
    BY <1>2, <1>13, ShellAssumption DEF heard, VisitOK, OwnSocket
  <2>2. t.delays \in Nat /\ t.doubled \in Nat /\ t.retry \in BOOLEAN
    BY <2>1 DEF Terminal
  <2>3. sock[t.ws].at # "over" => sock[t.ws].of = v
    BY <2>1 DEF VisitOK, OwnSocket
  <2>4. t.ws \in closed <=> sock[t.ws].at \in {"connecting", "open"}
    BY <2>1 DEF closed
  <2>5. StateOf(term[v].ws)' = IF t.ws \in closed THEN "closing" ELSE StateOf(t.ws)
    BY <2>1, <1>3, <1>5, <1>6 DEF StateOf
  <2>6. StateOf(t.ws) = sock[t.ws].at /\ sock[t.ws].at \in {"connecting", "open", "closing", "over"}
    BY <2>1, <1>2 DEF StateOf
  <2>7. OwnSocket(v)'
    <3>1. sock'[t.ws].of = sock[t.ws].of /\ (sock[t.ws].at = "over" => sock'[t.ws].at = "over")
      BY <2>1, <2>4, <1>5, <1>6
    <3>2. term'[v].at = "on" /\ term'[v].ws = t.ws
      BY <1>3
    <3> QED
      BY <3>1, <3>2, <2>1, <2>3 DEF OwnSocket, On
  <2>8. ClickIsDue(v)'
    <3>1. term[v].delays + clicks <= MaxClicks
      BY <2>1 DEF VisitOK, ClickIsDue
    <3>2. term'[v].delays + clicks' <= MaxClicks /\ term'[v].delays > 0
      BY <3>1, <2>2, <1>3, <1>12, <1>14
    <3> QED
      BY <3>2 DEF ClickIsDue
  <2>9. IsFiniteSet(Shells(v)) /\ Cardinality(Shells(v)) \in Nat
    BY <2>1, FS_CardinalityType DEF VisitOK, ShellIsDue
  <2>10. Shells(v)' = Shells(v) \ (IF t.ws \in closed THEN {t.ws} ELSE {})
    <3>1. ASSUME NEW s \in Socket, s \in closed, sock[s].of = v
          PROVE  s = t.ws
      BY <3>1, <1>5
    <3> QED
      BY <3>1, <1>5, <1>6 DEF Shells
  <2>11. t.ws \in closed => t.ws \in Shells(v)
    BY <2>1, <2>3, <2>4 DEF Shells
  <2>12. /\ IsFiniteSet(Shells(v)')
         /\ Cardinality(Shells(v)') = IF t.ws \in closed THEN Cardinality(Shells(v)) - 1
                                      ELSE Cardinality(Shells(v))
    <3>1. CASE t.ws \in closed
      <4>1. Shells(v)' = Shells(v) \ {t.ws} /\ t.ws \in Shells(v)
        BY <3>1, <2>10, <2>11
      <4>2. /\ IsFiniteSet(Shells(v) \ {t.ws})
            /\ Cardinality(Shells(v) \ {t.ws}) = Cardinality(Shells(v)) - 1
        BY <4>1, <2>9, FS_RemoveElement
      <4> QED
        BY <4>1, <4>2, <3>1
    <3>2. CASE t.ws \notin closed
      <4>1. Shells(v)' = Shells(v)
        BY <3>2, <2>10
      <4> QED
        BY <4>1, <3>2, <2>9
    <3> QED
      BY <3>1, <3>2
  <2>13. ShellIsDue(v)'
    <3>1. Owing(term[v])' = t.delays + 1
      BY <1>3, <2>2 DEF Owing
    <3>2. Cardinality(Shells(v)) + Owing(t) <= 1 + t.doubled
      BY <2>1 DEF VisitOK, ShellIsDue
    <3>3. Cardinality(Shells(v)') + t.delays + 1 <= 1 + term'[v].doubled
      <4>1. CASE t.delays > 0
        <5>1. t.delays <= Owing(t) /\ term'[v].doubled = t.doubled + 1
              /\ Cardinality(Shells(v)') <= Cardinality(Shells(v)) /\ Owing(t) \in Nat
              /\ Cardinality(Shells(v)') \in Int
          BY <4>1, <1>3, <2>2, <2>9, <2>12 DEF Owing
        <5> QED
          BY <5>1, <3>2, <2>2, <2>9
      <4>2. CASE t.delays = 0
        <5>1. term'[v].doubled = t.doubled
          BY <4>2, <1>3
        <5>2. CASE t.ws \in closed
          <6>1. Owing(t) \in Nat
            BY <2>2 DEF Owing
          <6> QED
            BY <6>1, <5>1, <5>2, <4>2, <3>2, <2>2, <2>9, <2>12
        <5>3. CASE t.ws \notin closed
          <6>1. StateOf(t.ws) # "closing"
            BY <4>2, <2>1 DEF VisitOK, ClickIsDue
          <6>2. StateOf(t.ws) = "over"
            BY <6>1, <5>3, <2>4, <2>6
          <6>3. Owing(t) = 1
            BY <6>2, <4>2, <2>1, <2>2 DEF VisitOK, ShellIsDue, Owing
          <6> QED
            BY <6>3, <5>1, <5>3, <4>2, <3>2, <2>2, <2>9, <2>12
        <5> QED
          BY <5>2, <5>3
      <4> QED
        BY <4>1, <4>2, <2>2
    <3>4. term'[v].doubled \in Nat
      BY <1>3, <2>2
    <3>5. Cardinality(Shells(v)') + (t.delays + 1) <= 1 + term'[v].doubled
      BY <3>3, <3>4, <2>2, <2>9, <2>12
    <3> QED
      BY <3>1, <3>5, <2>2, <2>12, <1>3 DEF ShellIsDue, StateOf
  <2>14. DotIsTrue(v)'
    <3> SUFFICES ASSUME term'[v].doubled = 0
                 PROVE  DotIsTrue(v)'
      BY DEF DotIsTrue
    <3>1. t.delays = 0 /\ t.doubled = 0
      BY <1>3, <2>2
    <3>2. DotIsTrue(v)
      BY <2>1 DEF VisitOK
    <3>3. StateOf(t.ws) # "closing"
      BY <3>1, <2>1 DEF VisitOK, ClickIsDue
    <3>4. /\ t.dot = "live" => StateOf(t.ws) = "open"
          /\ t.dot = "connecting" => StateOf(t.ws) = "connecting"
          /\ t.dot = "reconnecting" => StateOf(t.ws) = "over"
          /\ t.dot \notin {"idle", "error"}
      BY <3>1, <3>2, <3>3, <2>1 DEF DotIsTrue
    <3>5. /\ t.dot \in {"live", "connecting"} => StateOf(term[v].ws)' = "closing"
          /\ t.dot = "reconnecting" => StateOf(term[v].ws)' = "over"
      BY <3>4, <2>4, <2>5, <2>6
    <3>6. term'[v].dot = t.dot /\ term'[v].delays = 1
      BY <3>1, <1>3
    <3> QED
      BY <3>4, <3>5, <3>6 DEF DotIsTrue, StateOf
  <2> QED
    BY <2>7, <2>8, <2>13, <2>14 DEF VisitOK
<1> QED
  BY <1>8, <1>9, <1>10, <1>11 DEF ShellInv
\* A visit that has no terminal yet only comes closer to one.
LEMMA Quiet ==
    ASSUME ShellInv, NEW v \in Visit, ~On(v), NEW t \in Terminal,
           term' = [term EXCEPT ![v] = t], t.at # "on",
           t.ws = term[v].ws, t.retry = term[v].retry, t.delays = term[v].delays,
           t.manual = term[v].manual, t.doubled = term[v].doubled,
           UNCHANGED <<sock, clicks, breaks>>,
           view' \in Visit \cup {Nobody}, assets' \in {"none", "asked", "ready", "failed"}
    PROVE  ShellInv'
<1>1. /\ ShellTypeOK /\ OneEach /\ VisitOK(v) /\ term \in [Visit -> Terminal]
      /\ clicks \in Nat /\ clicks' = clicks
  BY DEF ShellInv, ShellTypeOK
<1>2. term'[v] = t /\ \A w \in Visit : w # v => term'[w] = term[w]
  BY <1>1
<1>3. \A w \in Visit : term'[w].ws = term[w].ws /\ (On(w)' <=> On(w))
  BY <1>2 DEF On
<1>4. ShellTypeOK'
  BY <1>1, <1>3 DEF ShellTypeOK, On
<1>5. OneEach'
  BY <1>1, <1>3 DEF OneEach
<1>6. \A w \in Visit : Shells(w)' = Shells(w)
  BY DEF Shells
<1>7. ASSUME NEW w \in Visit, w # v
      PROVE  VisitOK(w)'
  <2>1. clicks' \in Nat /\ clicks' <= clicks /\ term'[w] = term[w] /\ Shells(w)' = Shells(w)
    BY <1>1, <1>2, <1>6, <1>7
  <2> QED
    BY <2>1, VisitStays
<1>8. VisitOK(v)'
  <2>1. ~On(v)' /\ Shells(v)' = Shells(v) /\ StateOf(term[v].ws)' = StateOf(term[v].ws)
    BY <1>3, <1>6 DEF StateOf
  <2>2. OwnSocket(v)'
    BY <2>1, <1>1, <1>2 DEF VisitOK, OwnSocket
  <2>3. ClickIsDue(v)'
    BY <2>1, <1>1, <1>2 DEF VisitOK, ClickIsDue, StateOf
  <2>4. ShellIsDue(v)'
    BY <2>1, <1>1, <1>2 DEF VisitOK, ShellIsDue, Owing
  <2>5. DotIsTrue(v)'
    BY <2>1 DEF DotIsTrue
  <2> QED
    BY <2>2, <2>3, <2>4, <2>5 DEF VisitOK
<1> QED
  BY <1>4, <1>5, <1>7, <1>8 DEF ShellInv

\* What ShellInv speaks of is not changed by the page or the script alone.
LEMMA ShellStays ==
    ASSUME ShellInv, UNCHANGED <<term, sock, clicks, breaks>>,
           view' \in Visit \cup {Nobody}, assets' \in {"none", "asked", "ready", "failed"}
    PROVE  ShellInv'
<1>1. ShellTypeOK' /\ OneEach'
  BY DEF ShellInv, ShellTypeOK, OneEach, On
<1>2. ASSUME NEW v \in Visit
      PROVE  VisitOK(v)'
  <2>1. Shells(v)' = Shells(v)
    BY DEF Shells
  <2>2. clicks' \in Nat /\ clicks' <= clicks
    BY DEF ShellInv, ShellTypeOK
  <2> QED
    BY <2>1, <2>2, VisitStays
<1> QED
  BY <1>1, <1>2 DEF ShellInv

\* A broken socket and an idle one are ended as those that were closed are.
LEMMA EndsKeeps ==
    ASSUME ShellInv, NEW s \in Socket, Breaks(s) \/ Idles(s) \/ CloseAnswered(s)
    PROVE  ShellInv'
<1>1. PICK v \in Visit : sock[s].of = v /\ sock[s].at # "over"
  BY DEF ShellInv, ShellTypeOK, Breaks, Idles, CloseAnswered
<1>2. term[v] \in Terminal /\ term[v].doubled \in Nat /\ breaks \in 0 .. MaxBreaks
  BY DEF ShellInv, ShellTypeOK, Terminal
<1>3. Noticed(term[v]) \in Terminal /\ Noticed(term[v]).doubled = term[v].doubled
  <2>1. CASE term[v].manual
    BY <1>2, <2>1 DEF Noticed, Terminal
  <2>2. CASE ~term[v].manual
    BY <1>2, <2>2 DEF Noticed, Terminal
  <2> QED
    BY <2>1, <2>2
<1>4. UNCHANGED <<view, assets, clicks>> /\ breaks' \in 0 .. MaxBreaks
      /\ sock' = [sock EXCEPT ![s] = Over]
  BY <1>2, ShellAssumption DEF Breaks, Idles, CloseAnswered
<1>5. CASE Breaks(s) \/ Idles(s)
  <2>1. sock[s].at # "closing" /\ term' = [term EXCEPT ![v] = Noticed(term[v])]
    BY <1>1, <1>5 DEF Breaks, Idles
  <2>2. [Noticed(term[v]) EXCEPT !.doubled = term[v].doubled] = Noticed(term[v])
    BY <1>3 DEF Terminal
  <2> DEFINE n == term[v].doubled
  <2>3. /\ n \in Nat
        /\ term' = [term EXCEPT ![sock[s].of] =
                      [Noticed(term[sock[s].of]) EXCEPT !.doubled = n]]
        /\ n = IF sock[s].at = "closing" /\ ~term[sock[s].of].manual
               THEN term[sock[s].of].doubled + 1 ELSE term[sock[s].of].doubled
    BY <1>1, <1>2, <2>1, <2>2
  <2> HIDE DEF n
  <2> QED
    BY <1>1, <1>4, <2>3, SocketEnds
<1>6. CASE CloseAnswered(s)
  <2> DEFINE n == IF term[v].manual THEN term[v].doubled ELSE term[v].doubled + 1
  <2>1. n \in Nat
    BY <1>2
  <2>2. sock[s].at = "closing"
        /\ term' = [term EXCEPT ![v] = [Noticed(term[v]) EXCEPT !.doubled =
                      IF term[v].manual THEN @ ELSE @ + 1]]
    BY <1>1, <1>6 DEF CloseAnswered
  <2>3. term' = [term EXCEPT ![v] = [Noticed(term[v]) EXCEPT !.doubled = n]]
    BY <1>3, <2>2
  <2>4. /\ term' = [term EXCEPT ![sock[s].of] =
                      [Noticed(term[sock[s].of]) EXCEPT !.doubled = n]]
        /\ n = IF sock[s].at = "closing" /\ ~term[sock[s].of].manual
               THEN term[sock[s].of].doubled + 1 ELSE term[sock[s].of].doubled
    BY <1>1, <2>2, <2>3
  <2> HIDE DEF n
  <2> QED
    BY <1>1, <1>4, <2>1, <2>4, SocketEnds
<1> QED
  BY <1>5, <1>6

\* The view is shown.
LEMMA VisitsKeeps ==
    ASSUME ShellInv, NEW v \in Visit, Visits(v)
    PROVE  ShellInv'
<1> DEFINE t == [term[v] EXCEPT !.at = "loading"]
<1>1. term[v] \in Terminal /\ ~On(v) /\ term \in [Visit -> Terminal]
  BY DEF ShellInv, ShellTypeOK, Visits, On
<1>2. t \in Terminal /\ t.at # "on" /\ t.ws = term[v].ws /\ t.delays = term[v].delays
      /\ t.doubled = term[v].doubled
  BY <1>1 DEF Terminal
<1>3. t.retry = term[v].retry
  BY <1>1 DEF Terminal
<1>4. t.manual = term[v].manual
  BY <1>1 DEF Terminal
<1>5. /\ term' = [term EXCEPT ![v] = t] /\ UNCHANGED <<sock, clicks, breaks>>
      /\ view' \in Visit \cup {Nobody} /\ assets' \in {"none", "asked", "ready", "failed"}
  BY <1>1 DEF Visits, ShellInv, ShellTypeOK
<1> HIDE DEF t
<1> QED
  BY <1>1, <1>2, <1>3, <1>4, <1>5, Quiet

\* Its script is there: the buttons are looked up and a socket is made.
LEMMA MountsKeeps ==
    ASSUME ShellInv, NEW v \in Visit, TerminalMounts(v)
    PROVE  ShellInv'
<1>1. /\ term[v] \in Terminal /\ ~On(v) /\ UNCHANGED <<view, assets, clicks, breaks>>
      /\ VisitOK(v) /\ view \in Visit \cup {Nobody} /\ ShellTypeOK
  BY DEF ShellInv, ShellTypeOK, TerminalMounts, On
<1>2. /\ term[v].delays = 0 /\ ~term[v].retry /\ ~term[v].manual /\ term[v].doubled \in Nat
  BY <1>1 DEF VisitOK, OwnSocket, Terminal
<1>3. view' \in Visit \cup {Nobody} /\ assets' \in {"none", "asked", "ready", "failed"}
  BY <1>1 DEF ShellTypeOK
<1>4. CASE view # Nobody /\ Connects(v, [term[v] EXCEPT !.at = "on", !.page = view])
  <2> DEFINE t == [term[v] EXCEPT !.at = "on", !.page = view]
  <2>1. t \in Terminal /\ t.at = "on" /\ t.doubled = term[v].doubled /\ t.delays = term[v].delays
    BY <1>1 DEF Terminal
  <2>2. ~t.manual
    BY <1>1, <1>2 DEF Terminal
  <2>3. ~t.retry
    BY <1>1, <1>2 DEF Terminal
  <2>4. Shells(v) = {}
    BY <1>1 DEF ShellTypeOK, Shells
  <2>5. Cardinality(Shells(v)) + Owing(t) <= t.doubled
    BY <2>1, <2>3, <2>4, <1>2, FS_EmptySet DEF Owing
  <2>6. t.delays <= term[v].delays
    BY <2>1, <1>2
  <2>7. Connects(v, t)
    BY <1>4
  <2> HIDE DEF t
  <2> QED
    BY <2>1, <2>2, <2>5, <2>6, <2>7, <1>1, ConnectKeeps
<1>5. CASE term' = [term EXCEPT ![v].at = "off"] /\ UNCHANGED sock
  <2> DEFINE t == [term[v] EXCEPT !.at = "off"]
  <2>1. t \in Terminal /\ t.at # "on" /\ t.ws = term[v].ws /\ t.delays = term[v].delays
        /\ t.doubled = term[v].doubled
    BY <1>1 DEF Terminal
  <2>2. t.retry = term[v].retry
    BY <1>1 DEF Terminal
  <2>3. t.manual = term[v].manual
    BY <1>1 DEF Terminal
  <2>4. term' = [term EXCEPT ![v] = t] /\ UNCHANGED <<sock, clicks, breaks>>
    BY <1>1, <1>5
  <2> HIDE DEF t
  <2> QED
    BY <2>1, <2>2, <2>3, <2>4, <1>1, <1>3, Quiet
<1>6. CASE term' = [term EXCEPT ![v] = [@ EXCEPT !.at = "off", !.dot = "error"]] /\ UNCHANGED sock
  <2> DEFINE t == [term[v] EXCEPT !.at = "off", !.dot = "error"]
  <2>1. t \in Terminal /\ t.at # "on" /\ t.ws = term[v].ws /\ t.delays = term[v].delays
        /\ t.doubled = term[v].doubled
    BY <1>1 DEF Terminal
  <2>2. t.retry = term[v].retry
    BY <1>1 DEF Terminal
  <2>3. t.manual = term[v].manual
    BY <1>1 DEF Terminal
  <2>4. term' = [term EXCEPT ![v] = t] /\ UNCHANGED <<sock, clicks, breaks>>
    BY <1>1, <1>6
  <2> HIDE DEF t
  <2> QED
    BY <2>1, <2>2, <2>3, <2>4, <1>1, <1>3, Quiet
<1> QED
  BY <1>4, <1>5, <1>6 DEF TerminalMounts

\* The end of a delay and a retry each pay for the shell they bring.
LEMMA ReconnectKeeps ==
    ASSUME ShellInv, NEW v \in Visit, DelayOver(v) \/ RetryFires(v)
    PROVE  ShellInv'
<1>1. /\ term[v] \in Terminal /\ UNCHANGED <<view, assets, clicks, breaks>>
      /\ VisitOK(v) /\ IsFiniteSet(Shells(v)) /\ Cardinality(Shells(v)) \in Nat
  BY FS_CardinalityType DEF ShellInv, ShellTypeOK, DelayOver, RetryFires, VisitOK, ShellIsDue
<1>2. /\ term[v].delays \in 0 .. MaxClicks /\ term[v].doubled \in Nat /\ MaxClicks \in Nat
  BY <1>1, ShellAssumption DEF Terminal
<1>3. On(v) /\ term[v].at = "on"
  BY <1>1, <1>2 DEF VisitOK, OwnSocket, On, DelayOver, RetryFires
<1>4. /\ Cardinality(Shells(v)) + Owing(term[v]) <= 1 + term[v].doubled
      /\ term[v].manual => term[v].delays > 0
  BY <1>1 DEF VisitOK, ShellIsDue, ClickIsDue
<1>5. CASE DelayOver(v)
  <2> DEFINE t == [term[v] EXCEPT !.delays = @ - 1, !.manual = FALSE]
  <2>1. term[v].delays > 0 /\ term[v].delays - 1 \in 0 .. MaxClicks
    BY <1>2, <1>5 DEF DelayOver
  <2>2. t \in Terminal /\ t.at = "on" /\ t.doubled = term[v].doubled
        /\ t.delays = term[v].delays - 1
    BY <2>1, <1>1, <1>3 DEF Terminal
  <2>3. ~t.manual
    BY <1>1 DEF Terminal
  <2>4. t.retry = term[v].retry
    BY <1>1 DEF Terminal
  <2>5. Owing(t) = Owing(term[v]) - 1 /\ Owing(t) \in Int /\ Owing(term[v]) \in Int
    BY <2>2, <2>4, <1>2 DEF Owing
  <2>6. Cardinality(Shells(v)) + Owing(t) <= term[v].doubled
    <3> HIDE DEF t
    <3> QED
      BY <2>5, <1>1, <1>2, <1>4
  <2>7. Connects(v, t)
    BY <1>5 DEF DelayOver
  <2>8. t.delays <= term[v].delays
    BY <2>2, <1>2
  <2>9. Cardinality(Shells(v)) + Owing(t) <= t.doubled
    BY <2>2, <2>6
  <2> HIDE DEF t
  <2> QED
    BY <2>2, <2>3, <2>9, <2>7, <2>8, <1>1, ConnectKeeps
<1>6. CASE RetryFires(v)
  <2> DEFINE t == [term[v] EXCEPT !.retry = FALSE]
  <2>1. term[v].retry
    BY <1>6 DEF RetryFires
  <2>2. t \in Terminal /\ t.at = "on" /\ t.doubled = term[v].doubled
        /\ t.delays = term[v].delays
    BY <1>1, <1>3 DEF Terminal
  <2>3. t.manual = term[v].manual
    BY <1>1 DEF Terminal
  <2>4. ~t.retry
    BY <1>1 DEF Terminal
  <2>5. Owing(t) = Owing(term[v]) - 1 /\ Owing(t) \in Int /\ Owing(term[v]) \in Int
    BY <2>1, <2>2, <2>4, <1>2 DEF Owing
  <2>6. Cardinality(Shells(v)) + Owing(t) <= term[v].doubled
    <3> HIDE DEF t
    <3> QED
      BY <2>5, <1>1, <1>2, <1>4
  <2>7. Connects(v, t)
    BY <1>6 DEF RetryFires
  <2>8. t.delays <= term[v].delays /\ (t.manual => t.delays > 0)
    BY <2>2, <2>3, <1>2, <1>4
  <2>9. Cardinality(Shells(v)) + Owing(t) <= t.doubled
    BY <2>2, <2>6
  <2> HIDE DEF t
  <2> QED
    BY <2>2, <2>9, <2>7, <2>8, <1>1, ConnectKeeps
<1> QED
  BY <1>5, <1>6

\* Each step of the terminals keeps it.
LEMMA ShellNextKeeps ==
    ASSUME ShellInv, ShellNext
    PROVE  ShellInv'
<1>1. ASSUME NEW v \in Visit, Visits(v) \/ TerminalMounts(v) \/ Clicks(v)
                              \/ DelayOver(v) \/ RetryFires(v)
      PROVE  ShellInv'
  BY <1>1, VisitsKeeps, MountsKeeps, ClicksKeeps, ReconnectKeeps
<1>2. ASSUME NEW s \in Socket, ShellOpens(s) \/ Breaks(s) \/ Idles(s) \/ CloseAnswered(s)
      PROVE  ShellInv'
  BY <1>2, OpensKeeps, EndsKeeps
<1>3. CASE LeavesPage \/ ScriptAnswers
  <2>1. /\ UNCHANGED <<term, sock, clicks, breaks>> /\ view' \in Visit \cup {Nobody}
        /\ assets' \in {"none", "asked", "ready", "failed"}
    BY <1>3 DEF LeavesPage, ScriptAnswers, ShellInv, ShellTypeOK
  <2> QED
    BY <2>1, ShellStays
<1> QED
  BY <1>1, <1>2, <1>3 DEF ShellNext

\* It is an invariant of the two views.
LEMMA ShellAlways == AppSpec => []ShellInv
<1>1. AppInit => ShellInv
  BY ShellInitially DEF AppInit
<1>2. ShellInv /\ [AppNext]_appVars => ShellInv'
  <2> SUFFICES ASSUME ShellInv, [AppNext]_appVars
               PROVE  ShellInv'
    OBVIOUS
  <2>1. CASE ShellNext
    BY <2>1, ShellNextKeeps
  <2>2. CASE UNCHANGED shell
    <3>1. /\ UNCHANGED <<term, sock, clicks, breaks>> /\ view' \in Visit \cup {Nobody}
          /\ assets' \in {"none", "asked", "ready", "failed"}
      BY <2>2 DEF shell, ShellInv, ShellTypeOK
    <3> QED
      BY <3>1, ShellStays
  <2> QED
    BY <2>1, <2>2 DEF AppNext, appVars
<1> QED
  BY <1>1, <1>2, PTL DEF AppSpec

\* A terminal is never without a shell and without a socket, a delay or a retry
\* that will bring one, and has only as many more as ways of reconnecting met
\* (mountShell, app.ts:3044-3084), for any visits, sockets and clicks.
THEOREM OneShellEach == AppSpec => []OneShell
<1>1. ShellInv => OneShell
  <2> SUFFICES ASSUME ShellInv, NEW v \in Visit
               PROVE  /\ On(v) => StateOf(term[v].ws) # "over" \/ term[v].retry \/ term[v].delays > 0
                      /\ Cardinality(Shells(v)) <= 1 + term[v].doubled
    BY DEF OneShell
  <2>1. ShellIsDue(v) /\ IsFiniteSet(Shells(v)) /\ Cardinality(Shells(v)) \in Nat
    BY FS_CardinalityType DEF ShellInv, VisitOK, ShellIsDue
  <2>2. term[v].delays \in Nat /\ term[v].doubled \in Nat
    BY DEF ShellInv, ShellTypeOK, Terminal
  <2>3. Owing(term[v]) \in Nat /\ (Owing(term[v]) > 0 => term[v].retry \/ term[v].delays > 0)
    BY <2>2 DEF Owing
  <2> QED
    BY <2>1, <2>2, <2>3 DEF ShellIsDue
<1> QED
  BY <1>1, ShellAlways, PTL

\* While no two ways of reconnecting have met, the dot of the terminal tells
\* how its one socket is (app.ts:3044-3084).
THEOREM DotsTellTruth == AppSpec => []DotTellsTruth
<1>1. ShellInv => DotTellsTruth
  <2> SUFFICES ASSUME ShellInv, NEW v \in Visit, On(v), term[v].doubled = 0
               PROVE  CASE term[v].dot = "live" ->
                                StateOf(term[v].ws) = "closing"
                                \/ (StateOf(term[v].ws) = "open" /\ term[v].ping)
                        [] term[v].dot = "connecting" ->
                                StateOf(term[v].ws) \in {"connecting", "closing"}
                        [] term[v].dot = "reconnecting" ->
                                StateOf(term[v].ws) = "over"
                                /\ (term[v].retry \/ term[v].delays > 0)
                        [] term[v].dot = "idle" ->
                                StateOf(term[v].ws) \in {"closing", "over"}
                                /\ term[v].delays > 0
                        [] OTHER -> FALSE
    BY DEF DotTellsTruth
  <2>1. DotIsTrue(v) /\ term[v].dot \in {"connecting", "live", "reconnecting", "idle", "error"}
    BY DEF ShellInv, ShellTypeOK, VisitOK, Terminal
  <2> QED
    BY <2>1 DEF DotIsTrue
<1> QED
  BY <1>1, ShellAlways, PTL

\* The variables of the chat's object, the pages and the terminals have their
\* types: the tool loop stops after MaxIter iterations, and the transcript has
\* at most one message of each role per turn (chatSession.ts, app.ts).
THEOREM AppTypeCorrect == AppSpec => []AppTypeOK
<1>1. AppInit => part \in Part
  BY DEF AppInit
<1>2. part \in Part /\ [AppNext]_appVars => (part \in Part)'
  BY DEF AppNext, appVars
<1>3. part \in Part /\ PageInv /\ ShellInv => AppTypeOK
  BY DEF AppTypeOK, PageTypeOK, PageInv, ChatInv, TurnInv, PageTypes, TabType, ShellInv
<1> QED
  BY <1>1, <1>2, <1>3, PageAlways, ShellAlways, PTL DEF AppSpec
=============================================================================
