---------------------------- MODULE AgentSession ----------------------------
(***************************************************************************)
(* src/durable/agentSession.ts: the Durable Object that keeps the message  *)
(* tree of a session, and handleApplyRollback of src/index.ts, which runs  *)
(* the inverse of a recorded operation and notes it in the tree.           *)
(*                                                                         *)
(* Each session is an object of its own.  Its handlers are synchronous     *)
(* once they have their body, so each is one step, except the fork, which  *)
(* writes to another object (or to itself), message by message.            *)
(* A message is known by its place in its session, 0 standing for none;    *)
(* its content (what) by the place where it was first written.  of is the  *)
(* message whose rollback it reports, if any.  Full-text search and the    *)
(* fibers table are left out.                                              *)
(***************************************************************************)
EXTENDS Naturals, Sequences, FiniteSets

CONSTANTS Session,
          Apply, Fork,  \* the apply-rollback and fork requests of a behaviour
          ListLimit,    \* LIMIT of the list of pending rollbacks (50)
          MaxAppends    \* bound: messages the clients append or compact

ASSUME AgentSessionAssumption == ListLimit \in Nat \ {0} /\ MaxAppends \in Nat

VARIABLES
    msgs,       \* msgs[s]: table messages, oldest first
    meta,       \* meta[s]: its row in table meta; root is root_id and
                \* compacted is compacted_parent_id
    apply,      \* apply[a]: where an apply-rollback request has got to
    fork,       \* fork[f]: where a fork has got to
    appends,    \* appends so far (bounded by MaxAppends)
    runs,       \* (history) <<session, message, a>>: a ran the inverse
    answered,   \* (history) <<session, message>> marked and answered with 200
    unnoted,    \* (history) <<session, message>>: a report of it was refused
    touched     \* (history) sessions written to by anybody but a fork

vars == <<msgs, meta, apply, fork, appends, runs, answered, unnoted, touched>>
history == <<runs, answered, unnoted, touched>>

Ids(s) == 1..Len(msgs[s])

Init == /\ msgs = [s \in Session |-> <<>>]
        /\ meta = [s \in Session |-> [there |-> FALSE, root |-> 0, compacted |-> 0]]
        /\ apply = [a \in Apply |-> [phase |-> "idle"]]
        /\ fork = [f \in Fork |-> [phase |-> "idle"]]
        /\ appends = 0
        /\ runs = {} /\ answered = {} /\ unnoted = {} /\ touched = {}

-----------------------------------------------------------------------------
(***************************************************************************)
(* POST /init, /messages and /compact.                                     *)
(***************************************************************************)

\* Mutation: every message becomes the root.
RootedLast(m, id) == [m EXCEPT !.there = TRUE, !.root = id]

\* The meta row after a message was inserted as id: the first one is the root.
Rooted(m, id) == [m EXCEPT !.there = TRUE, !.root = IF @ = 0 THEN id ELSE @]

\* appendMessage: a message without a parent hangs off the root.
Appended(s, parent, what, undo, of) ==
    /\ msgs' = [msgs EXCEPT ![s] = Append(@,
           [parent |-> IF parent = 0 THEN meta[s].root ELSE parent,
            what |-> what, undo |-> undo, of |-> of])]
    /\ meta' = [meta EXCEPT ![s] = Rooted(@, Len(msgs[s]) + 1)]

NewId(s) == Len(msgs[s]) + 1

\* A client appends a message, with a rollback hint or without.  An unknown
\* parent is refused, after the session was initialised.
ClientAppends(s) ==
    /\ appends < MaxAppends
    /\ appends' = appends + 1
    /\ \E parent \in Ids(s) \cup {0}, undo \in {"none", "available"} :
          Appended(s, parent, <<s, NewId(s)>>, undo, <<>>)
    /\ touched' = touched \cup {s}
    /\ UNCHANGED <<apply, fork, runs, answered, unnoted>>

\* POST /init, or an append that is refused.
Initialised(s) ==
    /\ ~meta[s].there
    /\ meta' = [meta EXCEPT ![s].there = TRUE]
    /\ UNCHANGED <<msgs, apply, fork, appends, history>>

\* A summary is appended below a message, and the meta row points to it.
Compact(s) ==
    /\ appends < MaxAppends
    /\ appends' = appends + 1
    /\ \E m \in Ids(s) :
          /\ msgs' = [msgs EXCEPT ![s] = Append(@,
                 [parent |-> m, what |-> <<s, NewId(s)>>, undo |-> "none", of |-> <<>>])]
          /\ meta' = [meta EXCEPT ![s] =
                 [Rooted(@, NewId(s)) EXCEPT !.compacted = NewId(s)]]
    /\ touched' = touched \cup {s}
    /\ UNCHANGED <<apply, fork, runs, answered, unnoted>>

-----------------------------------------------------------------------------
(***************************************************************************)
(* handleApplyRollback.                                                    *)
(***************************************************************************)

\* listPendingRollbacks: the newest ListLimit of them.
Pending(s) == LET all == {m \in Ids(s) : msgs[s][m].undo = "available"}
              IN  {m \in all : Cardinality({n \in all : n > m}) < ListLimit}

\* The list is read, and the target chosen: the one the request names, or the
\* newest.  With nothing listed, or the named one not, it is E_NO_ROLLBACK.
ApplyChooses(a, s) ==
    /\ apply[a].phase = "idle"
    /\ \/ apply' = [apply EXCEPT ![a] = [phase |-> "none"]]
       \/ \E m \in Pending(s) :
             apply' = [apply EXCEPT ![a] = [phase |-> "chosen", session |-> s,
                                            target |-> m,
                                            after |-> <<s, m>> \in answered]]
    /\ UNCHANGED <<msgs, meta, fork, appends, history>>

\* Mutation: the message is marked at once, so that nobody else finds it.
ApplyRunsMarked(a) ==
    /\ apply[a].phase = "chosen"
    /\ LET s == apply[a].session  m == apply[a].target IN
       /\ msgs' = [msgs EXCEPT ![s][m].undo = "applied"]
       /\ runs' = runs \cup {<<s, m, a>>}
    /\ apply' = [apply EXCEPT ![a].phase = "ran"]
    /\ UNCHANGED <<meta, fork, appends, answered, unnoted, touched>>

\* The skill runs.  Its result, good or bad, is not looked at.
ApplyRuns(a) ==
    /\ apply[a].phase = "chosen"
    /\ runs' = runs \cup {<<apply[a].session, apply[a].target, a>>}
    /\ apply' = [apply EXCEPT ![a].phase = "ran"]
    /\ UNCHANGED <<msgs, meta, fork, appends, answered, unnoted, touched>>

\* The result is appended.  If the object cannot be reached, or its answer is
\* lost, the request ends there with an error.  An answer with an error status
\* (the insert fails) is not looked at: nothing is stored, and the request
\* goes on.
ApplyNotes(a) ==
    /\ apply[a].phase = "ran"
    /\ LET s == apply[a].session  m == apply[a].target IN
       \/ /\ Appended(s, 0, <<s, NewId(s)>>, "none", <<s, m>>)
          /\ \E phase \in {"noted", "failed"} :
                apply' = [apply EXCEPT ![a].phase = phase]
          /\ UNCHANGED unnoted
       \/ /\ apply' = [apply EXCEPT ![a].phase = "noted"]
          /\ unnoted' = unnoted \cup {<<s, m>>}
          /\ UNCHANGED <<msgs, meta>>
       \/ /\ apply' = [apply EXCEPT ![a].phase = "failed"]
          /\ UNCHANGED <<msgs, meta, unnoted>>
    /\ touched' = touched \cup {apply[a].session}
    /\ UNCHANGED <<fork, appends, runs, answered>>

\* POST /rollback: the message is marked, whatever its status is by now, and
\* the request answered with 200.  It is so answered, too, when the object
\* answers with an error and marks nothing; and it ends with an error when the
\* object cannot be reached, or its answer is lost.
ApplyMarks(a) ==
    /\ apply[a].phase = "noted"
    /\ \E phase \in {"done", "failed"} :
          apply' = [apply EXCEPT ![a].phase = phase]
    /\ LET s == apply[a].session  m == apply[a].target IN
       \/ /\ msgs' = [msgs EXCEPT ![s][m].undo = "applied"]
          /\ answered' = IF apply'[a].phase = "done"
                         THEN answered \cup {<<s, m>>} ELSE answered
       \/ UNCHANGED <<msgs, answered>>
    /\ UNCHANGED <<meta, fork, appends, runs, unnoted, touched>>

-----------------------------------------------------------------------------
(***************************************************************************)
(* POST /fork.                                                             *)
(***************************************************************************)

\* The loop of pathToRoot, from m upwards: up[k] is the k-th message above m,
\* and 0 beyond the root.
Chain(s, m) ==
    LET up[k \in 0..Len(msgs[s])] ==
            IF k = 0 THEN m
            ELSE IF up[k - 1] = 0 THEN 0 ELSE msgs[s][up[k - 1]].parent
        depth == CHOOSE k \in 0..Len(msgs[s]) :
                     up[k] # 0 /\ (k = Len(msgs[s]) \/ up[k + 1] = 0)
    IN  [i \in 1..(depth + 1) |-> up[i - 1]]

\* pathToRoot: the chain, reversed.
PathToRoot(s, m) == LET chain == Chain(s, m)
                    IN  [i \in DOMAIN chain |-> chain[Len(chain) + 1 - i]]

\* The path is read; the target is initialised, whatever it was before,
\* unless it answers with an error, which is not looked at.
ForkReads(f, from, to) ==
    /\ fork[f].phase = "idle"
    /\ \E m \in Ids(from) :
          fork' = [fork EXCEPT ![f] =
              [phase |-> "copying", to |-> to, next |-> 1, lost |-> {},
               path |-> [i \in DOMAIN PathToRoot(from, m) |->
                            msgs[from][PathToRoot(from, m)[i]]],
               fresh |-> msgs[to] = <<>> /\ \A g \in Fork : fork[g].phase = "idle"]]
    /\ \/ meta' = [meta EXCEPT ![to].there = TRUE]
       \/ UNCHANGED meta
    /\ UNCHANGED <<msgs, apply, appends, history>>

\* The fork goes on, having lost these messages of its path.
Forked(f, lost) == [fork[f] EXCEPT !.next = @ + 1,
                                   !.lost = @ \cup lost,
                                   !.phase = IF fork[f].next = Len(fork[f].path)
                                             THEN "done" ELSE "copying"]

\* Mutation: a copy whose answer is lost is sent again.
ForkRetries(f) ==
    /\ fork[f].phase = "copying"
    /\ LET msg == fork[f].path[fork[f].next] IN
       Appended(fork[f].to, 0, msg.what, "none", msg.of)
    /\ \/ fork' = [fork EXCEPT ![f] = Forked(f, {})]
       \/ UNCHANGED fork
    /\ UNCHANGED <<apply, appends, history>>

\* One message is copied, without its parent and its hint, so that it hangs
\* off the root of the target.  A target that cannot be reached, or whose
\* answer is lost, ends the fork; one that answers with an error does not: the
\* message is passed over (lost keeps its place) and the fork goes on.
ForkCopies(f) ==
    /\ fork[f].phase = "copying"
    /\ LET msg == fork[f].path[fork[f].next] IN
       \/ /\ Appended(fork[f].to, 0, msg.what, "none", msg.of)
          /\ \/ fork' = [fork EXCEPT ![f] = Forked(f, {})]
             \/ fork' = [fork EXCEPT ![f].phase = "failed"]
       \/ /\ \/ fork' = [fork EXCEPT ![f] = Forked(f, {fork[f].next})]
             \/ fork' = [fork EXCEPT ![f].phase = "failed"]
          /\ UNCHANGED <<msgs, meta>>
    /\ UNCHANGED <<apply, appends, history>>

Next == \/ \E s \in Session : ClientAppends(s) \/ Initialised(s) \/ Compact(s)
        \/ \E a \in Apply : \/ \E s \in Session : ApplyChooses(a, s)
                            \/ ApplyRuns(a) \/ ApplyNotes(a) \/ ApplyMarks(a)
        \/ \E f \in Fork : \/ \E from, to \in Session : ForkReads(f, from, to)
                           \/ ForkCopies(f)

Spec == Init /\ [][Next]_vars

-----------------------------------------------------------------------------
(***************************************************************************)
(* Properties.                                                             *)
(***************************************************************************)
Place == {<<>>} \cup (Session \X Nat)
Message == [parent : Nat, what : Place, undo : {"none", "available", "applied"},
            of : Place]

\* The variables have their types, and every session is one tree: its first
\* message is the root, and alone without a parent; every other one hangs off
\* an earlier message, so that pathToRoot ends at the root.
TypeOK ==
    /\ \A s \in Session :
          /\ msgs[s] \in Seq(Message)
          /\ meta[s].root = IF msgs[s] = <<>> THEN 0 ELSE 1
          /\ meta[s].compacted \in Ids(s) \cup {0}
          /\ msgs[s] # <<>> => meta[s].there
          /\ \A i \in Ids(s) : /\ msgs[s][i].parent < i
                              /\ msgs[s][i].parent = 0 => i = 1
    /\ \A a \in Apply : apply[a].phase \in
          {"idle", "none", "chosen", "ran", "noted", "failed", "done"}
    /\ \A f \in Fork : fork[f].phase \in {"idle", "copying", "failed", "done"}
    /\ appends \in 0..MaxAppends

\* The transcript of s reports that m was undone.
Reported(s, m) == \E i \in Ids(s) : msgs[s][i].of = <<s, m>>

\* A message is marked as applied only when its inverse has been run, and the
\* transcript holds the result or has refused it (index.ts:239), however
\* requests overlap and wherever they are cut.  Once a message was marked and
\* the request answered with success, none that reads the list later runs the
\* same inverse again.
AppliedIsReported ==
    /\ \A s \in Session : \A m \in Ids(s) : msgs[s][m].undo = "applied" =>
          /\ \E a \in Apply : <<s, m, a>> \in runs
          /\ Reported(s, m) \/ <<s, m>> \in unnoted
    /\ \A a \in Apply : apply[a].phase \notin {"idle", "none"} => ~apply[a].after

\* The messages of the path before i that the target refused.
LostBefore(f, i) == {j \in fork[f].lost : j < i}

\* A fork into a session that nothing else writes to ends with the messages
\* of the path, as they were when the fork was asked for, whatever is appended
\* or compacted in the source meanwhile: all but those that the target refused
\* (the fork answers success nevertheless), oldest first, each of them once,
\* and nothing else.
ForkCopiesPath ==
    \A f \in Fork :
        fork[f].phase = "done" /\ fork[f].fresh /\ fork[f].to \notin touched
        /\ (\A g \in Fork \ {f} : fork[g].phase = "idle")
            => /\ Len(msgs[fork[f].to]) =
                     Len(fork[f].path) - Cardinality(fork[f].lost)
               /\ \A i \in DOMAIN fork[f].path \ fork[f].lost :
                     msgs[fork[f].to][i - Cardinality(LostBefore(f, i))].what
                         = fork[f].path[i].what

\* "First apply wins. Each pending rollback can be applied once"
\* (docs/ROLLBACK.md:9).  It fails: two requests both read the list before
\* either marks the message, and both run the inverse.
FirstApplyWins ==
    \A r, q \in runs : r[1] = q[1] /\ r[2] = q[2] => r = q
=============================================================================
