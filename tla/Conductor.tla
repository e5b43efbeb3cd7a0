----------------------------- MODULE Conductor -----------------------------
(***************************************************************************)
(* src/conductor.ts, handleConductorMessage, and the start of a streaming  *)
(* turn (src/conductor-stream.ts): the turns that are one HTTP request     *)
(* each, on the transcript of one session.                                 *)
(*                                                                         *)
(* Nothing keeps two turns of a session apart, and a request may be cut    *)
(* off anywhere.  A step is the code up to the next await.  The transcript *)
(* (AgentSession.tla), the provider and the skills are external here: what *)
(* they answer is a choice.  The wire's "selective" and "auto" are both    *)
(* "execute", so the branches for held skills are never taken.             *)
(***************************************************************************)
EXTENDS Naturals

CONSTANTS Msg,        \* requests
          MaxIter,    \* MaxIter[m]: body.maxIterations, clamped to 1 .. 12
          MaxBatch    \* bound: tool calls in one answer to request m

ASSUME ConductorAssumption == MaxIter \in [Msg -> 1 .. 12] /\ MaxBatch \in [Msg -> 0 .. 9]

\* The bodies that take different ways: runProposeMode, the two tool loops
\* (which differ in wording only), runFallbackChain, and /conductor/stream.
Mode == {"plan", "execute", "fallback", "stream"}

VARIABLES
    log,      \* the rows of the session: whose, of what kind, of which run
              \* (their order is AgentSession.tla's concern)
    msg,      \* msg[m]: where a request has got to
    ran,      \* (history) ran[m]: skills it has invoked
    spoilt    \* (history) runs whose row the session refused

turns == <<log, msg, ran, spoilt>>

Entry(m, kind, run) == [by |-> m, kind |-> kind, run |-> run]

Place == {"idle", "asking", "calling", "running", "logging", "excusing", "failing",
          "closing", "joining", "handed", "replied", "thrown"}

ConductorTypeOK ==
    /\ log \subseteq [by : Msg, kind : {"user", "tool", "toolError", "error", "reply"},
                      run : Nat]
    /\ msg \in [Msg -> [at : Place, mode : Mode, iter : Nat, left : Nat]]
    /\ ran \in [Msg -> Nat]
    /\ spoilt \subseteq Msg \X Nat

ConductorInit ==
    /\ log = {}
    /\ msg = [m \in Msg |-> [at |-> "idle", mode |-> "plan", iter |-> 0, left |-> 0]]
    /\ ran = [m \in Msg |-> 0]
    /\ spoilt = {}

At(m, at) == msg[m].at = at
Goes(m, at) == msg' = [msg EXCEPT ![m].at = at]

(* sessionAppend.  The row is stored, or refused (the answer is an error    *)
(* that nobody looks at), or the fetch throws, with the row stored or not.  *)
Stored(row) == log' = log \cup {row}
Appended(m, row, at) == Stored(row) /\ Goes(m, at)
AppendThrows(m, row, at) == (Stored(row) \/ UNCHANGED log) /\ Goes(m, at)
-----------------------------------------------------------------------------
(* POST /conductor/message or /conductor/stream: the session is initialised *)
(* and its messages are read (they only feed the prompt).                   *)
Arrives(m) ==
    /\ At(m, "idle")
    /\ \E mode \in Mode : msg' = [msg EXCEPT ![m].at = "asking", ![m].mode = mode]
    /\ UNCHANGED <<log, ran, spoilt>>

(* The user's message is appended before anything is done about it.         *)
NotesMessage(m) ==
    /\ At(m, "asking")
    /\ LET next == IF msg[m].mode = "stream" THEN "joining" ELSE "calling"
           row == Entry(m, "user", 0)
       IN \/ Appended(m, row, next)
          \/ UNCHANGED log /\ Goes(m, next)
          \/ AppendThrows(m, row, "thrown")
    /\ UNCHANGED <<ran, spoilt>>

(* The hub (StreamHub.tla) takes the turn over, or its init or subscribe    *)
(* fails and the request with it.                                           *)
Joins(m) ==
    /\ At(m, "joining")
    /\ \E at \in {"handed", "thrown"} : Goes(m, at)
    /\ UNCHANGED <<log, ran, spoilt>>

(* The provider fails, or it answers: with tool calls the loop runs them;   *)
(* without, and outside the loop, that is the reply.                        *)
ProviderFails(m) ==
    /\ At(m, "calling")
    /\ Goes(m, "failing")
    /\ UNCHANGED <<log, ran, spoilt>>

CallsTools(m) ==
    /\ At(m, "calling") /\ msg[m].mode = "execute"
    /\ \E n \in 1 .. MaxBatch[m] :
         msg' = [msg EXCEPT ![m].at = "running", ![m].left = n, ![m].iter = @ + 1]
    /\ UNCHANGED <<log, ran, spoilt>>

Concludes(m) ==
    /\ At(m, "calling")
    /\ Goes(m, "closing")
    /\ UNCHANGED <<log, ran, spoilt>>

(* A plan without text is answered without a row.                           *)
PlansNothing(m) ==
    /\ At(m, "calling") /\ msg[m].mode = "plan"
    /\ Goes(m, "replied")
    /\ UNCHANGED <<log, ran, spoilt>>

(* One tool call of the batch is dealt with; after the last one the model   *)
(* is called again, until the iteration cap.                                *)
NextTool(m) ==
    [msg[m] EXCEPT !.left = @ - 1,
                   !.at = IF msg[m].left > 1 THEN "running"
                          ELSE IF msg[m].iter < MaxIter[m] THEN "calling" ELSE "closing"]

(* A skill nobody knows is only reported to the model.                      *)
SkipsTool(m) ==
    /\ At(m, "running")
    /\ msg' = [msg EXCEPT ![m] = NextTool(m)]
    /\ UNCHANGED <<log, ran, spoilt>>

(* executeSkillStep: the skill is invoked, ...                              *)
RunsTool(m) ==
    /\ At(m, "running")
    /\ ran' = [ran EXCEPT ![m] = @ + 1]
    /\ \E at \in {"logging", "excusing"} : Goes(m, at)   \* answers, throws
    /\ UNCHANGED <<log, spoilt>>

\* Mutation: a result that cannot be logged is dropped.
LogsLightly(m) ==
    /\ At(m, "logging")
    /\ LET row == Entry(m, "tool", ran[m])
       IN /\ Stored(row) \/ UNCHANGED log
          /\ msg' = [msg EXCEPT ![m] = NextTool(m)]
          /\ UNCHANGED spoilt
    /\ UNCHANGED ran

(* ... and what it says is appended; ...                                    *)
Logs(m) ==
    /\ At(m, "logging")
    /\ LET row == Entry(m, "tool", ran[m])
       IN \/ /\ Stored(row)
             /\ msg' = [msg EXCEPT ![m] = NextTool(m)]
             /\ UNCHANGED spoilt
          \/ /\ UNCHANGED log
             /\ msg' = [msg EXCEPT ![m] = NextTool(m)]
             /\ spoilt' = spoilt \cup {<<m, ran[m]>>}
          \/ /\ AppendThrows(m, row, "excusing")
             /\ UNCHANGED spoilt
    /\ UNCHANGED ran

(* ... the catch block of both appends the error, and lets a second one     *)
(* through.                                                                 *)
Excuses(m) ==
    /\ At(m, "excusing")
    /\ LET row == Entry(m, "toolError", ran[m])
       IN \/ /\ Stored(row)
             /\ msg' = [msg EXCEPT ![m] = NextTool(m)]
             /\ UNCHANGED spoilt
          \/ /\ UNCHANGED log
             /\ msg' = [msg EXCEPT ![m] = NextTool(m)]
             /\ spoilt' = spoilt \cup {<<m, ran[m]>>}
          \/ /\ AppendThrows(m, row, "thrown")
             /\ UNCHANGED spoilt
    /\ UNCHANGED ran

(* The reply is appended and the request answered.                          *)
Replies(m) ==
    /\ At(m, "closing")
    /\ LET row == Entry(m, "reply", 0)
       IN \/ Appended(m, row, "replied")
          \/ UNCHANGED log /\ Goes(m, "replied")
          \/ AppendThrows(m, row, "thrown")
    /\ UNCHANGED <<ran, spoilt>>

(* A failure of the provider is appended, and then thrown.                  *)
Reports(m) ==
    /\ At(m, "failing")
    /\ AppendThrows(m, Entry(m, "error", 0), "thrown")
    /\ UNCHANGED <<ran, spoilt>>

(* The client goes away or the isolate dies.                                *)
IsCut(m) ==
    /\ msg[m].at \notin {"idle", "handed", "replied", "thrown"}
    /\ Goes(m, "thrown")
    /\ UNCHANGED <<log, ran, spoilt>>

ConductorNext ==
    \E m \in Msg :
        \/ Arrives(m) \/ NotesMessage(m) \/ Joins(m)
        \/ ProviderFails(m) \/ CallsTools(m) \/ Concludes(m) \/ PlansNothing(m)
        \/ SkipsTool(m) \/ RunsTool(m) \/ Logs(m) \/ Excuses(m)
        \/ Replies(m) \/ Reports(m) \/ IsCut(m)

ConductorSpec == ConductorInit /\ [][ConductorNext]_turns
-----------------------------------------------------------------------------
Logged(m, k) == {Entry(m, "tool", k), Entry(m, "toolError", k)} \cap log # {}

(* "Every tool call is recorded in the DO" (docs/HELM.md:256): however      *)
(* turns overlap, throw or are cut off, the transcript misses at most the   *)
(* last run of a turn, and that only while the run is in hand or when the   *)
(* turn has thrown; except for what the session itself has refused.         *)
RunsAreLogged ==
    \A m \in Msg : \A k \in 1 .. ran[m] :
        Logged(m, k) \/ <<m, k>> \in spoilt
        \/ (k = ran[m] /\ msg[m].at \in {"logging", "excusing", "thrown"})
=============================================================================
