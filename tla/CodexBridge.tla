---------------------------- MODULE CodexBridge ----------------------------
(***************************************************************************)
(* companion/codex-bridge/server.mjs: POST /rpc and POST /stream in front  *)
(* of one "codex app-server" process.                                      *)
(*                                                                         *)
(* Requests are found again by their id, which the caller may have chosen; *)
(* a notification carries no id.  A step is one callback: a body that has  *)
(* been read, a line of the process, a timer, a closed socket.  Node tells *)
(* of a closed socket on the request, which it may hold to be over once    *)
(* its body is read, so the news may not come.                             *)
(***************************************************************************)
EXTENDS Naturals, Sequences, FiniteSets

CONSTANTS Request, ReqId, NoOne,
          Streams,     \* the requests to /stream, the others are to /rpc
          MaxTells     \* bound: notifications the process sends

ASSUME BridgeAssumption ==
    /\ NoOne \notin Request \cup ReqId /\ Streams \subseteq Request
    /\ MaxTells \in Nat /\ IsFiniteSet(ReqId)

VARIABLES
    req,       \* req[r]: one request of a client
    entry,     \* pendingSingle and pendingStream: who waits for an id
    tasks,     \* the requests the process works on
    tells,     \* notifications it may still send
    server     \* "up", "stopping" after a signal, or "down"

bridge == <<req, entry, tasks, tells, server>>

\* got: what was written to the client.  gone: it has left, and the bridge
\* does not know.
Line == [kind : {"note", "answer", "timeout"}, of : Request]
Asked == [at : {"new", "open", "over", "left", "cut"}, id : ReqId \cup {NoOne},
          gone : BOOLEAN, got : Seq(Line)]
NoEntry == [single |-> [i \in ReqId |-> NoOne], stream |-> [i \in ReqId |-> NoOne]]

BridgeInit ==
    /\ req = [r \in Request |-> [at |-> "new", id |-> NoOne, gone |-> FALSE, got |-> <<>>]]
    /\ entry = NoEntry
    /\ tasks = {} /\ tells = MaxTells /\ server = "up"
-----------------------------------------------------------------------------
Table(r) == IF r \in Streams THEN "stream" ELSE "single"
IsOpen(r) == req[r].at = "open"
Waiting == {i \in ReqId : entry.stream[i] # NoOne}

\* The tables after the entry for an id is deleted, whoever has it now.
Without(table, i) == [entry EXCEPT ![table][i] = NoOne]

Written(r, kind, of) ==
    IF req[r].gone \/ ~IsOpen(r) THEN req[r]
    ELSE [req[r] EXCEPT !.got = Append(@, [kind |-> kind, of |-> of])]

\* A request whose body has been read.  An entry of the same id is lost, but
\* not its timer.
BodyRead(r, i) ==
    /\ server = "up" /\ req[r].at = "new"
    /\ req' = [req EXCEPT ![r] = [@ EXCEPT !.at = "open", !.id = i]]
    /\ entry' = [entry EXCEPT ![Table(r)][i] = r]
    /\ tasks' = tasks \cup {r}
    /\ UNCHANGED <<tells, server>>

\* Mutation: the newest of the streams is told.
TellsOne(r) ==
    /\ r \in tasks /\ tells > 0 /\ tells' = tells - 1
    /\ req' = [q \in Request |->
         IF Waiting # {} /\ q = entry.stream[CHOOSE i \in Waiting : TRUE]
         THEN Written(q, "note", r) ELSE req[q]]
    /\ UNCHANGED <<entry, tasks, server>>

\* A notification goes to the one stream that waits, if there is just one.
Tells(r) ==
    /\ r \in tasks /\ tells > 0 /\ tells' = tells - 1
    /\ req' = [q \in Request |->
         IF Cardinality(Waiting) = 1 /\ \E i \in Waiting : entry.stream[i] = q
         THEN Written(q, "note", r) ELSE req[q]]
    /\ UNCHANGED <<entry, tasks, server>>

\* Mutation: an answer goes to the only stream there is, whatever its id.
HolderActive(i) ==
    IF Cardinality(Waiting) = 1 THEN entry.stream[CHOOSE k \in Waiting : TRUE]
    ELSE IF i \in Waiting THEN entry.stream[i] ELSE entry.single[i]
\* The answer goes to the stream of that id, or else to the single call.
Holder(i) == IF entry.stream[i] # NoOne THEN entry.stream[i] ELSE entry.single[i]

ProcessReplies(r) ==
    /\ r \in tasks /\ tasks' = tasks \ {r}
    /\ LET i == req[r].id
           q == Holder(i)
       IN  IF q = NoOne THEN UNCHANGED <<req, entry>>
           ELSE /\ entry' = Without(Table(q), i)
                /\ req' = [req EXCEPT ![q] = [Written(q, "answer", r) EXCEPT !.at = "over"]]
    /\ UNCHANGED <<tells, server>>

\* Mutation: the entry is left in its table.
GivesUpKept(r) ==
    /\ IsOpen(r)
    /\ req' = [req EXCEPT ![r] = [Written(r, "timeout", r) EXCEPT !.at = "over"]]
    /\ UNCHANGED <<entry, tasks, tells, server>>
\* The timer of a request.
GivesUp(r) ==
    /\ IsOpen(r)
    /\ entry' = Without(Table(r), req[r].id)
    /\ req' = [req EXCEPT ![r] = [Written(r, "timeout", r) EXCEPT !.at = "over"]]
    /\ UNCHANGED <<tasks, tells, server>>

\* A client goes.  The bridge is told of it for streams only.
ClientGoes(r) ==
    /\ IsOpen(r) /\ ~req[r].gone
    /\ \/ req' = [req EXCEPT ![r].gone = TRUE] /\ UNCHANGED entry
       \/ /\ r \in Streams
          /\ req' = [req EXCEPT ![r].at = "left"] /\ entry' = Without("stream", req[r].id)
    /\ UNCHANGED <<tasks, tells, server>>

\* With the process the bridge ends, in the middle of everything.
GoesDown ==
    /\ server' = "down"
    /\ req' = [r \in Request |-> IF IsOpen(r) THEN [req[r] EXCEPT !.at = "cut"] ELSE req[r]]
    /\ entry' = NoEntry
    /\ tasks' = {} /\ UNCHANGED tells
ProcessExits == server # "down" /\ GoesDown

\* A signal: nobody is let in any more, and when all have gone, the bridge ends.
Signalled == server = "up" /\ server' = "stopping" /\ UNCHANGED <<req, entry, tasks, tells>>
Emptied ==
    /\ server = "stopping" /\ \A r \in Request : IsOpen(r) => req[r].gone
    /\ GoesDown

BridgeNext ==
    \/ \E r \in Request : \/ \E i \in ReqId : BodyRead(r, i)
                          \/ Tells(r) \/ ProcessReplies(r) \/ GivesUp(r) \/ ClientGoes(r)
    \/ ProcessExits \/ Signalled \/ Emptied
-----------------------------------------------------------------------------
\* Types, and what is in a table is a request that is open, of its kind,
\* under its id: no entry outlives its request.
BridgeTypeOK ==
    /\ req \in [Request -> Asked]
    /\ entry \in [{"single", "stream"} -> [ReqId -> Request \cup {NoOne}]]
    /\ tasks \subseteq Request /\ tells \in 0 .. MaxTells
    /\ server \in {"up", "stopping", "down"}
    /\ \A t \in {"single", "stream"}, i \in ReqId :
          LET r == entry[t][i]
          IN  r # NoOne => IsOpen(r) /\ Table(r) = t /\ req[r].id = i

Unshared(r) == \A q \in Request \ {r} : req[q].id # req[r].id

\* Unless another request was made under its id, a caller gets the answer to
\* its own request and to no other ...
OwnAnswer ==
    \A r \in Request : \A k \in DOMAIN req[r].got :
        req[r].got[k].kind = "answer" /\ Unshared(r) => req[r].got[k].of = r

\* ... and gets it: a request that is open is one the process has not answered.
NoAnswerLost == \A r \in Request : IsOpen(r) /\ Unshared(r) => r \in tasks

\* Between ids that callers choose, timers, clients that go, and two tables,
\* every answer finds the caller it belongs to (dispatchFrame, server.mjs:81-115).
AnswersFindCallers == OwnAnswer /\ NoAnswerLost

Heard(r, q) == req'[r].got = Append(req[r].got, [kind |-> "note", of |-> q])

\* What the process tells of a stream that is open, and whose id no other
\* request has, is not written to another caller (server.mjs:96-101, "broadcast
\* to the single active stream").  Two streams of one id are one entry, and
\* what is told of the first is then written to the second; what is told of a
\* call of /rpc, or of a stream that has ended, goes to the one that is open.
NoCrosstalk == [][\A r, q \in Request :
    Heard(r, q) /\ r # q => ~(q \in Streams /\ IsOpen(q) /\ Unshared(q))]_bridge
=============================================================================
