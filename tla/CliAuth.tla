------------------------------ MODULE CliAuth -------------------------------
(***************************************************************************)
(* The device-code login of the command-line client:                       *)
(* src/durable/cliAuth.ts, the routes of src/index.ts in front of it, and  *)
(* the client's loop in scripts/open-think-shell.mjs.                      *)
(*                                                                         *)
(* One Durable Object serves all requests.  While a handler awaits storage *)
(* the object takes no other event, so a handler is one step from its body *)
(* on; but a crash may cut it between two of its puts.  A reply waits for  *)
(* the puts before it, and may be lost on its way to the client.           *)
(*                                                                         *)
(* A flow f stands for its device code, its user code and the client that  *)
(* asked for them.  Tokens come from a bounded supply, never twice.        *)
(***************************************************************************)
EXTENDS FiniteSets, Naturals

CONSTANTS Flow, Email, Token,
          Null   \* no record, no token, no e-mail, no reply

\* The record of a flow (DeviceRecord), as far as the object decides by it.
Record == [status : {"pending", "approved", "denied", "expired"},
           email : Email \cup {Null}, token : Token \cup {Null}]

ASSUME CliAuthAssumption == /\ Null \notin Email \cup Token
                            /\ Null \notin Record

VARIABLES
    device,   \* device[f]: the record under "device:<deviceCode>", or Null
    index,    \* the flows with an entry under "user:<userCode>"
    store,    \* store[k]: the e-mail under "token:<token>", or Null
    late,     \* flows whose expiresAt has passed
    cli,      \* cli[f]: what the client of f is doing
    reply,    \* reply[f]: the answer to its poll that is under way, or Null
    minted,   \* (history) tokens minted so far
    handed,   \* (history) handed[k]: the poll replies that have carried k
    ended     \* (history) tokens revoked, expired, or never stored because a
              \* crash cut the approval

vars == <<device, index, store, late, cli, reply, minted, handed, ended>>
history == <<minted, handed, ended>>

Pending == [status |-> "pending", email |-> Null, token |-> Null]
Client(state) == [state |-> state, token |-> Null, email |-> Null]

Init == /\ device = [f \in Flow |-> Null]
        /\ index = {}
        /\ store = [k \in Token |-> Null]
        /\ late = {}
        /\ cli = [f \in Flow |-> Client("idle")]
        /\ reply = [f \in Flow |-> Null]
        /\ minted = {} /\ ended = {}
        /\ handed = [k \in Token |-> 0]

-----------------------------------------------------------------------------
(***************************************************************************)
(* POST /start.                                                            *)
(***************************************************************************)

\* Mutation: the index entry is put before the record.
StartIndexFirst(f) ==
    /\ cli[f].state = "idle"
    /\ index' = index \cup {f}
    /\ \/ /\ device' = [device EXCEPT ![f] = Pending]
          /\ \E state \in {"polling", "failed"} :
                cli' = [cli EXCEPT ![f] = Client(state)]
       \/ /\ UNCHANGED device
          /\ cli' = [cli EXCEPT ![f] = Client("failed")]
    /\ UNCHANGED <<store, late, reply, history>>

\* The client gets its codes; or it does not, because the reply was lost, or
\* because a crash kept the index entry from being stored.
Start(f) ==
    /\ cli[f].state = "idle"
    /\ device' = [device EXCEPT ![f] = Pending]
    /\ \/ /\ index' = index \cup {f}
          /\ \E state \in {"polling", "failed"} :
                cli' = [cli EXCEPT ![f] = Client(state)]
       \/ /\ UNCHANGED index
          /\ cli' = [cli EXCEPT ![f] = Client("failed")]
    /\ UNCHANGED <<store, late, reply, history>>

-----------------------------------------------------------------------------
(***************************************************************************)
(* POST /approve: a signed-in user of the browser, with the user code.     *)
(***************************************************************************)
Known(f) == f \in index /\ device[f] # Null

\* Too late: the record says so from now on, whatever it said before.
ApproveLate(f) ==
    /\ Known(f) /\ f \in late
    /\ device' = [device EXCEPT ![f].status = "expired"]
    /\ UNCHANGED <<index, store, late, cli, reply, history>>

Deny(f) ==
    /\ Known(f) /\ f \notin late
    /\ device' = [device EXCEPT ![f].status = "denied"]
    /\ UNCHANGED <<index, store, late, cli, reply, history>>

\* Mutation: the record keeps the e-mail of the first approval.
ApproveFirstEmail(f, email, k) ==
    /\ Known(f) /\ f \notin late /\ k \notin minted
    /\ minted' = minted \cup {k}
    /\ device' = [device EXCEPT ![f] =
                     [status |-> "approved", token |-> k,
                      email |-> IF @.email = Null THEN email ELSE @.email]]
    /\ \/ store' = [store EXCEPT ![k] = email] /\ UNCHANGED ended
       \/ ended' = ended \cup {k} /\ UNCHANGED store
    /\ UNCHANGED <<index, late, cli, reply, handed>>

\* Mutation: the status of the record is trusted instead of the clock.
ApproveByStatus(f, email, k) ==
    /\ Known(f) /\ device[f].status # "expired" /\ k \notin minted
    /\ minted' = minted \cup {k}
    /\ device' = [device EXCEPT ![f] = [status |-> "approved", email |-> email,
                                        token |-> k]]
    /\ \/ store' = [store EXCEPT ![k] = email] /\ UNCHANGED ended
       \/ ended' = ended \cup {k} /\ UNCHANGED store
    /\ UNCHANGED <<index, late, cli, reply, handed>>

\* A token is minted, whatever the status of the record: a second approval,
\* or one after a denial, replaces what the record holds.  A crash may come
\* between the put of the record and that of the token.
Approve(f, email, k) ==
    /\ Known(f) /\ f \notin late /\ k \notin minted
    /\ minted' = minted \cup {k}
    /\ device' = [device EXCEPT ![f] = [status |-> "approved", email |-> email,
                                        token |-> k]]
    /\ \/ store' = [store EXCEPT ![k] = email] /\ UNCHANGED ended
       \/ ended' = ended \cup {k} /\ UNCHANGED store
    /\ UNCHANGED <<index, late, cli, reply, handed>>

-----------------------------------------------------------------------------
(***************************************************************************)
(* POST /poll, and the client's loop around it.                            *)
(***************************************************************************)

\* The record once a poll has looked at the clock.
Looked(f) == IF f \in late /\ device[f].status = "pending"
             THEN [device[f] EXCEPT !.status = "expired"] ELSE device[f]

\* Mutation: the token stays in the record.
PollKeeping(f) ==
    /\ cli[f].state = "polling" /\ reply[f] = Null
    /\ LET rec == Looked(f) IN
       /\ device' = [device EXCEPT ![f] = rec]
       /\ IF rec.status = "approved" /\ rec.token # Null
          THEN /\ reply' = [reply EXCEPT ![f] = rec]
               /\ handed' = [handed EXCEPT ![rec.token] = @ + 1]
          ELSE /\ reply' = [reply EXCEPT ![f] = [rec EXCEPT !.token = Null]]
               /\ UNCHANGED handed
    /\ UNCHANGED <<index, store, late, cli, minted, ended>>

\* A poll reaches the object.  A token is handed over and taken out of the
\* record at once.
Poll(f) ==
    /\ cli[f].state = "polling" /\ reply[f] = Null
    /\ LET rec == Looked(f) IN
       IF rec.status = "approved" /\ rec.token # Null
       THEN /\ device' = [device EXCEPT ![f] = [rec EXCEPT !.token = Null]]
            /\ reply' = [reply EXCEPT ![f] = rec]
            /\ handed' = [handed EXCEPT ![rec.token] = @ + 1]
       ELSE /\ device' = [device EXCEPT ![f] = rec]
            /\ reply' = [reply EXCEPT ![f] = [rec EXCEPT !.token = Null]]
            /\ UNCHANGED handed
    /\ UNCHANGED <<index, store, late, cli, minted, ended>>

\* The answer arrives: the client saves a token, or gives up on a denied or
\* expired code, or (pending, or approved with nothing to collect) goes on.
PollAnswered(f) ==
    /\ reply[f] # Null
    /\ reply' = [reply EXCEPT ![f] = Null]
    /\ LET r == reply[f] IN
       cli' = IF r.status = "approved" /\ r.token # Null
              THEN [cli EXCEPT ![f] = [state |-> "saved", token |-> r.token,
                                       email |-> r.email]]
              ELSE IF r.status \in {"denied", "expired"}
              THEN [cli EXCEPT ![f] = Client(r.status)]
              ELSE cli
    /\ UNCHANGED <<device, index, store, late, history>>

\* The answer is lost: the client says so and polls again.
PollLost(f) ==
    /\ reply[f] # Null
    /\ reply' = [reply EXCEPT ![f] = Null]
    /\ UNCHANGED <<device, index, store, late, cli, history>>

\* Mutation: the client goes on for as long as it is told "approved".
TimesOutOnlyPending(f) ==
    /\ cli[f].state = "polling" /\ reply[f] = Null /\ f \in late
    /\ device[f].status # "approved"
    /\ cli' = [cli EXCEPT ![f] = Client("timedout")]
    /\ UNCHANGED <<device, index, store, late, reply, history>>

\* Between two polls the client's own deadline has passed, which it counts
\* from the reply to /start and so comes after the object's.
TimesOut(f) ==
    /\ cli[f].state = "polling" /\ reply[f] = Null /\ f \in late
    /\ cli' = [cli EXCEPT ![f] = Client("timedout")]
    /\ UNCHANGED <<device, index, store, late, reply, history>>

-----------------------------------------------------------------------------
(***************************************************************************)
(* GET /verify-token and POST /revoke; time.                               *)
(***************************************************************************)
\* A token past its 30 days is dropped when it is next presented; how long a
\* token has been there is not measured.
VerifyDrops(k) ==
    /\ store[k] # Null
    /\ store' = [store EXCEPT ![k] = Null]
    /\ ended' = ended \cup {k}
    /\ UNCHANGED <<device, index, late, cli, reply, minted, handed>>

Revoke(k) ==
    /\ k \in minted
    /\ store' = [store EXCEPT ![k] = Null]
    /\ ended' = ended \cup {k}
    /\ UNCHANGED <<device, index, late, cli, reply, minted, handed>>

CodeExpires(f) ==
    /\ device[f] # Null /\ f \notin late
    /\ late' = late \cup {f}
    /\ UNCHANGED <<device, index, store, cli, reply, history>>

Next ==
    \/ \E f \in Flow : \/ Start(f) \/ ApproveLate(f) \/ Deny(f)
                       \/ Poll(f) \/ PollAnswered(f) \/ PollLost(f)
                       \/ TimesOut(f) \/ CodeExpires(f)
    \/ \E f \in Flow, email \in Email, k \in Token : Approve(f, email, k)
    \/ \E k \in Token : VerifyDrops(k) \/ Revoke(k)

Spec == Init /\ [][Next]_vars

\* Time passes; an answer arrives or is lost; the client's loop looks at its
\* deadline before every poll, and then the poll cannot be taken instead.
\* Users owe nothing.
Fairness == \A f \in Flow :
    /\ WF_vars(CodeExpires(f))
    /\ WF_vars(PollAnswered(f) \/ PollLost(f))
    /\ SF_vars(TimesOut(f))
FairSpec == Spec /\ Fairness

-----------------------------------------------------------------------------
(***************************************************************************)
(* Properties.                                                             *)
(***************************************************************************)
\* The variables have their types; a crash never leaves a user code that
\* leads to no record, nor a stored token that was not minted here.
TypeOK ==
    /\ device \in [Flow -> Record \cup {Null}]
    /\ index \subseteq {f \in Flow : device[f] # Null}
    /\ store \in [Token -> Email \cup {Null}]
    /\ {k \in Token : store[k] # Null} \subseteq minted
    /\ late \subseteq Flow
    /\ cli \in [Flow -> [state : {"idle", "polling", "saved", "denied", "expired",
                                 "timedout", "failed"},
                         token : Token \cup {Null}, email : Email \cup {Null}]]
    /\ reply \in [Flow -> Record \cup {Null}]
    /\ handed \in [Token -> Nat]
    /\ minted \subseteq Token /\ ended \subseteq minted

\* "Hand the token over once and clear it from the device record so a second
\* poll can't re-fetch it" (cliAuth.ts:171-172): at most one poll reply ever
\* carries a token, with approvals, denials and lost replies in any order.
HandedOnce == \A k \in Token : handed[k] =< 1

\* What a client saved is what the gate will let in: the token it holds is
\* stored under the very e-mail it was told it was approved as, whoever
\* approved the flow before or after; unless the token was revoked, dropped
\* for its age, or lost to a crash in the middle of its approval.
SavedIsStored ==
    \A f \in Flow :
        cli[f].state = "saved" /\ cli[f].token \notin ended
            => store[cli[f].token] = cli[f].email

\* No token is minted for a client that has given up because its code ran
\* out, by the object's word or by its own clock: nobody would collect it,
\* and it would be good for 30 days.
NoTokenForTheGone ==
    [][ \A f \in Flow :
            cli[f].state \in {"expired", "timedout"} /\ device'[f].token # Null
                => device[f].token = device'[f].token ]_vars

\* Every login ends, with replies lost or a token that is gone: the client
\* does not poll for ever.
LoginEnds ==
    \A f \in Flow : cli[f].state = "polling" ~> cli[f].state # "polling"
=============================================================================
