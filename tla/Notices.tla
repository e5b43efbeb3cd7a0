------------------------------ MODULE Notices ------------------------------
(***************************************************************************)
(* src/scheduler.ts, workflows/morningBriefing.ts, plugins/notifier.ts:    *)
(* how a cron becomes a brief, and a brief a notice to the owner.          *)
(*                                                                         *)
(* A firing reads the rows of its cron once, and every row asks for an     *)
(* instance of the Workflow; the id of the instance is made from the       *)
(* firing and the date, which all rows read at one moment, and an id that  *)
(* is taken is refused.  An instance runs its steps one after the other.   *)
(* A step that throws is run again by the service, from its start: also    *)
(* the one that has told the owner already and failed to write that down.  *)
(* D1 is bound: without it there are no rows.                              *)
(***************************************************************************)
EXTENDS Naturals, FiniteSets

CONSTANTS Flow, Firing,
          Phone,      \* the endpoints of push subscriptions
          Mailbox,    \* OWNER_EMAIL
          Unset,
          Limit       \* Limit[s]: retries.limit of step s

Steps == {"inbox", "projects", "synthesize", "send"}
Channel == {"email", "web-push", "log"}
Recipient == Phone \cup {Mailbox}

ASSUME NoticesAssumption ==
    /\ Unset \notin Channel /\ Mailbox \notin Phone
    /\ Limit \in [Steps -> Nat]

VARIABLES
    fired,     \* the firings that have read their rows
    asked,     \* asked[f][w]: the channel of row w, while its handler is to run
    brief,     \* brief[f]: the instance of firing f
    phones,    \* push_subscriptions
    notices,   \* notices[f]: the values of "ok" in the rows of notifications
    got,       \* (history) got[f][r]: how often r was told
    redone     \* (history) redone[f]: attempts that told somebody, and threw

notice == <<fired, asked, brief, phones, notices, got, redone>>

\* left: who is to be told yet in this attempt.  sent: has one of them been?
\* reached: (history) or might one have been, for all the code knows?
NoBrief == [at |-> "none", tries |-> 0, via |-> Unset, left |-> {},
            sent |-> FALSE, reached |-> FALSE]
Briefs == [at : Steps \cup {"none", "telling", "over", "dead"}, tries : Nat,
           via : Channel \cup {Unset}, left : SUBSET Recipient,
           sent : BOOLEAN, reached : BOOLEAN]

NoticeInit ==
    /\ fired = {}
    /\ asked = [f \in Firing |-> [w \in Flow |-> Unset]]
    /\ brief = [f \in Firing |-> NoBrief]
    /\ phones = {}
    /\ notices = [f \in Firing |-> {}]
    /\ got = [f \in Firing |-> [r \in Recipient |-> 0]]
    /\ redone = [f \in Firing |-> 0]
-----------------------------------------------------------------------------
\* The rows the owner has for this cron at that moment, none if D1 fails.
CronFires(f) ==
    /\ f \notin fired /\ fired' = fired \cup {f}
    /\ \E row \in [Flow -> Channel \cup {Unset}] : asked' = [asked EXCEPT ![f] = row]
    /\ UNCHANGED <<brief, phones, notices, got, redone>>

Created(b, channel) == [b EXCEPT !.at = "inbox", !.via = channel]

\* Mutation: every row gets an instance, which is the newest.
HandlesEach(f, w) ==
    /\ asked[f][w] # Unset
    /\ asked' = [asked EXCEPT ![f][w] = Unset]
    /\ brief' = [brief EXCEPT ![f] = Created(NoBrief, asked[f][w])]
    /\ UNCHANGED <<fired, phones, notices, got, redone>>

\* The handler of a row.  A create that is refused, or fails, is an error of
\* the row.
Handles(f, w) ==
    /\ asked[f][w] # Unset
    /\ asked' = [asked EXCEPT ![f][w] = Unset]
    /\ \/ UNCHANGED brief
       \/ /\ brief[f].at = "none"
          /\ brief' = [brief EXCEPT ![f] = Created(brief[f], asked[f][w])]
    /\ UNCHANGED <<fired, phones, notices, got, redone>>

Returned(b) ==
    [b EXCEPT !.tries = 0,
              !.at = CASE b.at = "inbox" -> "projects" [] b.at = "projects" -> "synthesize"
                       [] OTHER -> "send"]

\* A step that needs no notice: a skill that reports a failure is a result.
StepReturns(f) ==
    /\ brief[f].at \in {"inbox", "projects", "synthesize"}
    /\ brief' = [brief EXCEPT ![f] = Returned(brief[f])]
    /\ UNCHANGED <<fired, asked, phones, notices, got, redone>>

Step(b) == IF b.at = "telling" THEN "send" ELSE b.at

Again(b) == [NoBrief EXCEPT !.at = IF b.tries < Limit[Step(b)] THEN Step(b) ELSE "dead",
                            !.tries = b.tries + 1, !.via = b.via]

\* A step throws (D1, the session, a Worker that dies in it), and is run
\* again while it may be.
StepThrows(f) ==
    /\ brief[f].at \in Steps \cup {"telling"}
    /\ brief' = [brief EXCEPT ![f] = Again(brief[f])]
    /\ redone' = [redone EXCEPT ![f] = IF brief[f].reached THEN @ + 1 ELSE @]
    /\ UNCHANGED <<fired, asked, phones, got>>

Addressed(b) ==
    [b EXCEPT !.at = "telling", !.sent = (b.via = "log"),
              !.left = IF b.via = "email" THEN {Mailbox}
                       ELSE IF b.via = "web-push" THEN phones ELSE {}]

\* notify-user picks the channel; for Web Push it reads the subscriptions.
\* Where the notifier is not among ENABLED_PLUGINS, the skill is not available:
\* a result like any other, so that the instance is over and nobody told; and
\* so is the refusal of a brief without a text.
Addresses(f) ==
    /\ brief[f].at = "send"
    /\ \/ brief' = [brief EXCEPT ![f] = Addressed(brief[f])]
       \/ brief' = [brief EXCEPT ![f].at = "over"]
    /\ UNCHANGED <<fired, asked, phones, notices, got, redone>>

Tried(b, r, there, said) ==
    [b EXCEPT !.left = b.left \ {r}, !.sent = b.sent \/ said, !.reached = b.reached \/ there]

\* One recipient: told, perhaps with an answer that says otherwise, or not;
\* a subscription that has expired is deleted.
Reaches(f, r) ==
    /\ brief[f].at = "telling" /\ r \in brief[f].left
    /\ \E there \in BOOLEAN, said \in BOOLEAN :
          /\ said => there
          /\ got' = [got EXCEPT ![f][r] = IF there THEN @ + 1 ELSE @]
          /\ brief' = [brief EXCEPT ![f] = Tried(brief[f], r, there, said)]
          /\ \/ UNCHANGED phones
             \/ ~there /\ phones' = phones \ {r}
    /\ UNCHANGED <<fired, asked, notices, redone>>

\* recordNotification; the answer of D1 may be lost.
Notes(f) ==
    /\ brief[f].at = "telling" /\ brief[f].left = {}
    /\ notices' = [notices EXCEPT ![f] = @ \cup {brief[f].sent}]
    /\ \/ brief' = [brief EXCEPT ![f].at = "over"] /\ UNCHANGED <<fired, asked, phones, got, redone>>
       \/ StepThrows(f)

\* notifier-subscribe-push.
Subscribes(p) ==
    /\ phones' = phones \cup {p}
    /\ UNCHANGED <<fired, asked, brief, notices, got, redone>>

NoticeNext ==
    \/ \E f \in Firing :
          \/ CronFires(f) \/ (\E w \in Flow : Handles(f, w))
          \/ StepReturns(f) \/ (StepThrows(f) /\ UNCHANGED notices)
          \/ Addresses(f) \/ (\E r \in Recipient : Reaches(f, r)) \/ Notes(f)
    \/ \E p \in Phone : Subscribes(p)
-----------------------------------------------------------------------------
NoticeTypeOK ==
    /\ fired \subseteq Firing
    /\ asked \in [Firing -> [Flow -> Channel \cup {Unset}]]
    /\ brief \in [Firing -> Briefs]
    /\ phones \subseteq Phone
    /\ notices \in [Firing -> SUBSET BOOLEAN]
    /\ got \in [Firing -> [Recipient -> Nat]]
    /\ redone \in [Firing -> Nat]

Told(f) == \E r \in Recipient : got[f][r] > 0

\* However many rows a cron has, the owner is told of a firing at most once
\* on each device, and once more for each attempt that threw after it had told
\* somebody (morningBriefing.ts:140-161), a notice that is recorded as sent
\* was sent, and a brief that is over after it told somebody is recorded
\* (notifier.ts:213-231).
OwnerToldOnce ==
    \A f \in Firing :
        /\ \A r \in Recipient : got[f][r] <= 1 + redone[f]
        /\ redone[f] <= Limit["send"] + 1
        /\ brief[f].via # "log" /\ TRUE \in notices[f] => Told(f)
        /\ brief[f].at = "over" /\ brief[f].reached => notices[f] # {}
=============================================================================
