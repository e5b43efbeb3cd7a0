---------------------------- MODULE CloudUpdates ----------------------------
(***************************************************************************)
(* How a deployed Worker is kept up to date, and who else touches it: the  *)
(* hourly cron and the "Push now" of the manage page                       *)
(* (site/src/cloud/pushUpdates.ts), the other actions of the manage page   *)
(* (site/src/index.ts), and the agent inside the Worker, which deploys its *)
(* own code (plugins/artifacts.ts) and updates itself                      *)
(* (plugins/helmSetup.ts).  Each of them reads, awaits and then writes.    *)
(*                                                                         *)
(* A step of a pusher is one await: the list of rows, the settings of a    *)
(* Worker, the PUT of the script, the UPDATE of the row.  A manifest or a  *)
(* bundle that cannot be fetched before anything was decided ends a run    *)
(* with nothing changed and is no step of its own.                         *)
(***************************************************************************)
EXTENDS CloudLedger

CONSTANTS
    Crons,      \* runs of the scheduled handler that may overlap
    Clicks,     \* "Push now" requests
    MaxEdits,   \* actions of the owners, and links that run out
    MaxSelf,    \* deploys and updates of the agent itself
    NoOne       \* no deployment in hand

ASSUME UpdatesAssumption ==
    /\ Crons \cap Clicks = {}
    /\ MaxEdits \in Nat /\ MaxSelf \in Nat
    /\ NoOne \notin Deployments

VARIABLES
    run,    \* what each pusher is at
    ask,    \* a request of the manage page that has passed its token check
    self,   \* what the agent in each Worker is at
    edits,  \* actions of the owners still to come
    acts,   \* deploys and updates of the agents still to come
    gone,   \* history: deployments whose link was revoked or ran out
    early   \* history: cron runs that had listed a deployment when it was paused

pushing == <<run, ask, self, edits, acts, gone, early>>
uvars   == <<ledger, pushing>>
-----------------------------------------------------------------------------
Pushers == Crons \cup Clicks

Runs == [pc: {"off", "idle", "gate", "fetch", "get", "list", "next", "upload", "record"},
         sha: 0 .. MaxSha, todo: SUBSET Deployments,
         keys: [Deployments -> 0 .. MaxToken],
         d: Deployments \cup {NoOne}, seen: SUBSET Names]

NoKeys == [d \in Deployments |-> 0]
Idle   == [pc |-> "idle", sha |-> 0, todo |-> {}, keys |-> NoKeys,
           d |-> NoOne, seen |-> {}]

Asks  == [act: {"pause", "resume", "rotate", "revoke", "delete"}, d: Deployments]
NoAsk == [act |-> "none", d |-> NoOne]

Selves == [pc: {"idle", "claim", "read", "put", "clear"}, sha: 0 .. MaxSha,
           seen: SUBSET Names]
Still  == [pc |-> "idle", sha |-> 0, seen |-> {}]

UpdatesTypeOK ==
    /\ run \in [Pushers -> Runs]
    /\ ask \in Asks \cup {NoAsk}
    /\ self \in [Customers -> Selves]
    /\ edits \in 0 .. MaxEdits
    /\ acts \in 0 .. MaxSelf
    /\ gone \in SUBSET Deployments
    /\ early \in [Crons -> SUBSET Deployments]

UpdatesInit(s) ==
    /\ run = [p \in Pushers |-> IF p \in s.pushers THEN Idle ELSE [Idle EXCEPT !.pc = "off"]]
    /\ ask = NoAsk
    /\ self = [c \in Customers |-> Still]
    /\ edits = s.edits
    /\ acts = s.acts
    /\ gone = {}
    /\ early = [p \in Crons |-> {}]
-----------------------------------------------------------------------------
(***************************************************************************)
(* The pushers.                                                            *)
(***************************************************************************)

\* Mutation: a deployment whose last push failed is not tried again.
ActiveUnfailed == {d \in Deployments : Exists(d) /\ ~row[d].paused /\ ~row[d].error}

(* The rows the cron looks at, as its one SELECT returns them.              *)
Active == {d \in Deployments : Exists(d) /\ ~row[d].paused}

(* A push that did not succeed is noted in the row and the loop goes on.    *)
Noted(d) == IF Exists(d) THEN [row EXCEPT ![d].error = TRUE] ELSE row

(* The loop of a run after it is through with one deployment.               *)
Onward(r) == [r EXCEPT !.pc = "next", !.todo = @ \ {r.d},
                       !.d = NoOne, !.seen = {}]

(* What a PUT leaves bound: the manifest's floor, and with it everything    *)
(* that was read from the Worker: nothing, when it could not be read.       *)
Merged(r) == r.seen

(* The scheduled handler fetches the manifest.                              *)
CronStarts(p) ==
    /\ p \in Crons /\ run[p].pc = "idle"
    /\ run' = [run EXCEPT ![p].pc = "list", ![p].sha = manifest]
    /\ UNCHANGED <<ledger, ask, self, edits, acts, gone, early>>

(* It lists the active deployments; a row that already claims the           *)
(* manifest's sha is passed over.  The rows are not read again.             *)
CronLists(p) ==
    /\ p \in Crons /\ run[p].pc = "list"
    /\ LET due == {d \in Active : row[d].sha # run[p].sha}
       IN  run' = [run EXCEPT ![p].pc = "next", ![p].todo = due,
                   ![p].keys = [d \in Deployments |->
                                    IF d \in due THEN row[d].token ELSE 0]]
    /\ UNCHANGED <<ledger, ask, self, edits, acts, gone, early>>

(* "Push now": the manage token is checked, the row read.  Unless the       *)
(* request is confirmed, a look at the Worker comes first.                  *)
ClickArrives(p, d) ==
    /\ p \in Clicks /\ run[p].pc = "idle"
    /\ edits > 0 /\ edits' = edits - 1
    /\ d \in live /\ Exists(d)
    /\ \E confirm \in BOOLEAN :
         run' = [run EXCEPT ![p].pc = IF confirm THEN "fetch" ELSE "gate",
                            ![p].d = d, ![p].keys[d] = row[d].token]
    /\ UNCHANGED <<ledger, ask, self, acts, gone, early>>

(* A self-managed Worker answers 409; settings that cannot be read count    *)
(* as not self-managed.                                                     *)
ClickGated(p) ==
    /\ p \in Clicks /\ run[p].pc = "gate"
    /\ LET c == Owner[run[p].d]
       IN  \/ /\ run[p].keys[run[p].d] \in accepted[c] /\ UNCHANGED faults
              /\ run' = [run EXCEPT ![p] = IF Flag \in worker[c].names THEN Idle
                                           ELSE [@ EXCEPT !.pc = "fetch"]]
           \/ /\ \/ run[p].keys[run[p].d] \notin accepted[c] /\ UNCHANGED faults
                 \/ Fault
              /\ run' = [run EXCEPT ![p].pc = "fetch"]
    /\ UNCHANGED <<manifest, ladder, enforced, row, live, worker, accepted, last,
                   ask, self, edits, acts, doubt, gone, early>>

(* runUpdatePush with a deployment id fetches the manifest ...              *)
ClickFetches(p) ==
    /\ p \in Clicks /\ run[p].pc = "fetch"
    /\ run' = [run EXCEPT ![p].pc = "get", ![p].sha = manifest]
    /\ UNCHANGED <<ledger, ask, self, edits, acts, gone, early>>

(* ... and reads the row again: gone or up to date ends it.                 *)
ClickGets(p) ==
    /\ p \in Clicks /\ run[p].pc = "get"
    /\ LET d == run[p].d
       IN  run' = [run EXCEPT ![p] =
                IF ~Exists(d) THEN Idle
                ELSE IF row[d].sha = run[p].sha THEN Idle
                ELSE [Idle EXCEPT !.pc = "next", !.sha = run[p].sha, !.todo = {d},
                                  !.keys[d] = row[d].token]]
    /\ UNCHANGED <<ledger, ask, self, edits, acts, gone, early>>

(* The bundle is fetched when the first due deployment needs it: if it is    *)
(* not there, that is this deployment's failure.                            *)
BundleMissing(p, d) ==
    /\ run[p].pc = "next" /\ d \in run[p].todo
    /\ Fault
    /\ run' = [run EXCEPT ![p] = Onward([@ EXCEPT !.d = d])]
    /\ row' = Noted(d)
    /\ UNCHANGED <<manifest, ladder, enforced, live, worker, accepted, last,
                   ask, self, edits, acts, doubt, gone, early>>

\* Mutation: it is the click that heeds the marker.
ClickLeaves(p, c) == p \in Clicks /\ Flag \in worker[c].names

(* A cron that reads the marker leaves the Worker alone.                    *)
Leaves(p, c) == p \in Crons /\ Flag \in worker[c].names

(* pushOne reads the settings of the Worker with the token of the snapshot. *)
(* When it cannot read them it goes on with what the manifest binds.        *)
Reads(p, d) ==
    /\ run[p].pc = "next" /\ d \in run[p].todo
    /\ LET c == Owner[d]
       IN  \/ /\ run[p].keys[d] \in accepted[c] /\ UNCHANGED faults
              /\ run' = [run EXCEPT ![p] =
                    IF Leaves(p, c)
                    THEN Onward([@ EXCEPT !.d = d])
                    ELSE [@ EXCEPT !.pc = "upload", !.d = d,
                                   !.seen = worker[c].names]]
           \/ /\ \/ run[p].keys[d] \notin accepted[c] /\ UNCHANGED faults
                 \/ Fault
              /\ run' = [run EXCEPT ![p].pc = "upload", ![p].d = d]
    /\ UNCHANGED <<manifest, ladder, enforced, row, live, worker, accepted, last,
                   ask, self, edits, acts, doubt, gone, early>>

(* Another push of the deployment has been put and not recorded.            *)
Awaited(d, p) == \E q \in Pushers \ {p} : run[q].pc = "record" /\ run[q].d = d

(* The PUT of the script goes through.                                      *)
Uploads(p) ==
    /\ run[p].pc = "upload"
    /\ LET d == run[p].d  c == Owner[d]
       IN  /\ run[p].keys[d] \in accepted[c]
           /\ ~TagRefused(c, run[p].sha)
           /\ worker' = Put(c, run[p].sha, Merged(run[p]))
           /\ last' = [last EXCEPT ![d] = run[p].sha]
           /\ \/ /\ run' = [run EXCEPT ![p].pc = "record"]
                 /\ UNCHANGED <<row, faults>>
                 /\ doubt' = IF Awaited(d, p) THEN doubt \cup {d} ELSE doubt
              \/ /\ Fault    \* the answer is lost
                 /\ run' = [run EXCEPT ![p] = Onward(@)]
                 /\ row' = Noted(d)
                 /\ doubt' = doubt \cup {d}
    /\ UNCHANGED <<manifest, ladder, enforced, live, accepted, ask, self, edits, acts, gone, early>>

(* The PUT is refused: the token, the migration tag, or the network.  There *)
(* is no second attempt.                                                    *)
UploadRefused(p) ==
    /\ run[p].pc = "upload"
    /\ LET d == run[p].d  c == Owner[d]
       IN  /\ \/ /\ run[p].keys[d] \notin accepted[c] \/ TagRefused(c, run[p].sha)
                 /\ UNCHANGED faults
              \/ Fault
           /\ row' = Noted(d)
    /\ run' = [run EXCEPT ![p] = Onward(@)]
    /\ UNCHANGED <<manifest, ladder, enforced, live, worker, accepted, last,
                   ask, self, edits, acts, doubt, gone, early>>

\* Mutation: the whole row is written back, as it was when it was listed.
RecordedSnapshot(d, sha) ==
    IF Exists(d) THEN [row EXCEPT ![d].sha = sha, ![d].error = FALSE, ![d].paused = FALSE]
    ELSE row

\* Mutation: the row takes the sha of the newest manifest.
RecordedNewest(d, sha) ==
    IF Exists(d) THEN [row EXCEPT ![d].sha = manifest, ![d].error = FALSE] ELSE row

(* recordPushSuccess: the row takes the sha, if there is still a row.       *)
Recorded(d, sha) ==
    IF Exists(d) THEN [row EXCEPT ![d].sha = sha, ![d].error = FALSE] ELSE row

Records(p) ==
    /\ run[p].pc = "record"
    /\ LET d == run[p].d
       IN  /\ row' = Recorded(d, run[p].sha)
           /\ doubt' = IF last[d] = run[p].sha /\ ~Awaited(d, p) THEN doubt \ {d} ELSE doubt
    /\ run' = [run EXCEPT ![p] = Onward(@)]
    /\ UNCHANGED <<manifest, ladder, enforced, live, worker, accepted, faults, last,
                   ask, self, edits, acts, gone, early>>

(* D1 fails in the UPDATE or in the log entry after it: the push counts as  *)
(* a failure.                                                               *)
RecordFails(p) ==
    /\ run[p].pc = "record" /\ Fault
    /\ LET d == run[p].d
       IN  /\ row' \in {Noted(d), IF Exists(d)
                                  THEN [row EXCEPT ![d].sha = run[p].sha, ![d].error = TRUE]
                                  ELSE row}
           /\ doubt' = doubt \cup {d}
    /\ run' = [run EXCEPT ![p] = Onward(@)]
    /\ UNCHANGED <<manifest, ladder, enforced, live, worker, accepted, last,
                   ask, self, edits, acts, gone, early>>

(* Nothing left to do: the summary is logged or answered.                   *)
RunEnds(p) ==
    /\ run[p].pc = "next" /\ run[p].todo = {}
    /\ run' = [run EXCEPT ![p] = Idle]
    /\ early' = IF p \in Crons THEN [early EXCEPT ![p] = {}] ELSE early
    /\ UNCHANGED <<ledger, ask, self, edits, acts, gone>>
-----------------------------------------------------------------------------
(***************************************************************************)
(* The manage page.                                                        *)
(***************************************************************************)

(* A request with a manage token that is not revoked and not out of date,   *)
(* for a row that exists.                                                   *)
AskArrives(act, d) ==
    /\ ask = NoAsk /\ edits > 0
    /\ act \in {"pause", "resume", "rotate", "revoke"}
    /\ d \in live /\ Exists(d)
    /\ ask' = [act |-> act, d |-> d]
    /\ edits' = edits - 1
    /\ UNCHANGED <<ledger, run, self, acts, gone, early>>

(* Whom a pause overtakes: the runs that had already listed the deployment. *)
Overtaken(d) ==
    [p \in Crons |-> IF d \in run[p].todo THEN early[p] \cup {d} ELSE early[p]]

Pauses ==
    /\ ask.act = "pause" /\ ask' = NoAsk
    /\ row' = [row EXCEPT ![ask.d].paused = TRUE]
    /\ early' = Overtaken(ask.d)
    /\ UNCHANGED <<manifest, ladder, enforced, live, worker, accepted, faults, last,
                   run, self, edits, acts, doubt, gone>>

Resumes ==
    /\ ask.act = "resume" /\ ask' = NoAsk
    /\ row' = [row EXCEPT ![ask.d].paused = FALSE]
    /\ UNCHANGED <<manifest, ladder, enforced, live, worker, accepted, faults, last,
                   run, self, edits, acts, doubt, gone, early>>

(* A fresh API token replaces the stored one.                               *)
Rotates ==
    /\ ask.act = "rotate" /\ ask' = NoAsk
    /\ \E t \in CfTokens :
         row' = [row EXCEPT ![ask.d].token = t, ![ask.d].error = FALSE]
    /\ UNCHANGED <<manifest, ladder, enforced, live, worker, accepted, faults, last,
                   run, self, edits, acts, doubt, gone, early>>

(* "Forget": first every manage token is revoked, ...                       *)
Revokes ==
    /\ ask.act = "revoke"
    /\ ask' = [ask EXCEPT !.act = "delete"]
    /\ live' = live \ {ask.d}
    /\ gone' = gone \cup {ask.d}
    /\ UNCHANGED <<manifest, ladder, enforced, row, worker, accepted, faults, last,
                   run, self, edits, acts, doubt, early>>

(* ... then the row is deleted.  The manage tokens and the push log refer   *)
(* to it, so a database that enforces the references refuses.               *)
Deletes ==
    /\ ask.act = "delete" /\ ask' = NoAsk
    /\ row' = IF enforced THEN row ELSE [row EXCEPT ![ask.d] = NoRow]
    /\ UNCHANGED <<manifest, ladder, enforced, live, worker, accepted, faults, last,
                   run, self, edits, acts, doubt, gone, early>>
-----------------------------------------------------------------------------
(***************************************************************************)
(* The agent in the Worker.                                                *)
(***************************************************************************)

(* helm-artifacts-deploy puts the customer's own code on the Worker: through *)
(* wrangler, which leaves the bindings, or as a single file without any.     *)
(* Unless told otherwise ...                                                 *)
SelfDeploys(c) ==
    /\ self[c].pc = "idle" /\ worker[c].code # "none"
    /\ acts > 0 /\ acts' = acts - 1
    /\ \E names \in {worker[c].names, {}} :
         worker' = [worker EXCEPT ![c].code = "custom", ![c].names = names]
    /\ \E pc \in {"claim", "idle"} : self' = [self EXCEPT ![c].pc = pc]
    /\ UNCHANGED <<manifest, ladder, enforced, row, live, accepted, faults, last,
                   run, ask, edits, doubt, gone, early>>

(* ... it marks it as self-managed with a second call, whose failure does    *)
(* not fail the deploy.                                                      *)
SelfClaims(c) ==
    /\ self[c].pc = "claim"
    /\ self' = [self EXCEPT ![c] = Still]
    /\ \/ /\ worker' = [worker EXCEPT ![c].names = @ \cup {Flag}]
          /\ UNCHANGED faults
       \/ Fault /\ UNCHANGED worker
    /\ UNCHANGED <<manifest, ladder, enforced, row, live, accepted, last,
                   run, ask, edits, acts, doubt, gone, early>>

(* helm-setup-update fetches the manifest; with BUILD_SHA at the manifest's *)
(* sha it goes on only when forced, so any sha may be put again.            *)
SelfUpdates(c) ==
    /\ self[c].pc = "idle" /\ worker[c].code # "none"
    /\ acts > 0 /\ acts' = acts - 1
    /\ self' = [self EXCEPT ![c].pc = "read", ![c].sha = manifest]
    /\ UNCHANGED <<ledger, run, ask, edits, gone, early>>

SelfReads(c) ==
    /\ self[c].pc = "read"
    /\ \/ /\ self' = [self EXCEPT ![c].pc = "put", ![c].seen = worker[c].names]
          /\ UNCHANGED faults
       \/ Fault /\ self' = [self EXCEPT ![c].pc = "put"]
    /\ UNCHANGED <<manifest, ladder, enforced, row, live, worker, accepted, last,
                   run, ask, edits, acts, doubt, gone, early>>

(* uploadWorkerMultipart tries again with the tag a refusal names, so the   *)
(* tag does not stop it.                                                    *)
SelfPuts(c) ==
    /\ self[c].pc = "put"
    /\ \/ /\ worker' = Put(c, self[c].sha, Merged(self[c]))
          /\ self' = [self EXCEPT ![c] = [Still EXCEPT !.pc = "clear"]]
          /\ UNCHANGED faults
       \/ Fault /\ UNCHANGED worker /\ self' = [self EXCEPT ![c] = Still]
    /\ UNCHANGED <<manifest, ladder, enforced, row, live, accepted, last,
                   run, ask, edits, acts, doubt, gone, early>>

(* The marker is taken away: the customer asked for upstream.               *)
SelfClears(c) ==
    /\ self[c].pc = "clear"
    /\ self' = [self EXCEPT ![c] = Still]
    /\ \/ /\ worker' = [worker EXCEPT ![c].names = @ \ {Flag}]
          /\ UNCHANGED faults
       \/ Fault /\ UNCHANGED worker
    /\ UNCHANGED <<manifest, ladder, enforced, row, live, accepted, last,
                   run, ask, edits, acts, doubt, gone, early>>
-----------------------------------------------------------------------------
(***************************************************************************)
(* What happens outside.                                                   *)
(***************************************************************************)

(* A new bundle is published.                                               *)
Publishes ==
    /\ manifest + 1 \in DOMAIN ladder /\ manifest' = manifest + 1
    /\ UNCHANGED <<ladder, enforced, row, live, worker, accepted, faults, last, doubt, pushing>>

(* The thirty days of a manage link are over.  It is the check at the start *)
(* of a request that sees it: a request that has passed it goes on.         *)
LinkExpires(d) ==
    /\ d \in live /\ edits > 0 /\ edits' = edits - 1
    /\ live' = live \ {d}
    /\ gone' = gone \cup {d}
    /\ UNCHANGED <<manifest, ladder, enforced, row, worker, accepted, faults, last,
                   run, ask, self, acts, doubt, early>>

(* The customer revokes an API token at Cloudflare.                         *)
TokenDropped(c, t) ==
    /\ t \in accepted[c] /\ edits > 0 /\ edits' = edits - 1
    /\ accepted' = [accepted EXCEPT ![c] = @ \ {t}]
    /\ UNCHANGED <<manifest, ladder, enforced, row, live, worker, faults, last,
                   run, ask, self, acts, doubt, gone, early>>

(* The steps the site owes: a run that has begun, and the next cron.        *)
CronStep(p) ==
    \/ CronStarts(p) \/ CronLists(p) \/ RunEnds(p)
    \/ Uploads(p) \/ UploadRefused(p) \/ Records(p) \/ RecordFails(p)
    \/ \E d \in Deployments : Reads(p, d) \/ BundleMissing(p, d)

ClickStep(p) ==
    \/ ClickGated(p) \/ ClickFetches(p) \/ ClickGets(p) \/ RunEnds(p)
    \/ Uploads(p) \/ UploadRefused(p) \/ Records(p) \/ RecordFails(p)
    \/ \E d \in Deployments :
          ClickArrives(p, d) \/ Reads(p, d) \/ BundleMissing(p, d)

SelfStep(c) ==
    \/ SelfDeploys(c) \/ SelfClaims(c)
    \/ SelfUpdates(c) \/ SelfReads(c) \/ SelfPuts(c) \/ SelfClears(c)

ManageStep ==
    \/ Pauses \/ Resumes \/ Rotates \/ Revokes \/ Deletes
    \/ \E d \in Deployments : \E act \in {"pause", "resume", "rotate", "revoke"} :
          AskArrives(act, d)

UpdatesNext ==
    \/ \E p \in Crons : CronStep(p)
    \/ \E p \in Clicks : ClickStep(p)
    \/ \E c \in Customers : SelfStep(c)
    \/ ManageStep
    \/ Publishes
    \/ \E d \in Deployments : LinkExpires(d)
    \/ \E c \in Customers, t \in CfTokens : TokenDropped(c, t)
-----------------------------------------------------------------------------
UpdatesSpecInit == \E s \in Scenes : LedgerInit(s) /\ UpdatesInit(s)

(* The scheduled handler comes round every hour and a run that has begun    *)
(* goes on; what owners, agents and the network do is up to them.           *)
Hourly == \A p \in Crons : WF_uvars(CronStep(p))
Answered == \A p \in Clicks :
    WF_uvars(run[p].pc # "idle" /\ ClickStep(p))

UpdatesSpec == UpdatesSpecInit /\ [][UpdatesNext]_uvars /\ Hourly /\ Answered
-----------------------------------------------------------------------------
(***************************************************************************)
(* Properties.                                                             *)
(***************************************************************************)

(* The sha in a row is the bundle last put on the Worker for it             *)
(* ("last bundle git sha we pushed", 0002_cloud.sql:20), unless that push   *)
(* has yet to be recorded, its answer or record was lost, or it was         *)
(* uploaded while another push of the deployment awaited its record.        *)
LedgerIsLastPush ==
    \A d \in Deployments :
        (Exists(d) /\ row[d].sha # last[d]) =>
            \/ d \in doubt
            \/ \E p \in Pushers : run[p].pc = "record" /\ run[p].d = d

(* What the owner decided stays: a push that was under way ends no pause,   *)
(* puts back no older token and brings back no forgotten row                *)
(* (deployments.ts:161 updates only its own columns).                       *)
OwnerDecides ==
    [][\A d \in Deployments :
          /\ (Exists(d) /\ row'[d] # NoRow) =>
                /\ (row[d].paused /\ ~row'[d].paused) =>
                        ask = [act |-> "resume", d |-> d]
                /\ row[d].token # row'[d].token =>
                        ask = [act |-> "rotate", d |-> d]
          /\ (~Exists(d) /\ row'[d] # NoRow) => run' = run]_uvars

(* A cron touches a paused deployment only when it had listed it before the *)
(* pause: "1 = subscriber paused updates; cron skips" (0002_cloud.sql:21).  *)
(* Its upload lands on a Worker that says it is self-managed only when the  *)
(* marker came after the cron's look at it, or the look failed              *)
(* (pushUpdates.ts:444): the agent's claim, an update that clears it and    *)
(* other pushes may all come between the look and the upload.               *)
CronLeavesAlone ==
    [][\A p \in Crons : Uploads(p) =>
          LET d == run[p].d
          IN  /\ Exists(d) /\ row[d].paused => d \in early[p]
              /\ Flag \in worker[Owner[d]].names => Flag \notin run[p].seen]_uvars

(* An active deployment whose account takes the stored token and whose      *)
(* Worker does not say it is self-managed.                                  *)
Pushable(d) ==
    /\ Exists(d) /\ ~row[d].paused
    /\ row[d].token \in accepted[Owner[d]]
    /\ Flag \notin worker[Owner[d]].names

(* "runs the Helm Cloud update push for every active deployment whose       *)
(* build_sha is older than the manifest's" (index.ts:223): one that stays   *)
(* pushable gets the newest bundle, whatever becomes of the others.         *)
EveryActiveCatchesUp ==
    \A d \in Deployments : <>[]Pushable(d) => <>[](Exists(d) /\ row[d].sha = manifest)

(* The same for a bundle that brings no migrations, or a Worker that has no *)
(* migration tag to disagree about.                                         *)
ActiveCatchesUp ==
    \A d \in Deployments :
        <>[](Pushable(d) /\ (ladder[manifest] = 0 \/ worker[Owner[d]].tag = 0))
            => <>[](Exists(d) /\ row[d].sha = manifest)
=============================================================================
