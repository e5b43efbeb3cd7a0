------------------------------ MODULE HelmCloud ------------------------------
(***************************************************************************)
(* Helm Cloud as a whole: deploys, webhook deliveries, hourly pushes, the  *)
(* manage page, and the agents in the Workers, which deploy, update and    *)
(* set up themselves, on one ledger and the customers' accounts.  They     *)
(* share nothing else, so a step is a step of one of them.                 *)
(***************************************************************************)
EXTENDS CloudUpdates, CloudSetup

(* What a behaviour may start from: any fleet, any ladder of bundles, any   *)
(* budgets within the bounds.                                               *)
ASSUME ScenesAssumption ==
    \A s \in Scenes :
        /\ s.fleet \subseteq Deployments
        /\ \E n \in Shas : s.ladder \in [1 .. n -> Tags]
        /\ s.tokens \subseteq CfTokens /\ s.faults \in 0 .. MaxFaults
        /\ s.edits \in 0 .. MaxEdits /\ s.acts \in 0 .. MaxSelf
        /\ s.known \subseteq Customers /\ s.tries \in [Customers -> 0 .. MaxTries]

vars == <<ledger, pushing, deploying, setup>>

TypeOK == LedgerTypeOK /\ UpdatesTypeOK /\ DeployTypeOK /\ SetupTypeOK

Init == \E s \in Scenes : LedgerInit(s) /\ UpdatesInit(s) /\ DeployInit(s) /\ SetupInit(s)

(* A cancellation overtakes the runs that had listed what it pauses, as the *)
(* "pause" of the manage page does.                                         *)
NewlyPaused == {d \in Deployments : Exists(d) /\ ~row[d].paused /\ row'[d].paused}

Next ==
    \/ UpdatesNext /\ UNCHANGED <<deploying, setup>>
    \/ /\ DeployNext
       /\ early' = [p \in Crons |-> early[p] \cup (run[p].todo \cap NewlyPaused)]
       /\ UNCHANGED <<run, ask, self, edits, acts, gone, setup>>
    \/ SetupNext /\ UNCHANGED pushing

(* The hourly cron comes round and goes on with what it began.              *)
CronGoesOn == \A p \in Crons : WF_vars(CronStep(p) /\ UNCHANGED <<deploying, setup>>)

Spec == Init /\ [][Next]_vars /\ CronGoesOn
-----------------------------------------------------------------------------
(* See ToldIsManaged: a manage link that was answered works until its owner *)
(* asks to be forgotten (index.ts:897-902) or its thirty days are over      *)
(* (deployments.ts:212, 242).                                               *)
ToldMeansManaged == ToldIsManaged(gone)

(* What may take the binding n from a Worker: a pusher, the agent's update  *)
(* or a patch that had not seen it, because it was not there at the look or *)
(* the look went wrong, ...                                                 *)
Unseen(c, n) ==
    \/ \E p \in Pushers :
          Uploads(p) /\ Owner[run[p].d] = c /\ n \notin run[p].seen
    \/ SelfPuts(c) /\ n \notin self[c].seen
    \/ \E x \in Setups :
          PatchesBindings(x) /\ setup[x].c = c /\ n \notin setup[x].seen

(* ... one that was to go: the marker when an update clears it, a secret,   *)
(* a database that is exchanged for another as asked, or because the setup  *)
(* did not take what it found for one: the look had failed or shown the     *)
(* database without its name (helmSetup.ts:606), ...                        *)
Exchanged(c, n) ==
    \/ SelfClears(c) /\ n = Flag
    \/ \E x \in Setups :
          /\ PatchesBindings(x) /\ setup[x].c = c /\ n \in Data
          /\ setup[x].kind = "bind" \/ n \notin setup[x].found
    \/ \E x \in Setups : DeletesSecret(x, c) /\ n = "own"

(* ... or a deploy, which brings its own.                                   *)
Replaces(c) ==
    \/ SelfDeploys(c)
    \/ \E f \in Forms : form[f].c = c /\ (Puts(f) \/ PutsAgain(f))

(* A binding goes only with a deploy, when it was to go, or by a write whose *)
(* reading of the Worker does not have it; what was read is sent back        *)
(* ("replacing any same-name entry of the same type", cloudflareAdmin.ts:500). *)
(* So nothing is lost but by two writers at once, by a reading that failed   *)
(* or did not parse, and by a setup that does not know the database it finds. *)
BindingsSurvive ==
    [][\A c \in Customers : \A n \in worker[c].names \ worker'[c].names :
          Unseen(c, n) \/ Exchanged(c, n) \/ Replaces(c)]_vars
=============================================================================
