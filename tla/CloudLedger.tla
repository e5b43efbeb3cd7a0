---------------------------- MODULE CloudLedger ----------------------------
(***************************************************************************)
(* What the site of open-think shares between the deploy form, the update  *)
(* cron, the manage page and the Stripe webhook: the tables of D1          *)
(* (site/migrations/0002_cloud.sql), and the customers' Workers behind the *)
(* Cloudflare API.  Every customer has an account with one Worker in it;   *)
(* a deployment is a row that names its owner.                             *)
(*                                                                         *)
(* Cloudflare is external: a PUT of a script replaces code and bindings in *)
(* one step and checks the migration tag, as the comments of               *)
(* deployFlow.ts:1186 and helmSetup.ts:1275 describe it.                   *)
(***************************************************************************)
EXTENDS Naturals, FiniteSets

CONSTANTS
    Deployments,   \* ids crypto.randomUUID may mint
    Customers,     \* Stripe customers, each with one Worker
    Owner,         \* the customer whose deploy mints an id
    MaxSha,        \* bundles published, in order: 1 .. MaxSha
    MaxTag,        \* migration tags: 1 .. MaxTag, 0 for none
    MaxToken,      \* Cloudflare API tokens a customer may paste: 1 .. MaxToken
    MaxFaults,     \* failures of the network or of D1
    NoRow,         \* an id without a row
    Scenes         \* the fleets, ladders and budgets a behaviour starts from

ASSUME LedgerAssumption ==
    /\ MaxSha \in Nat \ {0} /\ MaxTag \in Nat
    /\ MaxToken \in Nat \ {0} /\ MaxFaults \in Nat
    /\ Owner \in [Deployments -> Customers]
    /\ NoRow \notin [sha: 0 .. MaxSha, paused: BOOLEAN,
                     token: 1 .. MaxToken, error: BOOLEAN]

VARIABLES
    manifest,  \* the sha of the published manifest
    ladder,    \* the migration tag each bundle ends at, 0 without migrations
    enforced,  \* whether D1 enforces the REFERENCES of the migrations
    row,       \* cloud_deployments
    live,      \* deployments with a manage token that is not revoked
    worker,    \* the Worker of each customer
    accepted,  \* the API tokens each account accepts
    faults,    \* failures still to come
    last,      \* history: the bundle last put on its Worker for a deployment
    doubt      \* history: deployments whose row missed or mixed up a push

ledger == <<manifest, ladder, enforced, row, live, worker, accepted, faults, last, doubt>>
-----------------------------------------------------------------------------
Shas     == 1 .. MaxSha
CfTokens == 1 .. MaxToken
Tags     == 0 .. MaxTag

(* The bindings a customer would miss: the marker HELM_CUSTOM_DEPLOY, one   *)
(* of their own, and what the deploy form and the setup bind.  "DB" is the  *)
(* binding DB to the database named after the Worker, "DB2" the same        *)
(* binding to another one.                                                  *)
Names == {"HELM_CUSTOM_DEPLOY", "own", "DB", "DB2", "WORKSPACE",
          "CF_ACCESS_TEAM_DOMAIN", "CF_ACCESS_AUD"}
Flag  == "HELM_CUSTOM_DEPLOY"

Rows == [sha: 0 .. MaxSha, paused: BOOLEAN, token: CfTokens, error: BOOLEAN]

Scripts == [code: {"none", "bundle", "custom"}, sha: 0 .. MaxSha,
            names: SUBSET Names, tag: Tags]

NoScript == [code |-> "none", sha |-> 0, names |-> {}, tag |-> 0]

LedgerTypeOK ==
    /\ \E n \in Shas : ladder \in [1 .. n -> Tags]
    /\ manifest \in DOMAIN ladder
    /\ enforced \in BOOLEAN
    /\ row \in [Deployments -> Rows \cup {NoRow}]
    /\ live \in SUBSET Deployments
    /\ worker \in [Customers -> Scripts]
    /\ accepted \in [Customers -> SUBSET CfTokens]
    /\ faults \in 0 .. MaxFaults
    /\ last \in [Deployments -> 0 .. MaxSha]
    /\ doubt \in SUBSET Deployments
-----------------------------------------------------------------------------
Exists(d) == row[d] # NoRow

(* A script is sent with the tag its bundle ends at and no old_tag: it is   *)
(* refused when the Worker is already at a tag.                             *)
TagRefused(c, sha) == ladder[sha] # 0 /\ worker[c].tag # 0

(* What the account holds after a PUT that is let through.                  *)
Put(c, sha, names) ==
    [worker EXCEPT ![c] =
        [code |-> "bundle", sha |-> sha, names |-> names,
         tag |-> IF ladder[sha] = 0 THEN @.tag ELSE ladder[sha]]]

(* The fleet as earlier deploys left it: each on the first bundle, with a   *)
(* manage token, its Worker bound to its database and to something of the   *)
(* customer's own.                                                          *)
LedgerInit(s) ==
    /\ manifest = 1
    /\ ladder = s.ladder
    /\ enforced \in BOOLEAN
    /\ row = [d \in Deployments |->
                IF d \in s.fleet
                THEN [sha |-> 1, paused |-> FALSE, token |-> 1, error |-> FALSE]
                ELSE NoRow]
    /\ live = s.fleet
    /\ last = [d \in Deployments |-> IF d \in s.fleet THEN 1 ELSE 0]
    /\ worker = [c \in Customers |->
                    IF \E d \in s.fleet : Owner[d] = c
                    THEN [code |-> "bundle", sha |-> 1, names |-> {"own", "DB"},
                          tag |-> s.ladder[1]]
                    ELSE NoScript]
    /\ accepted = [c \in Customers |-> s.tokens]
    /\ faults = s.faults
    /\ doubt = {}

(* One failure less to come.                                                *)
Fault == faults > 0 /\ faults' = faults - 1
=============================================================================
