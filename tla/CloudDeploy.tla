---------------------------- MODULE CloudDeploy ----------------------------
(***************************************************************************)
(* How a subscriber gets a deployment: Stripe's webhook                    *)
(* (site/src/payments/stripe.ts), the checkout session exchanged for a     *)
(* cookie (site/src/cloud/sessions.ts), and the deploy form                *)
(* (site/src/index.ts, cloud/deployFlow.ts, cloud/cfApi.ts), which sets up *)
(* what the account lacks, puts the bundle on the Worker and only then     *)
(* writes the ledger.                                                      *)
(*                                                                         *)
(* A step of a deploy is one call of Cloudflare or of D1, with its answer. *)
(* An answer that is lost throws through runDeploy: FormDies.  The gateway *)
(* and the poll for strict mode change nothing that is read again here.    *)
(***************************************************************************)
EXTENDS CloudLedger

CONSTANTS
    Forms,       \* deploy requests that may be under way at a time
    MaxTries,    \* deploy requests of a customer
    Email,       \* the address of each customer
    NoForm,      \* nobody's form
    Unclaimed    \* a checkout session nobody has exchanged

Kinds  == {"checkout", "updated", "canceled"}
Events == Kinds \X Customers

ASSUME DeployAssumption ==
    /\ MaxTries \in Nat
    /\ NoForm \notin Customers /\ NoForm \notin Deployments
    /\ Unclaimed \notin Deployments

VARIABLES
    customers,  \* rows of the table customers
    subs,       \* the status in the table subscriptions
    hook,       \* the two deliveries of each of Stripe's events
    recorded,   \* rows of webhook_events
    processed,  \* those with processed_ok = 1
    applied,    \* history: how often an event was dispatched
    claim,      \* the claim of the customer's checkout session
    cookie,     \* customers whose browser holds a valid intent cookie
    form,       \* what each deploy request is at
    tries,      \* deploy requests still to come, by customer
    d1, bucket, app, policy,  \* what exists in the accounts
    minted,     \* ids that were given out
    told        \* deployments whose manage link was answered

paying    == <<customers, subs, hook, recorded, processed, applied>>
accounts  == <<d1, bucket, app, policy>>
deploying == <<paying, claim, cookie, form, tries, accounts, minted, told>>
-----------------------------------------------------------------------------
Unbound == NoForm    \* a claim without a deployment yet

Formed == [pc: {"idle", "verify", "d1", "extras", "put", "again", "secrets", "app",
                "policy", "aud", "insert", "log", "seed", "link", "bind", "answer"},
           c: Customers \cup {NoForm}, key: 0 .. MaxToken, persist: BOOLEAN,
           stream: BOOLEAN, names: SUBSET Names,
           sha: 0 .. MaxSha, tag: Tags, d: Deployments \cup {NoForm}]
NoDeploy == [pc |-> "idle", c |-> NoForm, key |-> 0, persist |-> FALSE,
             stream |-> FALSE, names |-> {}, sha |-> 0,
             tag |-> 0, d |-> NoForm]

(* The types, and: however often Stripe delivers an event, and however two  *)
(* deliveries interleave, it is dispatched at most once, "only               *)
(* record/process each event once" (stripe.ts:228), and marked processed    *)
(* only when it was.                                                        *)
DeployTypeOK ==
    /\ customers \in SUBSET Customers
    /\ subs \in [Customers -> {"none", "active", "canceled"}]
    /\ hook \in [Events \X {1, 2} -> {"off", "due", "new", "apply", "mark", "ok", "failed"}]
    /\ recorded \in SUBSET Events
    /\ applied \in [Events -> 0 .. 1]
    /\ processed \subseteq {e \in recorded : applied[e] = 1}
    /\ claim \in [Customers -> Deployments \cup {Unclaimed, Unbound}]
    /\ cookie \in SUBSET Customers
    /\ form \in [Forms -> Formed]
    /\ tries \in [Customers -> 0 .. MaxTries]
    /\ d1 \in SUBSET Customers /\ bucket \in SUBSET Customers
    /\ app \in SUBSET Customers /\ policy \in SUBSET app
    /\ minted \in SUBSET Deployments
    /\ told \in SUBSET minted

DeployInit(s) ==
    /\ customers = s.known
    /\ subs = [c \in Customers |-> "none"]
    /\ hook = [x \in Events \X {1, 2} |-> IF x[1] \in s.events THEN "due" ELSE "off"]
    /\ recorded = {} /\ processed = {}
    /\ applied = [e \in Events |-> 0]
    /\ claim = [c \in Customers |-> Unclaimed]
    /\ cookie = {}
    /\ form = [f \in Forms |-> NoDeploy]
    /\ tries = s.tries
    /\ d1 = {Owner[d] : d \in s.fleet} /\ bucket = {} /\ app = {} /\ policy = {}
    /\ minted = s.fleet
    /\ told = s.fleet
-----------------------------------------------------------------------------
(***************************************************************************)
(* The webhook.  Stripe may deliver an event twice, at once or in turn.    *)
(***************************************************************************)

(* handleWebhook looks the event up; one that is there is answered as done. *)
Looks(e, n) ==
    /\ hook[<<e, n>>] = "due"
    /\ hook' = [hook EXCEPT ![<<e, n>>] = IF e \in recorded THEN "ok" ELSE "new"]
    /\ UNCHANGED <<ledger, customers, subs, recorded, processed, applied,
                   claim, cookie, form, tries, accounts, minted, told>>

\* Mutation: INSERT OR IGNORE.
EntersAnyway(e, n) ==
    /\ hook[<<e, n>>] = "new"
    /\ hook' = [hook EXCEPT ![<<e, n>>] = "apply"]
    /\ recorded' = recorded \cup {e}
    /\ UNCHANGED <<ledger, customers, subs, processed, applied,
                   claim, cookie, form, tries, accounts, minted, told>>

(* The INSERT takes the event's id as its key, so the second of two that    *)
(* looked at once fails there.                                              *)
Enters(e, n) ==
    /\ hook[<<e, n>>] = "new"
    /\ hook' = [hook EXCEPT ![<<e, n>>] = IF e \in recorded THEN "failed" ELSE "apply"]
    /\ recorded' = recorded \cup {e}
    /\ UNCHANGED <<ledger, customers, subs, processed, applied,
                   claim, cookie, form, tries, accounts, minted, told>>

(* Whether the row an event wants to write has its customer.                *)
Referred(c) == enforced => c \in customers

(* dispatch: the customer is entered unless its id or its address is there; *)
(* a subscription is written or rewritten; one that was deleted pauses the  *)
(* customer's deployments, and when that fails nobody is told.              *)
Applies(e, n) ==
    /\ hook[<<e, n>>] = "apply"
    /\ LET c == e[2]
       IN  \/ /\ e[1] = "checkout"
              /\ customers' = IF \E k \in customers : Email[k] = Email[c]
                              THEN customers ELSE customers \cup {c}
              /\ UNCHANGED <<subs, row, faults>>
           \/ /\ e[1] = "updated" /\ Referred(c)
              /\ subs' = [subs EXCEPT ![c] = "active"]
              /\ UNCHANGED <<customers, row, faults>>
           \/ /\ e[1] = "canceled"
              /\ subs' = [subs EXCEPT ![c] = IF @ = "none" THEN @ ELSE "canceled"]
              /\ UNCHANGED customers
              /\ \/ /\ row' = [d \in Deployments |->
                                  IF Exists(d) /\ Owner[d] = c
                                  THEN [row[d] EXCEPT !.paused = TRUE] ELSE row[d]]
                    /\ UNCHANGED faults
                 \/ Fault /\ UNCHANGED row
    /\ applied' = [applied EXCEPT ![e] = @ + 1]
    /\ hook' = [hook EXCEPT ![<<e, n>>] = "mark"]
    /\ UNCHANGED <<manifest, ladder, enforced, live, worker, accepted, last, doubt,
                   recorded, processed, claim, cookie, form, tries, accounts, minted, told>>

(* D1 fails, or refuses a row without its customer: answered 500.           *)
ApplyFails(e, n) ==
    /\ hook[<<e, n>>] = "apply"
    /\ \/ Fault
       \/ e[1] = "updated" /\ ~Referred(e[2]) /\ UNCHANGED faults
    /\ hook' = [hook EXCEPT ![<<e, n>>] = "failed"]
    /\ UNCHANGED <<manifest, ladder, enforced, row, live, worker, accepted, last, doubt,
                   customers, subs, recorded, processed, applied,
                   claim, cookie, form, tries, accounts, minted, told>>

Marks(e, n) ==
    /\ hook[<<e, n>>] = "mark"
    /\ hook' = [hook EXCEPT ![<<e, n>>] = "ok"]
    /\ processed' = processed \cup {e}
    /\ UNCHANGED <<ledger, customers, subs, recorded, applied,
                   claim, cookie, form, tries, accounts, minted, told>>
-----------------------------------------------------------------------------
(***************************************************************************)
(* The checkout session.                                                   *)
(***************************************************************************)

(* A paid session is exchanged for the intent cookie; the first exchange    *)
(* claims it.                                                               *)
Exchanges(c) ==
    /\ tries[c] > 0 /\ c \notin cookie
    /\ cookie' = cookie \cup {c}
    /\ claim' = [claim EXCEPT ![c] = IF @ = Unclaimed THEN Unbound ELSE @]
    /\ UNCHANGED <<ledger, paying, form, tries, accounts, minted, told>>

CookieExpires(c) ==
    /\ c \in cookie
    /\ cookie' = cookie \ {c}
    /\ UNCHANGED <<ledger, paying, claim, form, tries, accounts, minted, told>>
-----------------------------------------------------------------------------
(***************************************************************************)
(* The deploy form.                                                        *)
(***************************************************************************)
Moves(f, pc) == form' = [form EXCEPT ![f].pc = pc]

(* A request under way, at one of its calls.                                *)
At(f, pc) == form[f].pc = pc

Held(f) == form[f].key \in accepted[form[f].c]

(* A request for persistence is heard when its cookie verifies; otherwise   *)
(* the deploy goes on without.                                              *)
FormArrives(f, c) ==
    /\ At(f, "idle") /\ tries[c] > 0 /\ tries' = [tries EXCEPT ![c] = @ - 1]
    /\ \E key \in CfTokens, stream \in BOOLEAN :
         form' = [form EXCEPT ![f] = [NoDeploy EXCEPT !.pc = "verify", !.c = c,
                     !.key = key, !.persist = (c \in cookie), !.stream = stream]]
    /\ UNCHANGED <<ledger, paying, claim, cookie, accounts, minted, told>>

(* A token that is rejected ends the deploy.                                *)
Verifies(f) ==
    /\ At(f, "verify")
    /\ form' = [form EXCEPT ![f] = IF Held(f) THEN [@ EXCEPT !.pc = "d1"] ELSE NoDeploy]
    /\ UNCHANGED <<ledger, paying, claim, cookie, tries, accounts, minted, told>>

(* ensureD1Database: created, or found by its name.                         *)
EnsuresD1(f) ==
    /\ At(f, "d1") /\ Held(f)
    /\ d1' = d1 \cup {form[f].c}
    /\ form' = [form EXCEPT ![f].pc = "extras", ![f].names = @ \cup {"DB"}]
    /\ UNCHANGED <<ledger, paying, claim, cookie, tries, bucket, app, policy, minted, told>>

(* No database, no deploy: the one provisioning error that is fatal.        *)
D1Refused(f) ==
    /\ At(f, "d1")
    /\ \/ ~Held(f) /\ UNCHANGED faults
       \/ Fault
    /\ form' = [form EXCEPT ![f] = NoDeploy]
    /\ UNCHANGED <<manifest, ladder, enforced, row, live, worker, accepted, last, doubt,
                   paying, claim, cookie, tries, accounts, minted, told>>

(* The team domain and the bucket are best effort: each may be skipped with *)
(* a warning.  Then the manifest is fetched.                                *)
Extras(f) ==
    /\ At(f, "extras")
    /\ LET c == form[f].c
       IN  \/ /\ Held(f) /\ UNCHANGED faults
              /\ bucket' = bucket \cup {c}
              /\ form' = [form EXCEPT ![f].pc = "put", ![f].sha = manifest,
                             ![f].names = @ \cup {"CF_ACCESS_TEAM_DOMAIN", "WORKSPACE"}]
           \/ /\ Held(f) /\ Fault    \* one of the two is skipped
              /\ \/ /\ bucket' = bucket \cup {c}
                    /\ form' = [form EXCEPT ![f].pc = "put", ![f].sha = manifest,
                                            ![f].names = @ \cup {"WORKSPACE"}]
                 \/ /\ UNCHANGED bucket
                    /\ form' = [form EXCEPT ![f].pc = "put", ![f].sha = manifest,
                                    ![f].names = @ \cup {"CF_ACCESS_TEAM_DOMAIN"}]
           \/ /\ ~Held(f) /\ UNCHANGED <<bucket, faults>>
              /\ form' = [form EXCEPT ![f].pc = "put", ![f].sha = manifest]
    /\ UNCHANGED <<manifest, ladder, enforced, row, live, worker, accepted, last, doubt,
                   paying, claim, cookie, tries, d1, app, policy, minted, told>>

(* Without the Worker the rest of the deploy is the ledger: the customer    *)
(* gets wrangler.toml and the commands.                                     *)
Undeployed(f) ==
    form' = [form EXCEPT ![f].sha = 0,
                         ![f].pc = IF form[f].persist THEN "insert" ELSE "answer"]

(* The bindings of a deploy are what it composed and nothing that was there. *)
Puts(f) ==
    /\ At(f, "put") /\ Held(f) /\ ~TagRefused(form[f].c, form[f].sha)
    /\ worker' = Put(form[f].c, form[f].sha, form[f].names)
    /\ Moves(f, "secrets")
    /\ UNCHANGED <<manifest, ladder, enforced, row, live, accepted, faults, last, doubt,
                   paying, claim, cookie, tries, accounts, minted, told>>

(* A refusal for the migration tag names the tag the Worker is at ...       *)
PutMeetsTag(f) ==
    /\ At(f, "put") /\ Held(f) /\ TagRefused(form[f].c, form[f].sha)
    /\ form' = [form EXCEPT ![f].pc = "again", ![f].tag = worker[form[f].c].tag]
    /\ UNCHANGED <<ledger, paying, claim, cookie, tries, accounts, minted, told>>

(* ... and the second attempt sends no migrations when that is the tag they *)
(* end at, and the diff from that tag otherwise.                            *)
PutsAgain(f) ==
    /\ At(f, "again") /\ Held(f)
    /\ \/ form[f].tag = ladder[form[f].sha]
       \/ form[f].tag = worker[form[f].c].tag
    /\ worker' = [Put(form[f].c, form[f].sha, form[f].names) EXCEPT
                    ![form[f].c].tag = IF form[f].tag = ladder[form[f].sha]
                                       THEN worker[form[f].c].tag ELSE @]
    /\ Moves(f, "secrets")
    /\ UNCHANGED <<manifest, ladder, enforced, row, live, accepted, faults, last, doubt,
                   paying, claim, cookie, tries, accounts, minted, told>>

(* The manifest, the bundle or the upload fails.                            *)
PutFails(f) ==
    /\ \/ At(f, "put") /\ ~Held(f) /\ UNCHANGED faults
       \/ (At(f, "put") \/ At(f, "again")) /\ Fault
       \/ At(f, "again") /\ UNCHANGED faults
          /\ \/ ~Held(f)
             \/ form[f].tag # ladder[form[f].sha] /\ form[f].tag # worker[form[f].c].tag
    /\ Undeployed(f)
    /\ UNCHANGED <<manifest, ladder, enforced, row, live, worker, accepted, last, doubt,
                   paying, claim, cookie, tries, accounts, minted, told>>

(* What comes after the secrets, and after Access.                          *)
Persisting(f) == IF form[f].persist THEN "insert" ELSE "answer"

(* The secrets of the form, one by one; a failure does not stop the loop.   *)
SetsSecrets(f) ==
    /\ At(f, "secrets")
    /\ \/ /\ Held(f) /\ UNCHANGED faults
          /\ worker' = [worker EXCEPT ![form[f].c].names = @ \cup {"own"}]
       \/ /\ \/ ~Held(f) /\ UNCHANGED faults
             \/ Fault
          /\ UNCHANGED worker
    /\ Moves(f, IF "CF_ACCESS_TEAM_DOMAIN" \in form[f].names THEN "app" ELSE Persisting(f))
    /\ UNCHANGED <<manifest, ladder, enforced, row, live, accepted, last, doubt,
                   paying, claim, cookie, tries, accounts, minted, told>>

(* ensureAccessApp: an app that exists is taken over as it is, and no       *)
(* policy is attached to it.                                                *)
EnsuresApp(f) ==
    /\ At(f, "app")
    /\ LET c == form[f].c
       IN  \/ /\ Held(f) /\ UNCHANGED faults
              /\ app' = app \cup {c}
              /\ Moves(f, IF c \in app THEN "aud" ELSE "policy")
           \/ /\ \/ ~Held(f) /\ UNCHANGED faults
                 \/ Fault
              /\ UNCHANGED app
              /\ Moves(f, Persisting(f))
    /\ UNCHANGED <<manifest, ladder, enforced, row, live, worker, accepted, last, doubt,
                   paying, claim, cookie, tries, d1, bucket, policy, minted, told>>

AttachesPolicy(f) ==
    /\ At(f, "policy")
    /\ \/ /\ Held(f) /\ policy' = policy \cup {form[f].c}
          /\ UNCHANGED faults
       \/ /\ \/ ~Held(f) /\ UNCHANGED faults
             \/ Fault
          /\ UNCHANGED policy
    /\ Moves(f, "aud")
    /\ UNCHANGED <<manifest, ladder, enforced, row, live, worker, accepted, last, doubt,
                   paying, claim, cookie, tries, d1, bucket, app, minted, told>>

(* The aud of the app becomes a secret of the Worker.                       *)
SetsAud(f) ==
    /\ At(f, "aud")
    /\ \/ /\ Held(f) /\ UNCHANGED faults
          /\ worker' = [worker EXCEPT ![form[f].c].names = @ \cup {"CF_ACCESS_AUD"}]
       \/ /\ \/ ~Held(f) /\ UNCHANGED faults
             \/ Fault
          /\ UNCHANGED worker
    /\ Moves(f, Persisting(f))
    /\ UNCHANGED <<manifest, ladder, enforced, row, live, accepted, last, doubt,
                   paying, claim, cookie, tries, accounts, minted, told>>
-----------------------------------------------------------------------------
(***************************************************************************)
(* The ledger of a deploy that is to be kept up to date.                   *)
(***************************************************************************)

(* insertDeployment, with the sha that was deployed.                        *)
Inserts(f) ==
    /\ At(f, "insert") /\ Referred(form[f].c)
    /\ \E d \in Deployments \ minted :
         /\ Owner[d] = form[f].c
         /\ row' = [row EXCEPT ![d] = [sha |-> form[f].sha, paused |-> FALSE,
                                       token |-> form[f].key, error |-> FALSE]]
         /\ last' = [last EXCEPT ![d] = form[f].sha]
         /\ minted' = minted \cup {d}
         /\ form' = [form EXCEPT ![f].pc = "log", ![f].d = d]
    /\ UNCHANGED <<manifest, ladder, enforced, live, worker, accepted, faults, doubt,
                   paying, claim, cookie, tries, accounts, told>>

(* The entry of the log; the row is written again only if a bundle was put. *)
Logs(f) ==
    /\ At(f, "log")
    /\ Moves(f, IF form[f].sha = 0 THEN "link" ELSE "seed")
    /\ UNCHANGED <<ledger, paying, claim, cookie, tries, accounts, minted, told>>

(* recordPushSuccess seeds the row, which a push may have changed since.    *)
Seeds(f) ==
    /\ At(f, "seed")
    /\ LET d == form[f].d
       IN  /\ row' = [row EXCEPT ![d].sha = form[f].sha, ![d].error = FALSE]
           /\ doubt' = IF last[d] = form[f].sha THEN doubt ELSE doubt \cup {d}
    /\ Moves(f, "link")
    /\ UNCHANGED <<manifest, ladder, enforced, live, worker, accepted, faults, last,
                   paying, claim, cookie, tries, accounts, minted, told>>

Links(f) ==
    /\ At(f, "link")
    /\ live' = live \cup {form[f].d}
    /\ Moves(f, "bind")
    /\ UNCHANGED <<manifest, ladder, enforced, row, worker, accepted, faults, last, doubt,
                   paying, claim, cookie, tries, accounts, minted, told>>

\* Mutation: the answer keeps the id of the row.
PersistFailsKept(f) ==
    /\ form[f].pc \in {"log", "seed", "link"} /\ Fault
    /\ Moves(f, "answer")
    /\ UNCHANGED <<manifest, ladder, enforced, row, live, worker, accepted, last, doubt,
                   paying, claim, cookie, tries, accounts, minted, told>>

(* Any of these fails: the deploy is answered as done, without a link.      *)
PersistFails(f) ==
    /\ form[f].pc \in {"insert", "log", "seed", "link"}
    /\ \/ Fault
       \/ /\ UNCHANGED faults
          /\ At(f, "insert") /\ ~Referred(form[f].c)
    /\ form' = [form EXCEPT ![f].pc = "answer", ![f].d = NoForm]
    /\ UNCHANGED <<manifest, ladder, enforced, row, live, worker, accepted, last, doubt,
                   paying, claim, cookie, tries, accounts, minted, told>>

(* bindClaimToDeployment, for a claim that is not bound; a cookie that has  *)
(* expired meanwhile, or a failure, leaves it unbound.                      *)
Bound(c, d) == IF claim[c] = Unbound THEN [claim EXCEPT ![c] = d] ELSE claim

Binds(f) ==
    /\ At(f, "bind")
    /\ claim' \in {Bound(form[f].c, form[f].d), claim}
    /\ Moves(f, "answer")
    /\ UNCHANGED <<ledger, paying, cookie, tries, accounts, minted, told>>

(* The answer carries the manage link; only a streamed one keeps the cookie. *)
Answers(f) ==
    /\ At(f, "answer")
    /\ LET d == form[f].d
       IN  IF d = NoForm THEN UNCHANGED <<cookie, told>>
           ELSE /\ told' = told \cup {d}
                /\ cookie' = IF form[f].stream THEN cookie ELSE cookie \ {form[f].c}
    /\ form' = [form EXCEPT ![f] = NoDeploy]
    /\ UNCHANGED <<ledger, paying, claim, tries, accounts, minted>>

(* A lost answer throws, or the request is evicted: nothing is undone.      *)
FormDies(f) ==
    /\ ~At(f, "idle") /\ Fault
    /\ form' = [form EXCEPT ![f] = NoDeploy]
    /\ UNCHANGED <<manifest, ladder, enforced, row, live, worker, accepted, last, doubt,
                   paying, claim, cookie, tries, accounts, minted, told>>
-----------------------------------------------------------------------------
WebhookStep ==
    \E e \in Events, n \in {1, 2} :
        Looks(e, n) \/ Enters(e, n) \/ Applies(e, n) \/ ApplyFails(e, n) \/ Marks(e, n)

FormStep(f) ==
    \/ Verifies(f) \/ EnsuresD1(f) \/ D1Refused(f) \/ Extras(f)
    \/ Puts(f) \/ PutMeetsTag(f) \/ PutsAgain(f) \/ PutFails(f)
    \/ SetsSecrets(f) \/ EnsuresApp(f) \/ AttachesPolicy(f) \/ SetsAud(f)
    \/ Inserts(f) \/ Logs(f) \/ Seeds(f) \/ Links(f) \/ PersistFails(f)
    \/ Binds(f) \/ Answers(f) \/ FormDies(f)
    \/ \E c \in Customers : FormArrives(f, c)

DeployNext ==
    \/ WebhookStep
    \/ \E c \in Customers : Exchanges(c) \/ CookieExpires(c)
    \/ \E f \in Forms : FormStep(f)
-----------------------------------------------------------------------------
(***************************************************************************)
(* Properties.                                                             *)
(***************************************************************************)

(* A customer who was given a manage link has a deployment behind it, with  *)
(* a link that works, until that link is revoked or has run out: the answer *)
(* comes after the last of the writes, and a failure of one of them takes   *)
(* the link out of it (deployFlow.ts:798-840).                              *)
ToldIsManaged(ended) ==
    \A d \in told \ ended : Exists(d) /\ d \in live
=============================================================================
