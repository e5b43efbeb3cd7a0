-------------------------- MODULE HelmCloudProofs --------------------------
(***************************************************************************)
(* The theorems about Helm Cloud, for any number of deployments, customers *)
(* and requests of each kind, and any failures.                            *)
(***************************************************************************)
EXTENDS HelmCloud, TLAPS

(* The bindings of a Worker, or those somebody has read of one.             *)
Safe(names) == names \subseteq Names /\ ~(Data \subseteq names)

(* What stands for itself.                                                  *)
PlainOK ==
    /\ edits \in 0 .. MaxEdits /\ acts \in 0 .. MaxSelf
    /\ customers \in SUBSET Customers
    /\ subs \in [Customers -> {"none", "active", "canceled"}]
    /\ claim \in [Customers -> Deployments \cup {Unclaimed, Unbound}]
    /\ cookie \in SUBSET Customers
    /\ tries \in [Customers -> 0 .. MaxTries]

\* The site: the manifest names a bundle that was published.
SiteOK ==
    /\ \E n \in Shas : ladder \in [1 .. n -> Tags]
    /\ manifest \in DOMAIN ladder
    /\ enforced \in BOOLEAN
    /\ accepted \in [Customers -> SUBSET CfTokens]
    /\ faults \in 0 .. MaxFaults

\* The accounts of the customers: a policy hangs on an application.
AccountsOK ==
    /\ d1 \in SUBSET Customers /\ bucket \in SUBSET Customers
    /\ app \in SUBSET Customers /\ policy \in SUBSET app

\* No Worker holds both of the database bindings.
WorkersOK ==
    /\ worker \in [Customers -> Scripts]
    /\ \A c \in Customers : Safe(worker[c].names)

(* The rows, and what was told of them.                                     *)
RowsOK ==
    /\ row \in [Deployments -> Rows \cup {NoRow}]
    /\ last \in [Deployments -> 0 .. MaxSha]
    /\ live \in SUBSET Deployments /\ doubt \in SUBSET Deployments
    /\ minted \in SUBSET Deployments /\ gone \in SUBSET minted
    /\ told \in SUBSET minted
    /\ \A d \in Deployments : Exists(d) => d \in minted
    /\ \A d \in live : Exists(d)
    /\ \A d \in told : d \in live \cup gone

(* What an owner has asked: of a row that stays while the request is under  *)
(* way, whether or not its link runs out meanwhile; a row is deleted after  *)
(* its link.                                                                *)
AskOK ==
    /\ ask \in Asks \cup {NoAsk}
    /\ ask.act \in {"pause", "resume", "rotate", "revoke"} =>
          Exists(ask.d) /\ ask.d \in live \cup gone
    /\ ask.act = "delete" => ask.d \in gone /\ ask.d \notin live

(* What a run knows in each of its phases: what it has listed was once      *)
(* minted, and what it reads of a Worker it forgets when it goes on.        *)
RunOK(r) ==
    /\ r \in Runs
    /\ r.pc \in {"get", "list", "next", "upload", "record"} => r.sha \in DOMAIN ladder
    /\ r.pc \in {"gate", "fetch", "get", "upload", "record"} => r.d \in minted
    /\ r.todo \subseteq minted
    /\ r.pc \in {"upload", "record"} => r.d \in r.todo
    /\ r.pc \notin {"upload", "record"} => r.seen = {}
    /\ Safe(r.seen)

\* The runs; a cron that is to upload saw no marker.
RunsOK ==
    /\ run \in [Pushers -> Runs]
    /\ \A p \in Pushers : RunOK(run[p])
    /\ \A p \in Crons : run[p].pc = "upload" => Flag \notin run[p].seen

(* A paused deployment that a cron is still to visit was listed before the  *)
(* pause.                                                                   *)
EarlyOK ==
    /\ early \in [Crons -> SUBSET Deployments]
    /\ \A p \in Crons : \A d \in run[p].todo :
          Exists(d) /\ row[d].paused => d \in early[p]

(* A push that awaits its record is the last one or its deployment is in    *)
(* doubt, and so it is when two pushes await theirs. The ledger by itself   *)
(* is not inductive: a record makes the row say what its run has pushed.    *)
PushesOK ==
    /\ \A p \in Pushers : run[p].pc = "record" =>
          last[run[p].d] = run[p].sha \/ run[p].d \in doubt
    /\ \A p, q \in Pushers :
          p # q /\ run[p].pc = "record" /\ run[q].pc = "record" /\ run[p].d = run[q].d
              => run[p].d \in doubt
    /\ LedgerIsLastPush

\* What an agent that updates itself knows.
SelfOK(r) ==
    /\ r \in Selves
    /\ r.pc \in {"read", "put"} => r.sha \in DOMAIN ladder
    /\ Safe(r.seen)

\* All of them.
SelvesOK == self \in [Customers -> Selves] /\ \A c \in Customers : SelfOK(self[c])

(* An event is applied by the one delivery that entered it, once, and is    *)
(* marked after that.                                                       *)
HookOK(e) ==
    /\ applied[e] \in 0 .. 1
    /\ applied[e] = 1 => e \in recorded
    /\ \A n \in {1, 2} :
          /\ hook[<<e, n>>] = "apply" =>
                /\ e \in recorded /\ applied[e] = 0
                /\ \A m \in {1, 2} \ {n} : hook[<<e, m>>] # "apply"
          /\ hook[<<e, n>>] = "mark" => applied[e] = 1

\* All the events.
HooksOK ==
    /\ hook \in [Events \X {1, 2} -> {"off", "due", "new", "apply", "mark", "ok", "failed"}]
    /\ recorded \in SUBSET Events
    /\ applied \in [Events -> 0 .. 1]
    /\ processed \subseteq {e \in recorded : applied[e] = 1}
    /\ \A e \in Events : HookOK(e)

(* What a form knows in each of its phases: it holds a row from the insert  *)
(* on, the row has no link until the form issues one, and had one when the  *)
(* form is answered.                                                        *)
FormOK(r) ==
    /\ r \in Formed
    /\ r.names \subseteq Names \ {"DB2"}
    /\ r.pc # "idle" => r.c \in Customers /\ r.key \in CfTokens
    /\ r.pc \in {"put", "again"} => r.sha \in DOMAIN ladder
    /\ r.pc \notin {"log", "seed", "link", "bind", "answer"} => r.d = NoForm
    /\ r.pc \in {"log", "seed", "link"} =>
          r.d \in minted /\ Exists(r.d) /\ r.d \notin live \cup gone
    /\ r.pc \in {"bind", "answer"} /\ r.d # NoForm => r.d \in minted /\ r.d \in live \cup gone
    /\ r.pc = "bind" => r.d # NoForm
    /\ r.pc = "policy" => r.c \in app

\* No two forms hold the same row.
FormsOK ==
    /\ form \in [Forms -> Formed]
    /\ \A f \in Forms : FormOK(form[f])
    /\ \A f, g \in Forms : f # g /\ form[f].d = form[g].d => form[f].d = NoForm

(* What a setup knows in each of its phases: it has found a database only   *)
(* if it is about to exchange that one.                                     *)
KitOK(k) ==
    /\ k \in Kits
    /\ k.pc \notin {"off", "idle", "done"} => k.c \in Customers
    /\ k.pc \in {"read", "patch"} => k.what \in Names
    /\ Safe(k.seen)
    /\ k.pc \in {"idle", "team", "app", "policy", "domain", "aud", "emails",
                 "token", "bucket", "look", "create"} => k.found = {}
    /\ k.found # {} /\ k.what \in Data => k.found = {k.what}
    /\ k.pc = "policy" => k.c \in app

\* All of them.
KitsOK == setup \in [Setups -> Kits] /\ \A x \in Setups : KitOK(setup[x])

\* The inductive invariant of Helm Cloud.
HelmInv ==
    /\ PlainOK /\ SiteOK /\ AccountsOK /\ WorkersOK /\ RowsOK /\ AskOK /\ RunsOK
    /\ EarlyOK /\ PushesOK /\ SelvesOK /\ HooksOK /\ FormsOK /\ KitsOK
-----------------------------------------------------------------------------
\* Each part depends on few of the variables: the plain values,
LEMMA PlainStays ==
    ASSUME PlainOK, UNCHANGED <<edits, acts, customers, subs, claim, cookie, tries>>
    PROVE  PlainOK'
BY DEF PlainOK

\* the site,
LEMMA SiteStays ==
    ASSUME SiteOK, UNCHANGED <<manifest, ladder, enforced, accepted, faults>>
    PROVE  SiteOK'
BY DEF SiteOK

\* the accounts,
LEMMA AccountsStays ==
    ASSUME AccountsOK, UNCHANGED <<accounts>>
    PROVE  AccountsOK'
BY DEF AccountsOK, accounts

\* the Workers,
LEMMA WorkersStays ==
    ASSUME WorkersOK, UNCHANGED <<worker>>
    PROVE  WorkersOK'
BY DEF WorkersOK

\* the rows,
LEMMA RowsStays ==
    ASSUME RowsOK, UNCHANGED <<row, last, live, doubt, minted, gone, told>>
    PROVE  RowsOK'
BY DEF RowsOK, Exists

\* the request of an owner,
LEMMA AskKept ==
    ASSUME AskOK, UNCHANGED <<ask, live, gone>>,
           \A d \in Deployments : Exists(d) => Exists(d)'
    PROVE  AskOK'
<1>1. ask # NoAsk => ask.d \in Deployments
  BY DEF AskOK, Asks
<1>2. ask = NoAsk => ask.act = "none"
  BY DEF NoAsk
<1> QED BY <1>1, <1>2 DEF AskOK

\* above all when no row is written,
LEMMA AskStays ==
    ASSUME AskOK, UNCHANGED <<ask, row, live, gone>>
    PROVE  AskOK'
BY AskKept DEF Exists

\* the runs,
LEMMA RunsStays ==
    ASSUME RunsOK, UNCHANGED <<run, ladder, minted>>
    PROVE  RunsOK'
BY DEF RunsOK, RunOK

\* what they listed early,
LEMMA EarlyStays ==
    ASSUME EarlyOK, UNCHANGED <<early, run, row>>
    PROVE  EarlyOK'
BY DEF EarlyOK, Exists

\* the pushes,
LEMMA PushesStays ==
    ASSUME PushesOK, UNCHANGED <<run, row, last, doubt>>
    PROVE  PushesOK'
BY DEF PushesOK, LedgerIsLastPush, Exists

\* the agents,
LEMMA SelvesStays ==
    ASSUME SelvesOK, UNCHANGED <<self, ladder>>
    PROVE  SelvesOK'
BY DEF SelvesOK, SelfOK

\* the events,
LEMMA HooksStays ==
    ASSUME HooksOK, UNCHANGED <<hook, recorded, applied, processed>>
    PROVE  HooksOK'
BY DEF HooksOK, HookOK

\* the forms,
LEMMA FormsStays ==
    ASSUME FormsOK, UNCHANGED <<form, ladder, minted, row, live, gone, app>>
    PROVE  FormsOK'
BY DEF FormsOK, FormOK, Exists

\* and the setups.
LEMMA KitsStays ==
    ASSUME KitsOK, UNCHANGED <<setup, app>>
    PROVE  KitsOK'
BY DEF KitsOK, KitOK

\* The invariant holds at first, in every scene.
LEMMA HelmInitially == Init => HelmInv
<1> SUFFICES ASSUME NEW s \in Scenes, LedgerInit(s), UpdatesInit(s), DeployInit(s), SetupInit(s)
             PROVE  HelmInv
  BY DEF Init
<1> USE LedgerAssumption, UpdatesAssumption, DeployAssumption
<1>a. /\ s.fleet \subseteq Deployments
      /\ \E n \in Shas : s.ladder \in [1 .. n -> Tags]
      /\ s.tokens \subseteq CfTokens /\ s.faults \in 0 .. MaxFaults
      /\ s.edits \in 0 .. MaxEdits /\ s.acts \in 0 .. MaxSelf
      /\ s.known \subseteq Customers /\ s.tries \in [Customers -> 0 .. MaxTries]
  BY ScenesAssumption
<1>b. 1 \in DOMAIN s.ladder /\ s.ladder[1] \in Tags
  BY <1>a DEF Shas
<1>n. Safe({}) /\ Safe({"own", "DB"})
  BY DEF Safe, Names, Data
<1>1. PlainOK
  BY <1>a DEF UpdatesInit, DeployInit, PlainOK
<1>2. SiteOK
  BY <1>a, <1>b DEF LedgerInit, SiteOK
<1>3. AccountsOK
  BY <1>a DEF DeployInit, AccountsOK
<1>4. WorkersOK
  <2>1. NoScript \in Scripts /\ NoScript.names = {}
    BY DEF NoScript, Scripts, Tags
  <2>2. [code |-> "bundle", sha |-> 1, names |-> {"own", "DB"}, tag |-> s.ladder[1]] \in Scripts
    BY <1>b DEF Scripts, Names
  <2> QED BY <1>n, <2>1, <2>2 DEF LedgerInit, WorkersOK
<1>5. RowsOK
  <2>1. [sha |-> 1, paused |-> FALSE, token |-> 1, error |-> FALSE] \in Rows
    BY DEF Rows, CfTokens
  <2>2. row \in [Deployments -> Rows \cup {NoRow}] /\ (\A d \in Deployments : Exists(d) <=> d \in s.fleet)
    BY <2>1 DEF LedgerInit, Exists, Rows, CfTokens
  <2> QED BY <1>a, <2>2 DEF LedgerInit, UpdatesInit, DeployInit, RowsOK
<1>6. AskOK
  BY DEF UpdatesInit, AskOK, NoAsk
<1>7. RunsOK
  <2>1. Idle \in Runs /\ [Idle EXCEPT !.pc = "off"] \in Runs
    BY DEF Idle, Runs, NoKeys
  <2>2. RunOK(Idle) /\ RunOK([Idle EXCEPT !.pc = "off"])
    BY <1>n, <2>1 DEF RunOK, Idle
  <2>3. Idle.pc = "idle" /\ [Idle EXCEPT !.pc = "off"].pc = "off"
    BY DEF Idle
  <2> QED BY <2>1, <2>2, <2>3 DEF UpdatesInit, RunsOK, Pushers
<1>8. \A p \in Pushers : run[p].todo = {} /\ run[p].pc # "record"
  BY DEF UpdatesInit, Idle
<1>9. EarlyOK
  BY <1>8 DEF UpdatesInit, EarlyOK, Pushers
<1>10. PushesOK
  <2>1. \A d \in Deployments : Exists(d) => row[d].sha = last[d]
    BY <1>a DEF LedgerInit, Exists
  <2> QED BY <1>8, <2>1 DEF PushesOK, LedgerIsLastPush
<1>11. SelvesOK
  <2>1. Still \in Selves
    BY DEF Still, Selves
  <2> QED BY <1>n, <2>1 DEF UpdatesInit, SelvesOK, SelfOK, Still
<1>12. HooksOK
  BY DEF DeployInit, HooksOK, HookOK
<1>13. FormsOK
  <2>1. NoDeploy \in Formed
    BY DEF NoDeploy, Formed, Tags
  <2>2. FormOK(NoDeploy)
    BY <2>1 DEF FormOK, NoDeploy
  <2> QED BY <2>1, <2>2 DEF DeployInit, FormsOK, NoDeploy
<1>14. KitsOK
  <2>1. NoKit \in Kits /\ [NoKit EXCEPT !.pc = "off"] \in Kits
    BY DEF NoKit, Kits
  <2>2. KitOK(NoKit) /\ KitOK([NoKit EXCEPT !.pc = "off"])
    BY <1>n, <2>1 DEF KitOK, NoKit
  <2> QED BY <2>1, <2>2 DEF SetupInit, KitsOK
<1> QED
  BY <1>1, <1>2, <1>3, <1>4, <1>5, <1>6, <1>7, <1>9, <1>10, <1>11, <1>12, <1>13, <1>14 DEF HelmInv

-----------------------------------------------------------------------------
(***************************************************************************)
(* The pushers.                                                            *)
(***************************************************************************)

\* A step that only moves the pusher p: what it has in hand is still minted,
\* and a deployment that is paused and to be done was to be done before.
LEMMA RunMoves ==
    ASSUME HelmInv, NEW p \in Pushers, NEW r, run' = [run EXCEPT ![p] = r], RunOK(r),
           p \in Crons /\ r.pc = "upload" => Flag \notin r.seen,
           run[p].pc # "record", r.pc # "record",
           p \in Crons => \A d \in r.todo : Exists(d) /\ row[d].paused => d \in early[p],
           UNCHANGED <<ladder, row, last, doubt, minted, early>>
    PROVE  RunsOK' /\ EarlyOK' /\ PushesOK'
<1> USE DEF HelmInv
<1>0. run \in [Pushers -> Runs] /\ r \in Runs
  BY DEF RunsOK, RunOK
<1>1. \A q \in Pushers : run'[q] = IF q = p THEN r ELSE run[q]
  BY <1>0
<1>2. RunsOK'
  <2>1. \A q \in Pushers : RunOK(run'[q])
    BY <1>1 DEF RunsOK
  <2>2. \A q \in Pushers : RunOK(run[q])'
    BY <2>1 DEF RunOK
  <2>3. run' \in [Pushers -> Runs]
    BY <1>0
  <2>4. \A q \in Crons : run'[q].pc = "upload" => Flag \notin run'[q].seen
    BY <1>1 DEF RunsOK, Pushers
  <2> QED BY <2>2, <2>3, <2>4 DEF RunsOK
<1>3. EarlyOK'
  BY <1>1 DEF EarlyOK, Exists, Pushers
<1>4. PushesOK'
  <2>1. \A q \in Pushers : run'[q].pc = "record" => q # p /\ run'[q] = run[q]
    BY <1>1
  <2>2. \A q \in Pushers : run[q].pc = "record" => run'[q] = run[q]
    BY <1>1
  <2>3. LedgerIsLastPush'
    BY <2>2 DEF PushesOK, LedgerIsLastPush, Exists
  <2> QED BY <2>1, <2>3 DEF PushesOK
<1> QED BY <1>2, <1>3, <1>4

\* Everything that a pusher does not change while it reads.
LEMMA RestStays ==
    ASSUME HelmInv, UNCHANGED <<ladder, row, live, worker, last, doubt, ask, self, gone>>,
           UNCHANGED <<deploying, setup>>
    PROVE  /\ AccountsOK' /\ WorkersOK' /\ RowsOK' /\ AskOK' /\ SelvesOK'
           /\ HooksOK' /\ FormsOK' /\ KitsOK'
BY AccountsStays, WorkersStays, RowsStays, AskStays, SelvesStays, HooksStays, FormsStays, KitsStays
DEF HelmInv, deploying, paying, accounts

\* What a run reads of the rows is minted, and what it reads of a Worker safe.
LEMMA RunFields ==
    ASSUME HelmInv, NEW p \in Pushers
    PROVE  /\ run[p] \in Runs /\ RunOK(run[p])
           /\ run[p].sha \in 0 .. MaxSha /\ run[p].todo \subseteq Deployments
           /\ run[p].keys \in [Deployments -> 0 .. MaxToken]
           /\ run[p].d \in Deployments \cup {NoOne} /\ run[p].seen \subseteq Names
BY DEF HelmInv, RunsOK, RunOK, Runs

\* The bundles are shas within the bound.
LEMMA BundlesAreShas == SiteOK => DOMAIN ladder \subseteq 0 .. MaxSha /\ manifest \in DOMAIN ladder
BY LedgerAssumption DEF SiteOK, Shas

\* A cron run reads the latest bundle: nothing is listed yet.
LEMMA CronStartsKeeps ==
    ASSUME HelmInv, NEW p \in Pushers, CronStarts(p), UNCHANGED <<deploying, setup>>
    PROVE  HelmInv'
<1> DEFINE r == [run[p] EXCEPT !.pc = "list", !.sha = manifest]
<1>1. run' = [run EXCEPT ![p] = r]
  BY DEF CronStarts
<1>2. manifest \in DOMAIN ladder /\ manifest \in 0 .. MaxSha
  BY BundlesAreShas DEF HelmInv
<1>3. r \in Runs
  BY <1>2, RunFields DEF Runs
<1>4. r.pc = "list" /\ r.sha = manifest /\ r.todo = run[p].todo /\ r.seen = run[p].seen
  BY RunFields DEF Runs
<1>5. RunOK(r)
  BY <1>2, <1>3, <1>4, RunFields DEF RunOK, CronStarts
<1>6. RunsOK' /\ EarlyOK' /\ PushesOK'
  <2> HIDE DEF r
  <2>1. p \in Crons => \A d \in r.todo : Exists(d) /\ row[d].paused => d \in early[p]
    BY <1>4 DEF HelmInv, EarlyOK
  <2>2. run[p].pc = "idle" /\ UNCHANGED <<ladder, row, last, doubt, minted, early>>
    BY DEF CronStarts, ledger, deploying
  <2> QED BY <1>1, <1>4, <1>5, <2>1, <2>2, RunMoves
<1>7. PlainOK' /\ SiteOK'
  BY PlainStays, SiteStays DEF HelmInv, CronStarts, ledger, deploying, paying
<1> QED
  BY <1>6, <1>7, RestStays DEF HelmInv, CronStarts, ledger

\* A cron lists the active deployments: they exist and none of them is paused.
LEMMA CronListsKeeps ==
    ASSUME HelmInv, NEW p \in Pushers, CronLists(p), UNCHANGED <<deploying, setup>>
    PROVE  HelmInv'
<1> DEFINE due == {d \in Active : row[d].sha # run[p].sha}
           keys == [d \in Deployments |-> IF d \in due THEN row[d].token ELSE 0]
           r == [run[p] EXCEPT !.pc = "next", !.todo = due, !.keys = keys]
<1>1. run' = [run EXCEPT ![p] = r]
  BY DEF CronLists
<1>2. \A d \in due : d \in Deployments /\ Exists(d) /\ ~row[d].paused /\ row[d] \in Rows /\ d \in minted
  BY DEF Active, HelmInv, RowsOK, Exists
<1>3. keys \in [Deployments -> 0 .. MaxToken]
  BY <1>2, LedgerAssumption DEF Rows, CfTokens
<1> HIDE DEF due, keys
<1>4. r \in Runs
  BY <1>2, <1>3, RunFields DEF Runs
<1>5. r.pc = "next" /\ r.sha = run[p].sha /\ r.todo = due /\ r.seen = run[p].seen
  BY RunFields DEF Runs
<1>6. RunOK(r)
  BY <1>2, <1>4, <1>5, RunFields DEF RunOK, CronLists
<1>7. RunsOK' /\ EarlyOK' /\ PushesOK'
  <2> HIDE DEF r
  <2>1. p \in Crons => \A d \in r.todo : Exists(d) /\ row[d].paused => d \in early[p]
    BY <1>2, <1>5
  <2>2. run[p].pc = "list" /\ UNCHANGED <<ladder, row, last, doubt, minted, early>>
    BY DEF CronLists, ledger, deploying
  <2> QED BY <1>1, <1>5, <1>6, <2>1, <2>2, RunMoves
<1>8. PlainOK' /\ SiteOK'
  BY PlainStays, SiteStays DEF HelmInv, CronLists, ledger, deploying, paying
<1> QED
  BY <1>7, <1>8, RestStays DEF HelmInv, CronLists, ledger

\* A click on "update now" comes with a link that works, for a row that exists.
LEMMA ClickArrivesKeeps ==
    ASSUME HelmInv, NEW p \in Pushers, NEW d \in Deployments, ClickArrives(p, d),
           UNCHANGED <<deploying, setup>>
    PROVE  HelmInv'
<1>1. PICK confirm \in BOOLEAN :
        run' = [run EXCEPT ![p].pc = IF confirm THEN "fetch" ELSE "gate",
                           ![p].d = d, ![p].keys[d] = row[d].token]
  BY DEF ClickArrives
<1> DEFINE pc == IF confirm THEN "fetch" ELSE "gate"
           keys == [run[p].keys EXCEPT ![d] = row[d].token]
           r == [run[p] EXCEPT !.pc = pc, !.d = d, !.keys = keys]
<1>2. run' = [run EXCEPT ![p] = r]
  BY <1>1
<1>3. row[d] \in Rows /\ d \in minted
  BY DEF ClickArrives, HelmInv, RowsOK, Exists
<1>4. keys \in [Deployments -> 0 .. MaxToken] /\ pc \in {"gate", "fetch"}
  BY <1>3, RunFields DEF Rows, CfTokens
<1> HIDE DEF keys, pc
<1>5. r \in Runs
  BY <1>3, <1>4, RunFields DEF Runs
<1>6. r.pc = pc /\ r.d = d /\ r.todo = run[p].todo /\ r.seen = run[p].seen
  BY RunFields DEF Runs
<1>7. RunOK(r)
  BY <1>3, <1>4, <1>5, <1>6, RunFields DEF RunOK, ClickArrives
<1>8. RunsOK' /\ EarlyOK' /\ PushesOK'
  <2> HIDE DEF r
  <2>1. p \in Crons => \A e \in r.todo : Exists(e) /\ row[e].paused => e \in early[p]
    BY <1>6 DEF HelmInv, EarlyOK
  <2>2. run[p].pc = "idle" /\ UNCHANGED <<ladder, row, last, doubt, minted, early>>
    BY DEF ClickArrives, ledger, deploying
  <2> QED BY <1>2, <1>4, <1>6, <1>7, <2>1, <2>2, RunMoves
<1>9. PlainOK' /\ SiteOK'
  BY SiteStays, UpdatesAssumption DEF PlainOK, HelmInv, ClickArrives, ledger, deploying, paying
<1> QED
  BY <1>8, <1>9, RestStays DEF HelmInv, ClickArrives, ledger

\* Idle is a good record for a pusher at any time.
LEMMA IdleOK == /\ RunOK(Idle) /\ Idle.pc = "idle" /\ Idle.todo = {}
<1>1. Idle \in Runs
  BY LedgerAssumption DEF Idle, Runs, NoKeys
<1> QED BY <1>1 DEF RunOK, Idle, Safe, Data

\* A failure is within the budget.
LEMMA FaultIsDue == SiteOK /\ UNCHANGED <<manifest, ladder, enforced, accepted>>
                    /\ (Fault \/ UNCHANGED faults) => SiteOK'
BY LedgerAssumption DEF SiteOK, Fault

\* A click reads the marker of the Worker.
LEMMA ClickGatedKeeps ==
    ASSUME HelmInv, NEW p \in Pushers, ClickGated(p), UNCHANGED <<deploying, setup>>
    PROVE  HelmInv'
<1> DEFINE r == [run[p] EXCEPT !.pc = "fetch"]
<1>1. run' = [run EXCEPT ![p] = r] \/ run' = [run EXCEPT ![p] = Idle]
  BY DEF ClickGated
<1>2. r \in Runs
  BY RunFields DEF Runs
<1>3. r.pc = "fetch" /\ r.d = run[p].d /\ r.todo = run[p].todo /\ r.seen = run[p].seen
  BY RunFields DEF Runs
<1>4. RunOK(r)
  BY <1>2, <1>3, RunFields DEF RunOK, ClickGated
<1>5. run[p].pc = "gate" /\ UNCHANGED <<ladder, row, last, doubt, minted, early>>
  BY DEF ClickGated, ledger, deploying
<1>6. RunsOK' /\ EarlyOK' /\ PushesOK'
  <2> HIDE DEF r
  <2>1. p \in Crons => \A e \in run[p].todo : Exists(e) /\ row[e].paused => e \in early[p]
    BY DEF HelmInv, EarlyOK
  <2> QED BY <1>1, <1>3, <1>4, <1>5, <2>1, IdleOK, RunMoves
<1>7. PlainOK' /\ SiteOK'
  BY PlainStays, FaultIsDue DEF HelmInv, ClickGated, ledger, deploying, paying
<1> QED
  BY <1>6, <1>7, RestStays DEF HelmInv, ClickGated, ledger

\* A click fetches the row.
LEMMA ClickFetchesKeeps ==
    ASSUME HelmInv, NEW p \in Pushers, ClickFetches(p), UNCHANGED <<deploying, setup>>
    PROVE  HelmInv'
<1> DEFINE r == [run[p] EXCEPT !.pc = "get", !.sha = manifest]
<1>1. run' = [run EXCEPT ![p] = r]
  BY DEF ClickFetches
<1>2. manifest \in DOMAIN ladder /\ manifest \in 0 .. MaxSha
  BY BundlesAreShas DEF HelmInv
<1>3. r \in Runs
  BY <1>2, RunFields DEF Runs
<1>4. r.pc = "get" /\ r.sha = manifest /\ r.d = run[p].d /\ r.todo = run[p].todo /\ r.seen = run[p].seen
  BY RunFields DEF Runs
<1>5. RunOK(r)
  BY <1>2, <1>3, <1>4, RunFields DEF RunOK, ClickFetches
<1>6. RunsOK' /\ EarlyOK' /\ PushesOK'
  <2> HIDE DEF r
  <2>1. p \in Crons => \A d \in r.todo : Exists(d) /\ row[d].paused => d \in early[p]
    BY <1>4 DEF HelmInv, EarlyOK
  <2>2. run[p].pc = "fetch" /\ UNCHANGED <<ladder, row, last, doubt, minted, early>>
    BY DEF ClickFetches, ledger, deploying
  <2> QED BY <1>1, <1>4, <1>5, <2>1, <2>2, RunMoves
<1>7. PlainOK' /\ SiteOK'
  BY PlainStays, SiteStays DEF HelmInv, ClickFetches, ledger, deploying, paying
<1> QED
  BY <1>6, <1>7, RestStays DEF HelmInv, ClickFetches, ledger

\* A click reads the latest bundle, and its run has one deployment to push.
LEMMA ClickGetsKeeps ==
    ASSUME HelmInv, NEW p \in Pushers, ClickGets(p), UNCHANGED <<deploying, setup>>
    PROVE  HelmInv'
<1> DEFINE d == run[p].d
           keys == [NoKeys EXCEPT ![d] = row[d].token]
           r == [Idle EXCEPT !.pc = "next", !.sha = run[p].sha, !.todo = {d}, !.keys = keys]
<1>1. run' = [run EXCEPT ![p] = Idle] \/ (run' = [run EXCEPT ![p] = r] /\ Exists(d))
  BY DEF ClickGets, Idle
<1>2. p \in Clicks /\ run[p].pc = "get" /\ UNCHANGED <<ladder, row, last, doubt, minted, early>>
  BY DEF ClickGets, ledger, deploying
<1>3. d \in minted /\ d \in Deployments /\ run[p].sha \in DOMAIN ladder
  BY <1>2, RunFields DEF RunOK, HelmInv, RowsOK
<1>4. ASSUME Exists(d)
      PROVE  RunOK(r) /\ r.pc = "next"
  <2>1. row[d] \in Rows
    BY <1>3, <1>4 DEF HelmInv, RowsOK, Exists
  <2>2. keys \in [Deployments -> 0 .. MaxToken]
    BY <1>3, <2>1, LedgerAssumption DEF Rows, CfTokens, NoKeys
  <2> HIDE DEF keys
  <2>3. r \in Runs
    BY <1>3, <2>2, RunFields, IdleOK DEF Runs, RunOK
  <2>4. r.pc = "next" /\ r.sha = run[p].sha /\ r.todo = {d} /\ r.seen = {}
    BY DEF Idle
  <2> QED BY <1>3, <2>3, <2>4 DEF RunOK, Safe, Data
<1>5. RunsOK' /\ EarlyOK' /\ PushesOK'
  <2> HIDE DEF r, d
  <2>1. p \notin Crons
    BY <1>2, UpdatesAssumption
  <2> QED BY <1>1, <1>2, <1>4, <2>1, IdleOK, RunMoves
<1>6. PlainOK' /\ SiteOK'
  BY PlainStays, SiteStays DEF HelmInv, ClickGets, ledger, deploying, paying
<1> QED
  BY <1>5, <1>6, RestStays DEF HelmInv, ClickGets, ledger

\* A run reads the bindings of a Worker, and a cron leaves one that carries
\* the marker.
LEMMA ReadsKeeps ==
    ASSUME HelmInv, NEW p \in Pushers, NEW d \in Deployments, Reads(p, d), UNCHANGED <<deploying, setup>>
    PROVE  HelmInv'
<1> DEFINE c == Owner[d]
           o == Onward([run[p] EXCEPT !.d = d])
           a == [run[p] EXCEPT !.pc = "upload", !.d = d, !.seen = worker[c].names]
           b == [run[p] EXCEPT !.pc = "upload", !.d = d]
<1>1. \/ run' = [run EXCEPT ![p] = o]
      \/ run' = [run EXCEPT ![p] = a] /\ ~Leaves(p, c)
      \/ run' = [run EXCEPT ![p] = b]
  BY DEF Reads
<1>2. run[p].pc = "next" /\ d \in run[p].todo /\ UNCHANGED <<ladder, row, last, doubt, minted, early>>
  BY DEF Reads, ledger, deploying
<1>3. d \in minted /\ run[p].sha \in DOMAIN ladder
  BY <1>2, RunFields DEF RunOK
<1>4. Safe(worker[c].names)
  BY LedgerAssumption DEF HelmInv, WorkersOK
<1>5. RunOK(o) /\ o.pc = "next" /\ o.todo \subseteq run[p].todo
  <2>1. o \in Runs
    BY RunFields DEF Runs, Onward
  <2>2. o.pc = "next" /\ o.sha = run[p].sha /\ o.todo = run[p].todo \ {d} /\ o.seen = {}
    BY RunFields DEF Runs, Onward
  <2> QED BY <1>3, <2>1, <2>2, RunFields DEF RunOK, Safe, Data
<1>6. RunOK(a) /\ a.pc = "upload" /\ a.todo = run[p].todo /\ a.seen = worker[c].names
  <2>1. a \in Runs
    BY <1>4, RunFields DEF Runs, Safe
  <2>2. a.pc = "upload" /\ a.sha = run[p].sha /\ a.todo = run[p].todo /\ a.seen = worker[c].names /\ a.d = d
    BY RunFields DEF Runs
  <2> QED BY <1>2, <1>3, <1>4, <2>1, <2>2, RunFields DEF RunOK
<1>7. RunOK(b) /\ b.pc = "upload" /\ b.todo = run[p].todo /\ b.seen = run[p].seen
  <2>1. b \in Runs
    BY RunFields DEF Runs
  <2>2. b.pc = "upload" /\ b.sha = run[p].sha /\ b.todo = run[p].todo /\ b.seen = run[p].seen /\ b.d = d
    BY RunFields DEF Runs
  <2> QED BY <1>2, <1>3, <2>1, <2>2, RunFields DEF RunOK
<1>8. RunsOK' /\ EarlyOK' /\ PushesOK'
  <2> HIDE DEF o, a, b, c
  <2>1. p \in Crons => \A e \in run[p].todo : Exists(e) /\ row[e].paused => e \in early[p]
    BY DEF HelmInv, EarlyOK
  <2>2. p \in Crons /\ ~Leaves(p, c) => Flag \notin a.seen
    BY <1>6 DEF Leaves
  <2>3. b.seen = {}
    BY <1>2, <1>7, RunFields DEF RunOK
  <2> QED BY <2>3, <1>1, <1>2, <1>5, <1>6, <1>7, <2>1, <2>2, RunMoves
<1>9. PlainOK' /\ SiteOK'
  BY PlainStays, FaultIsDue DEF HelmInv, Reads, ledger, deploying, paying
<1> QED
  BY <1>8, <1>9, RestStays DEF HelmInv, Reads, ledger

\* The rows are written again: none appears, none goes, none is paused.
Rewritten ==
    /\ row' \in [Deployments -> Rows \cup {NoRow}]
    /\ \A e \in Deployments : (row'[e] # NoRow) <=> Exists(e)
    /\ \A e \in Deployments : Exists(e) => (row'[e].paused <=> row[e].paused) /\ row'[e].token = row[e].token

\* The value that stands for no row is none.
LEMMA NoRowIsNone == NoRow \notin Rows
BY LedgerAssumption DEF Rows, CfTokens

\* To note a failure changes no sha.
LEMMA NotedRewrites ==
    ASSUME RowsOK, NEW d \in Deployments, row' = Noted(d)
    PROVE  Rewritten /\ \A e \in Deployments : Exists(e) => row'[e].sha = row[e].sha
<1>1. CASE ~Exists(d)
  BY <1>1 DEF Noted, Rewritten, RowsOK, Exists
<1>2. CASE Exists(d)
  <2> DEFINE x == [row[d] EXCEPT !.error = TRUE]
  <2>1. row' = [row EXCEPT ![d] = x]
    BY <1>2 DEF Noted
  <2>2. row[d] \in Rows
    BY <1>2 DEF RowsOK, Exists
  <2>3. x \in Rows /\ x.sha = row[d].sha /\ (x.paused <=> row[d].paused) /\ x.token = row[d].token
    BY <2>2 DEF Rows
  <2> HIDE DEF x
  <2>4. x # NoRow
    BY <2>3, NoRowIsNone
  <2> QED BY <1>2, <2>1, <2>3, <2>4 DEF Rewritten, RowsOK, Exists
<1> QED BY <1>1, <1>2

\* The sha of a push is written, and whether it failed.
LEMMA ShaRewrites ==
    ASSUME RowsOK, NEW d \in Deployments, Exists(d), NEW sha \in 0 .. MaxSha, NEW error \in BOOLEAN,
           row' = [row EXCEPT ![d].sha = sha, ![d].error = error]
    PROVE  /\ Rewritten /\ row'[d].sha = sha
           /\ \A e \in Deployments : e # d => row'[e] = row[e]
<1> DEFINE x == [row[d] EXCEPT !.sha = sha, !.error = error]
<1>1. row' = [row EXCEPT ![d] = x]
  OBVIOUS
<1>2. row[d] \in Rows
  BY DEF RowsOK, Exists
<1>3. x \in Rows /\ x.sha = sha /\ (x.paused <=> row[d].paused) /\ x.token = row[d].token
  BY <1>2 DEF Rows
<1> HIDE DEF x
<1>4. x # NoRow
  BY <1>3, NoRowIsNone
<1> QED BY <1>1, <1>3, <1>4 DEF Rewritten, RowsOK, Exists

\* Rows written again keep what is known of the rows, the request and the
\* forms.
LEMMA RewrittenKeeps ==
    ASSUME HelmInv, Rewritten, doubt' \in SUBSET Deployments, last' \in [Deployments -> 0 .. MaxSha],
           UNCHANGED <<live, minted, gone, told, ask, form, ladder, app>>
    PROVE  RowsOK' /\ AskOK' /\ FormsOK'
<1>1. RowsOK'
  BY DEF HelmInv, RowsOK, Rewritten, Exists
<1>2. AskOK'
  BY AskKept DEF HelmInv, Rewritten, Exists
<1>3. FormsOK'
  <2>1. \A f \in Forms : form[f].pc \in {"log", "seed", "link"} => Exists(form[f].d)'
    BY DEF HelmInv, FormsOK, FormOK, RowsOK, Rewritten, Exists
  <2>2. \A f \in Forms : FormOK(form[f])'
    BY <2>1 DEF HelmInv, FormsOK, FormOK
  <2> QED BY <2>2 DEF HelmInv, FormsOK
<1> QED BY <1>1, <1>2, <1>3

\* A step of p that may rewrite rows.
LEMMA RunSteps ==
    ASSUME HelmInv, NEW p \in Pushers, NEW r, run' = [run EXCEPT ![p] = r], RunOK(r),
           r.pc # "upload", r.todo \subseteq run[p].todo, Rewritten,
           UNCHANGED <<ladder, minted, early>>
    PROVE  /\ RunsOK' /\ EarlyOK'
           /\ \A q \in Pushers : run'[q] = IF q = p THEN r ELSE run[q]
<1> USE DEF HelmInv
<1>0. run \in [Pushers -> Runs] /\ r \in Runs
  BY DEF RunsOK, RunOK
<1>1. \A q \in Pushers : run'[q] = IF q = p THEN r ELSE run[q]
  BY <1>0
<1>2. RunsOK'
  <2>1. \A q \in Pushers : RunOK(run'[q])
    BY <1>1 DEF RunsOK
  <2>2. \A q \in Pushers : RunOK(run[q])'
    BY <2>1 DEF RunOK
  <2>3. run' \in [Pushers -> Runs]
    BY <1>0
  <2>4. \A q \in Crons : run'[q].pc = "upload" => Flag \notin run'[q].seen
    BY <1>1 DEF RunsOK, Pushers
  <2> QED BY <2>2, <2>3, <2>4 DEF RunsOK
<1>3. EarlyOK'
  <2>1. \A q \in Crons : \A e \in run'[q].todo : e \in run[q].todo /\ e \in Deployments
    BY <1>1, RunFields DEF Pushers
  <2> QED BY <2>1 DEF EarlyOK, Exists, Rewritten
<1> QED BY <1>1, <1>2, <1>3

\* The next deployment of the loop.
LEMMA OnwardOK ==
    ASSUME HelmInv, NEW p \in Pushers, NEW d, RunOK(run[p]),
           run[p].pc \in {"next", "upload", "record"}
    PROVE  LET r == Onward([run[p] EXCEPT !.d = d])
           IN  RunOK(r) /\ r.pc = "next" /\ r.todo \subseteq run[p].todo
<1> DEFINE r == Onward([run[p] EXCEPT !.d = d])
<1>1. r \in Runs
  BY RunFields DEF Runs, Onward
<1>2. r.pc = "next" /\ r.sha = run[p].sha /\ r.todo = run[p].todo \ {d} /\ r.seen = {}
  BY RunFields DEF Runs, Onward
<1> HIDE DEF r
<1>3. RunOK(r)
  BY <1>1, <1>2, RunFields DEF RunOK, Safe, Data
<1> QED BY <1>2, <1>3 DEF r

\* The same, for the deployment at hand.
LEMMA OnwardSame ==
    ASSUME HelmInv, NEW p \in Pushers, run[p].pc \in {"upload", "record"}
    PROVE  LET r == Onward(run[p])
           IN  RunOK(r) /\ r.pc = "next" /\ r.todo \subseteq run[p].todo
<1>1. [run[p] EXCEPT !.d = run[p].d] = run[p]
  BY RunFields DEF Runs
<1> QED BY <1>1, OnwardOK, RunFields

\* The bundle of a deployment cannot be read: the failure is noted and the run
\* goes on.
LEMMA BundleMissingKeeps ==
    ASSUME HelmInv, NEW p \in Pushers, NEW d \in Deployments, BundleMissing(p, d), UNCHANGED <<deploying, setup>>
    PROVE  HelmInv'
<1> DEFINE r == Onward([run[p] EXCEPT !.d = d])
<1>1. run' = [run EXCEPT ![p] = r] /\ run[p].pc = "next"
  BY DEF BundleMissing
<1>2. RunOK(r) /\ r.pc = "next" /\ r.todo \subseteq run[p].todo
  BY <1>1, RunFields, OnwardOK
<1> HIDE DEF r
<1>3. Rewritten /\ \A e \in Deployments : Exists(e) => row'[e].sha = row[e].sha
  BY NotedRewrites DEF BundleMissing, HelmInv
<1>4. RunsOK' /\ EarlyOK' /\ \A q \in Pushers : run'[q] = IF q = p THEN r ELSE run[q]
  BY <1>1, <1>2, <1>3, RunSteps DEF BundleMissing, deploying
<1>5. PushesOK'
  BY <1>1, <1>2, <1>3, <1>4 DEF BundleMissing, HelmInv, PushesOK, LedgerIsLastPush, Exists, Rewritten
<1>6. RowsOK' /\ AskOK' /\ FormsOK'
  BY <1>3, RewrittenKeeps DEF BundleMissing, deploying, accounts, HelmInv, RowsOK
<1>7. PlainOK' /\ SiteOK' /\ AccountsOK' /\ WorkersOK' /\ SelvesOK' /\ HooksOK' /\ KitsOK'
  BY PlainStays, FaultIsDue, AccountsStays, WorkersStays, SelvesStays, HooksStays, KitsStays
  DEF HelmInv, BundleMissing, deploying, paying, accounts
<1> QED BY <1>4, <1>5, <1>6, <1>7 DEF HelmInv

\* An upload is refused: the failure is noted and the run goes on.
LEMMA UploadRefusedKeeps ==
    ASSUME HelmInv, NEW p \in Pushers, UploadRefused(p), UNCHANGED <<deploying, setup>>
    PROVE  HelmInv'
<1> DEFINE d == run[p].d
           r == Onward(run[p])
<1>1. run' = [run EXCEPT ![p] = r] /\ run[p].pc = "upload"
  BY DEF UploadRefused
<1>2. RunOK(r) /\ r.pc = "next" /\ r.todo \subseteq run[p].todo
  BY <1>1, OnwardSame
<1>3. d \in Deployments
  BY <1>1, RunFields DEF RunOK, HelmInv, RowsOK
<1>4. Rewritten /\ \A e \in Deployments : Exists(e) => row'[e].sha = row[e].sha
  BY <1>3, NotedRewrites DEF UploadRefused, HelmInv
<1> HIDE DEF r, d
<1>5. RunsOK' /\ EarlyOK' /\ \A q \in Pushers : run'[q] = IF q = p THEN r ELSE run[q]
  BY <1>1, <1>2, <1>4, RunSteps DEF UploadRefused, deploying
<1>6. PushesOK'
  BY <1>1, <1>2, <1>4, <1>5 DEF UploadRefused, HelmInv, PushesOK, LedgerIsLastPush, Exists, Rewritten
<1>7. RowsOK' /\ AskOK' /\ FormsOK'
  BY <1>4, RewrittenKeeps DEF UploadRefused, deploying, accounts, HelmInv, RowsOK
<1>8. PlainOK' /\ SiteOK' /\ AccountsOK' /\ WorkersOK' /\ SelvesOK' /\ HooksOK' /\ KitsOK'
  BY PlainStays, FaultIsDue, AccountsStays, WorkersStays, SelvesStays, HooksStays, KitsStays
  DEF HelmInv, UploadRefused, deploying, paying, accounts
<1> QED BY <1>5, <1>6, <1>7, <1>8 DEF HelmInv

\* A PUT leaves a Worker with what was sent.
LEMMA PutKeeps ==
    ASSUME WorkersOK, SiteOK, NEW c \in Customers, NEW sha \in DOMAIN ladder, NEW names, Safe(names),
           worker' = Put(c, sha, names)
    PROVE  WorkersOK' /\ worker'[c].names = names /\ \A k \in Customers : k # c => worker'[k] = worker[k]
<1> DEFINE tag == IF ladder[sha] = 0 THEN worker[c].tag ELSE ladder[sha]
           x == [code |-> "bundle", sha |-> sha, names |-> names, tag |-> tag]
<1>1. worker' = [worker EXCEPT ![c] = x]
  BY DEF Put
<1>2. tag \in Tags
  BY DEF SiteOK, WorkersOK, Scripts
<1> HIDE DEF tag
<1>3. x \in Scripts
  BY <1>2, BundlesAreShas DEF Scripts, Safe
<1>4. x.names = names
  OBVIOUS
<1> HIDE DEF x
<1> QED BY <1>1, <1>3, <1>4 DEF WorkersOK

\* Names are added to a Worker, or taken from it.
LEMMA NamesKeep ==
    ASSUME WorkersOK, NEW c \in Customers, NEW names, Safe(names),
           worker' = [worker EXCEPT ![c].names = names]
    PROVE  WorkersOK' /\ worker'[c].names = names /\ \A k \in Customers : k # c => worker'[k] = worker[k]
<1> DEFINE x == [worker[c] EXCEPT !.names = names]
<1>1. worker' = [worker EXCEPT ![c] = x]
  OBVIOUS
<1>2. x \in Scripts /\ x.names = names
  BY DEF WorkersOK, Scripts, Safe
<1> HIDE DEF x
<1> QED BY <1>1, <1>2 DEF WorkersOK

\* An upload is the last push of its deployment, which is in doubt if another
\* push of it awaits its record.
LEMMA UploadsKeeps ==
    ASSUME HelmInv, NEW p \in Pushers, Uploads(p), UNCHANGED <<deploying, setup>>
    PROVE  HelmInv'
<1> DEFINE d == run[p].d
           sha == run[p].sha
           o == Onward(run[p])
           r == [run[p] EXCEPT !.pc = "record"]
<1>1. /\ run[p].pc = "upload" /\ d \in Deployments /\ d \in minted
      /\ sha \in DOMAIN ladder /\ sha \in 0 .. MaxSha /\ Safe(run[p].seen)
  BY RunFields, BundlesAreShas DEF Uploads, RunOK, HelmInv, RowsOK
<1>2. \/ run' = [run EXCEPT ![p] = r] /\ row' = row /\ faults' = faults
         /\ doubt' = IF Awaited(d, p) THEN doubt \cup {d} ELSE doubt
      \/ run' = [run EXCEPT ![p] = o] /\ row' = Noted(d) /\ Fault /\ doubt' = doubt \cup {d}
  BY DEF Uploads
<1>3. last' = [last EXCEPT ![d] = sha]
  BY DEF Uploads
<1>4. last' \in [Deployments -> 0 .. MaxSha] /\ doubt' \in SUBSET Deployments
      /\ \A e \in Deployments : last'[e] = IF e = d THEN sha ELSE last[e]
  BY <1>1, <1>2, <1>3 DEF HelmInv, RowsOK
<1>5. RunOK(o) /\ o.pc = "next" /\ o.todo \subseteq run[p].todo
  BY <1>1, OnwardSame
<1>6. RunOK(r) /\ r.pc = "record" /\ r.todo \subseteq run[p].todo /\ r.sha = sha /\ r.d = d
  <2>1. r \in Runs
    BY RunFields DEF Runs
  <2>2. r.pc = "record" /\ r.todo = run[p].todo /\ r.sha = sha /\ r.d = d /\ r.seen = run[p].seen
    BY RunFields DEF Runs
  <2> QED BY <1>1, <2>1, <2>2, RunFields DEF RunOK
<1>7. Rewritten /\ \A e \in Deployments : Exists(e) => row'[e].sha = row[e].sha
  <2>1. row' = row \/ row' = Noted(d)
    BY <1>2
  <2>2. row' = row => Rewritten
    BY DEF Rewritten, Exists, HelmInv, RowsOK
  <2> QED BY <1>1, <2>1, <2>2, NotedRewrites DEF HelmInv
<1>w. WorkersOK'
  BY <1>1, PutKeeps, LedgerAssumption DEF Uploads, Merged, HelmInv
<1> HIDE DEF r, o, d, sha
<1>8. UNCHANGED <<ladder, minted, early, live, gone, told, ask, form, app>>
  BY DEF Uploads, deploying, accounts
<1>9. /\ RunsOK' /\ EarlyOK'
      /\ \/ \A q \in Pushers : run'[q] = IF q = p THEN r ELSE run[q]
         \/ d \in doubt' /\ \A q \in Pushers : run'[q] = IF q = p THEN o ELSE run[q]
  BY <1>2, <1>5, <1>6, <1>7, <1>8, RunSteps
<1>10. PushesOK'
  <2>1. \A e \in Deployments : e \in doubt => e \in doubt'
    BY <1>2
  <2>2. \A q \in Pushers : run[q].pc = "record" => run[q].d \in Deployments
    BY RunFields DEF RunOK, HelmInv, RowsOK
  <2>3. d \notin doubt' => ~Awaited(d, p)
    BY <1>2
  <2>4. d \notin doubt' => \A q \in Pushers : run'[q] = IF q = p THEN r ELSE run[q]
    BY <1>9
  <2>5. \A q \in Pushers : q # p => run'[q] = run[q]
    BY <1>9
  <2>6. run'[p].pc = "record" => run'[p] = r
    BY <1>5, <1>9
  <2>7. \A q \in Pushers : run'[q].pc = "record" =>
          last'[run'[q].d] = run'[q].sha \/ run'[q].d \in doubt'
    <3> SUFFICES ASSUME NEW q \in Pushers, run'[q].pc = "record", run'[q].d \notin doubt'
                 PROVE  last'[run'[q].d] = run'[q].sha
      OBVIOUS
    <3>1. CASE q = p
      BY <1>1, <1>4, <1>6, <2>6, <3>1
    <3>2. CASE q # p
      <4>1. run'[q] = run[q]
        BY <2>5, <3>2
      <4>2. run[q].d # d
        BY <2>3, <3>2, <4>1 DEF Awaited
      <4> QED BY <1>4, <2>1, <2>2, <4>1, <4>2 DEF HelmInv, PushesOK
    <3> QED BY <3>1, <3>2
  <2>8. \A q, s \in Pushers :
          q # s /\ run'[q].pc = "record" /\ run'[s].pc = "record" /\ run'[q].d = run'[s].d
              => run'[q].d \in doubt'
    <3> SUFFICES ASSUME NEW q \in Pushers, NEW s \in Pushers, q # s, run'[q].pc = "record",
                        run'[s].pc = "record", run'[q].d = run'[s].d
                 PROVE  run'[q].d \in doubt'
      OBVIOUS
    <3>1. CASE q # p /\ s # p
      BY <2>1, <2>2, <2>5, <3>1 DEF HelmInv, PushesOK
    <3>2. CASE q = p
      BY <1>6, <2>3, <2>5, <2>6, <3>2 DEF Awaited
    <3>3. CASE s = p
      BY <1>6, <2>3, <2>5, <2>6, <3>3 DEF Awaited
    <3> QED BY <3>1, <3>2, <3>3
  <2>9. LedgerIsLastPush'
    <3> SUFFICES ASSUME NEW e \in Deployments, Exists(e)', row'[e].sha # last'[e], e \notin doubt'
                 PROVE  \E q \in Pushers : run'[q].pc = "record" /\ run'[q].d = e
      BY DEF LedgerIsLastPush
    <3>1. CASE e = d
      BY <1>6, <2>4, <3>1
    <3>2. CASE e # d
      <4>1. Exists(e) /\ row[e].sha # last[e] /\ e \notin doubt
        BY <1>4, <1>7, <2>1, <3>2 DEF Rewritten, Exists
      <4>2. PICK q \in Pushers : run[q].pc = "record" /\ run[q].d = e
        BY <4>1 DEF HelmInv, PushesOK, LedgerIsLastPush
      <4>3. q # p
        BY <1>1, <4>2
      <4> QED BY <2>5, <4>2, <4>3
    <3> QED BY <3>1, <3>2
  <2> QED BY <2>7, <2>8, <2>9 DEF PushesOK
<1>11. RowsOK' /\ AskOK' /\ FormsOK'
  BY <1>4, <1>7, <1>8, RewrittenKeeps
<1>12. PlainOK' /\ SiteOK' /\ AccountsOK' /\ SelvesOK' /\ HooksOK' /\ KitsOK'
  BY <1>2, PlainStays, FaultIsDue, AccountsStays, SelvesStays, HooksStays, KitsStays
  DEF HelmInv, Uploads, deploying, paying, accounts
<1> QED BY <1>9, <1>10, <1>11, <1>12, <1>w DEF HelmInv

\* The sha of a push is written, and is the last one pushed or in doubt; or
\* the write fails, and the deployment is in doubt.
LEMMA RecordsKeeps ==
    ASSUME HelmInv, NEW p \in Pushers, Records(p) \/ RecordFails(p), UNCHANGED <<deploying, setup>>
    PROVE  HelmInv'
<1> DEFINE d == run[p].d
           sha == run[p].sha
           r == Onward(run[p])
<1>1. /\ run[p].pc = "record" /\ d \in Deployments /\ d \in minted
      /\ sha \in DOMAIN ladder /\ sha \in 0 .. MaxSha
  BY RunFields, BundlesAreShas DEF Records, RecordFails, RunOK, HelmInv, RowsOK
<1>2. run' = [run EXCEPT ![p] = r] /\ last' = last
  BY DEF Records, RecordFails
<1>3. RunOK(r) /\ r.pc = "next" /\ r.todo \subseteq run[p].todo
  BY <1>1, OnwardSame
<1>4. \/ row' = Recorded(d, sha)
         /\ doubt' = IF last[d] = sha /\ ~Awaited(d, p) THEN doubt \ {d} ELSE doubt
      \/ row' \in {Noted(d), IF Exists(d) THEN [row EXCEPT ![d].sha = sha, ![d].error = TRUE] ELSE row}
         /\ doubt' = doubt \cup {d}
  BY DEF Records, RecordFails
<1> HIDE DEF r, d, sha
<1>5. /\ Rewritten
      /\ \A e \in Deployments : e # d /\ Exists(e) => row'[e].sha = row[e].sha
      /\ d \notin doubt' /\ Exists(d) => row'[d].sha = sha
  <2>1. CASE ~Exists(d)
    <3>1. row' = row
      BY <1>4, <2>1 DEF Recorded, Noted
    <3> QED BY <2>1, <3>1 DEF Rewritten, Exists, HelmInv, RowsOK
  <2>2. CASE row' = Noted(d) /\ d \in doubt'
    BY <1>1, <2>2, NotedRewrites DEF HelmInv
  <2>3. CASE Exists(d) /\ \E error \in BOOLEAN : row' = [row EXCEPT ![d].sha = sha, ![d].error = error]
    BY <1>1, <2>3, ShaRewrites DEF HelmInv
  <2> QED BY <1>4, <2>1, <2>2, <2>3 DEF Recorded
<1>6. doubt' \in SUBSET Deployments /\ \A e \in Deployments : e # d => (e \in doubt' <=> e \in doubt)
  BY <1>1, <1>4 DEF HelmInv, RowsOK
<1>7. UNCHANGED <<ladder, minted, early, live, gone, told, ask, form, app>>
  BY DEF Records, RecordFails, deploying, accounts
<1>8. RunsOK' /\ EarlyOK' /\ \A q \in Pushers : run'[q] = IF q = p THEN r ELSE run[q]
  BY <1>2, <1>3, <1>5, <1>7, RunSteps
<1>9. PushesOK'
  <2>1. \A q \in Pushers : run'[q].pc = "record" => q # p /\ run'[q] = run[q] /\ run[q].d \in Deployments
    BY <1>3, <1>8, RunFields DEF RunOK, HelmInv, RowsOK
  <2>2. d \notin doubt' => (d \notin doubt \/ last[d] = sha) /\ (d \in doubt => ~Awaited(d, p))
    BY <1>4
  <2>3. d \notin doubt' => last[d] = sha
    BY <1>1, <2>2 DEF HelmInv, PushesOK, d, sha
  <2>4. d \notin doubt' => \A q \in Pushers : run'[q].pc = "record" => run'[q].d # d
    <3> SUFFICES ASSUME d \notin doubt', NEW q \in Pushers, run'[q].pc = "record", run'[q].d = d
                 PROVE  FALSE
      OBVIOUS
    <3>1. q # p /\ run[q].pc = "record" /\ run[q].d = d /\ run[p].d = d
      BY <2>1 DEF d
    <3>2. d \in doubt
      BY <1>1, <3>1 DEF HelmInv, PushesOK
    <3> QED BY <2>2, <3>1, <3>2 DEF Awaited
  <2>5. \A q \in Pushers : run'[q].pc = "record" =>
          last'[run'[q].d] = run'[q].sha \/ run'[q].d \in doubt'
    BY <1>2, <1>6, <2>1, <2>4 DEF HelmInv, PushesOK
  <2>6. \A q, s \in Pushers :
          q # s /\ run'[q].pc = "record" /\ run'[s].pc = "record" /\ run'[q].d = run'[s].d
              => run'[q].d \in doubt'
    BY <1>6, <2>1, <2>4 DEF HelmInv, PushesOK
  <2>7. LedgerIsLastPush'
    <3> SUFFICES ASSUME NEW e \in Deployments, Exists(e)', row'[e].sha # last'[e], e \notin doubt'
                 PROVE  \E q \in Pushers : run'[q].pc = "record" /\ run'[q].d = e
      BY DEF LedgerIsLastPush
    <3>0. Exists(e)
      BY <1>5 DEF Rewritten, Exists
    <3>1. e # d
      BY <1>2, <1>5, <2>3, <3>0
    <3>2. row[e].sha # last[e] /\ e \notin doubt
      BY <1>2, <1>5, <1>6, <3>0, <3>1
    <3>3. PICK q \in Pushers : run[q].pc = "record" /\ run[q].d = e
      BY <3>0, <3>2 DEF HelmInv, PushesOK, LedgerIsLastPush
    <3>4. q # p
      BY <3>1, <3>3 DEF d
    <3> QED BY <1>8, <3>3, <3>4
  <2> QED BY <2>5, <2>6, <2>7 DEF PushesOK
<1>10. RowsOK' /\ AskOK' /\ FormsOK'
  BY <1>2, <1>5, <1>6, <1>7, RewrittenKeeps DEF HelmInv, RowsOK
<1>11. PlainOK' /\ SiteOK' /\ AccountsOK' /\ WorkersOK' /\ SelvesOK' /\ HooksOK' /\ KitsOK'
  BY PlainStays, FaultIsDue, AccountsStays, WorkersStays, SelvesStays, HooksStays, KitsStays
  DEF HelmInv, Records, RecordFails, deploying, paying, accounts
<1> QED BY <1>8, <1>9, <1>10, <1>11 DEF HelmInv

\* A run ends and forgets what it listed.
LEMMA RunEndsKeeps ==
    ASSUME HelmInv, NEW p \in Pushers, RunEnds(p), UNCHANGED <<deploying, setup>>
    PROVE  HelmInv'
<1>0. run \in [Pushers -> Runs] /\ run[p].pc = "next"
  BY DEF HelmInv, RunsOK, RunEnds
<1>1. \A q \in Pushers : run'[q] = IF q = p THEN Idle ELSE run[q]
  BY <1>0 DEF RunEnds
<1>2. UNCHANGED <<ladder, row, last, doubt, minted>>
  BY DEF RunEnds, ledger, deploying
<1>3. RunsOK'
  <2>1. \A q \in Pushers : RunOK(run'[q])
    BY <1>1, IdleOK DEF HelmInv, RunsOK
  <2>2. \A q \in Pushers : RunOK(run[q])'
    BY <1>2, <2>1 DEF RunOK
  <2>3. run' \in [Pushers -> Runs]
    BY <1>0, IdleOK DEF RunEnds, RunOK
  <2>4. \A q \in Crons : run'[q].pc = "upload" => Flag \notin run'[q].seen
    BY <1>1, IdleOK DEF HelmInv, RunsOK, Pushers
  <2> QED BY <2>2, <2>3, <2>4 DEF RunsOK
<1>4. EarlyOK'
  <2>1. early' \in [Crons -> SUBSET Deployments]
        /\ \A q \in Crons : q # p => early'[q] = early[q]
    BY DEF RunEnds, HelmInv, EarlyOK
  <2> QED BY <1>1, <1>2, <2>1, IdleOK DEF HelmInv, EarlyOK, Exists, Pushers
<1>5. PushesOK'
  <2>1. \A q \in Pushers : (run'[q].pc = "record" <=> run[q].pc = "record")
                          /\ (run[q].pc = "record" => run'[q] = run[q])
    BY <1>0, <1>1, IdleOK
  <2> QED BY <1>2, <2>1 DEF HelmInv, PushesOK, LedgerIsLastPush, Exists
<1>6. PlainOK' /\ SiteOK'
  BY PlainStays, SiteStays DEF HelmInv, RunEnds, ledger, deploying, paying
<1> QED
  BY <1>3, <1>4, <1>5, <1>6, RestStays DEF HelmInv, RunEnds, ledger

-----------------------------------------------------------------------------
(***************************************************************************)
(* The manage page.                                                        *)
(***************************************************************************)

\* The rows are those that were there.
SameRows ==
    /\ row' \in [Deployments -> Rows \cup {NoRow}]
    /\ \A e \in Deployments : Exists(e)' <=> Exists(e)

\* A row takes other values.
LEMMA RowTakes ==
    ASSUME RowsOK, NEW d \in Deployments, Exists(d), NEW x \in Rows, row' = [row EXCEPT ![d] = x]
    PROVE  SameRows /\ row'[d] = x /\ \A e \in Deployments : e # d => row'[e] = row[e]
BY NoRowIsNone DEF RowsOK, SameRows, Exists

\* Rows with other values keep what is known of rows and forms,
LEMMA SameRowsKeep ==
    ASSUME HelmInv, SameRows, doubt' \in SUBSET Deployments,
           UNCHANGED <<live, minted, gone, told, last, form, ladder, app>>
    PROVE  RowsOK' /\ FormsOK'
<1>1. RowsOK'
  BY DEF HelmInv, RowsOK, SameRows, Exists
<1>2. \A f \in Forms : form[f].pc \in {"log", "seed", "link"} => Exists(form[f].d)'
  BY DEF HelmInv, FormsOK, FormOK, RowsOK, SameRows
<1>3. \A f \in Forms : FormOK(form[f])'
  BY <1>2 DEF HelmInv, FormsOK, FormOK
<1> QED BY <1>1, <1>3 DEF HelmInv, FormsOK

\* and with the same shas what is known of pushes.
LEMMA SameShasKeep ==
    ASSUME HelmInv, SameRows, UNCHANGED <<run, last, doubt>>,
           \A e \in Deployments : Exists(e) => row'[e].sha = row[e].sha
    PROVE  PushesOK'
BY DEF HelmInv, PushesOK, LedgerIsLastPush, SameRows

\* What an owner asks for is there until it is deleted.
LEMMA AskedExists ==
    ASSUME HelmInv, ask.act \in {"pause", "resume", "rotate", "revoke", "delete"}
    PROVE  /\ ask.d \in Deployments /\ ask \in Asks
           /\ ask.act # "delete" => ask.d \in live \cup gone /\ Exists(ask.d) /\ row[ask.d] \in Rows
<1>1. ask # NoAsk
  BY DEF NoAsk
<1>2. ask \in Asks /\ ask.d \in Deployments
  BY <1>1 DEF HelmInv, AskOK, Asks
<1>3. ask.act # "delete" => Exists(ask.d) /\ ask.d \in live \cup gone
  BY DEF HelmInv, AskOK
<1>4. ask.act # "delete" => row[ask.d] \in Rows
  BY <1>2, <1>3 DEF HelmInv, RowsOK, Exists
<1> QED BY <1>2, <1>3, <1>4

\* No request is fine.
LEMMA NoAskOK == ASSUME ask' = NoAsk PROVE AskOK'
BY DEF AskOK, NoAsk

\* The owner asks for something with a manage link that works.
LEMMA AskArrivesKeeps ==
    ASSUME HelmInv, NEW act, NEW d \in Deployments, AskArrives(act, d), UNCHANGED <<deploying, setup>>
    PROVE  HelmInv'
<1>1. AskOK'
  <2>1. ask'.act = act /\ ask'.d = d /\ ask' \in Asks
    BY DEF AskArrives, Asks
  <2> QED BY <2>1 DEF AskOK, AskArrives, ledger, Exists
<1>2. PlainOK'
  BY UpdatesAssumption DEF HelmInv, PlainOK, AskArrives, deploying, paying
<1> QED
  BY <1>1, <1>2, SiteStays, AccountsStays, WorkersStays, RowsStays, RunsStays, EarlyStays,
     PushesStays, SelvesStays, HooksStays, FormsStays, KitsStays
  DEF HelmInv, AskArrives, ledger, deploying, paying, accounts

\* A step of the manage page that writes the row of ask.d.
LEMMA ManagedKeeps ==
    ASSUME HelmInv, ask.act \in {"pause", "resume", "rotate"}, ask' = NoAsk,
           NEW x \in Rows, row' = [row EXCEPT ![ask.d] = x], x.sha = row[ask.d].sha,
           early' \in [Crons -> SUBSET Deployments],
           \A p \in Crons : early[p] \subseteq early'[p],
           x.paused => row[ask.d].paused \/
                       \A p \in Crons : ask.d \in run[p].todo => ask.d \in early'[p],
           UNCHANGED <<manifest, ladder, enforced, live, worker, accepted, faults, last,
                       run, self, edits, acts, doubt, gone>>,
           UNCHANGED <<deploying, setup>>
    PROVE  HelmInv'
<1> DEFINE d == ask.d
<1>1. d \in Deployments /\ Exists(d) /\ row[d] \in Rows
  BY AskedExists
<1>2. x.sha = row[d].sha
  OBVIOUS
<1>p. x.paused => row[d].paused \/ \A p \in Crons : d \in run[p].todo => d \in early'[p]
  OBVIOUS
<1>r. row' = [row EXCEPT ![d] = x]
  OBVIOUS
<1> HIDE DEF d
<1>3. SameRows /\ row'[d] = x /\ \A e \in Deployments : e # d => row'[e] = row[e]
  BY <1>1, <1>r, RowTakes DEF HelmInv
<1>4. RowsOK' /\ FormsOK'
  BY <1>3, SameRowsKeep DEF deploying, accounts, HelmInv, RowsOK
<1>5. PushesOK'
  BY <1>2, <1>3, SameShasKeep
<1>6. EarlyOK'
  <2>1. \A p \in Crons : run[p].todo \subseteq Deployments
    BY RunFields DEF Pushers
  <2>2. ASSUME NEW p \in Crons, NEW e \in run[p].todo, Exists(e)', row'[e].paused
        PROVE  e \in early'[p]
    <3>1. CASE e = d
      BY <1>1, <1>3, <1>p, <2>2, <3>1 DEF HelmInv, EarlyOK
    <3>2. CASE e # d
      BY <1>3, <2>1, <2>2, <3>2 DEF HelmInv, EarlyOK, Exists
    <3> QED BY <3>1, <3>2
  <2> QED BY <2>2 DEF EarlyOK
<1> QED
  BY <1>4, <1>5, <1>6, NoAskOK, PlainStays, SiteStays, AccountsStays, WorkersStays, RunsStays,
     SelvesStays, HooksStays, KitsStays
  DEF HelmInv, deploying, paying, accounts

\* A pause: the runs that had listed the deployment are noted in early.
LEMMA PausesKeeps ==
    ASSUME HelmInv, Pauses, UNCHANGED <<deploying, setup>>
    PROVE  HelmInv'
<1> DEFINE x == [row[ask.d] EXCEPT !.paused = TRUE]
<1>1. ask.act = "pause" /\ ask' = NoAsk
  BY DEF Pauses
<1>2. ask.d \in Deployments /\ row[ask.d] \in Rows
  BY <1>1, AskedExists
<1>3. x \in Rows /\ x.sha = row[ask.d].sha
  BY <1>2 DEF Rows
<1>4. row' = [row EXCEPT ![ask.d] = x]
  BY DEF Pauses
<1>5. early' \in [Crons -> SUBSET Deployments]
  BY <1>2 DEF Pauses, Overtaken, HelmInv, EarlyOK
<1>6. \A p \in Crons : early[p] \subseteq early'[p] /\ (ask.d \in run[p].todo => ask.d \in early'[p])
  BY DEF Pauses, Overtaken
<1> HIDE DEF x
<1> QED BY <1>1, <1>3, <1>4, <1>5, <1>6, ManagedKeeps DEF Pauses

\* A resume.
LEMMA ResumesKeeps ==
    ASSUME HelmInv, Resumes, UNCHANGED <<deploying, setup>>
    PROVE  HelmInv'
<1> DEFINE x == [row[ask.d] EXCEPT !.paused = FALSE]
<1>1. ask.act = "resume" /\ ask' = NoAsk
  BY DEF Resumes
<1>2. ask.d \in Deployments /\ row[ask.d] \in Rows
  BY <1>1, AskedExists
<1>3. x \in Rows /\ x.sha = row[ask.d].sha /\ ~x.paused
  BY <1>2 DEF Rows
<1>4. row' = [row EXCEPT ![ask.d] = x]
  BY DEF Resumes
<1>5. early' \in [Crons -> SUBSET Deployments] /\ early' = early
  BY DEF Resumes, HelmInv, EarlyOK
<1> HIDE DEF x
<1> QED BY <1>1, <1>3, <1>4, <1>5, ManagedKeeps DEF Resumes

\* A new token.
LEMMA RotatesKeeps ==
    ASSUME HelmInv, Rotates, UNCHANGED <<deploying, setup>>
    PROVE  HelmInv'
<1>0. PICK t \in CfTokens : row' = [row EXCEPT ![ask.d].token = t, ![ask.d].error = FALSE]
  BY DEF Rotates
<1> DEFINE x == [row[ask.d] EXCEPT !.token = t, !.error = FALSE]
<1>1. ask.act = "rotate" /\ ask' = NoAsk
  BY DEF Rotates
<1>2. ask.d \in Deployments /\ row[ask.d] \in Rows
  BY <1>1, AskedExists
<1>3. x \in Rows /\ x.sha = row[ask.d].sha /\ (x.paused <=> row[ask.d].paused)
  BY <1>2 DEF Rows
<1>4. row' = [row EXCEPT ![ask.d] = x]
  BY <1>0
<1>5. early' \in [Crons -> SUBSET Deployments] /\ early' = early
  BY DEF Rotates, HelmInv, EarlyOK
<1> HIDE DEF x
<1> QED BY <1>1, <1>3, <1>4, <1>5, ManagedKeeps DEF Rotates

\* A link is revoked, and a new one is live.
LEMMA RevokesKeeps ==
    ASSUME HelmInv, Revokes, UNCHANGED <<deploying, setup>>
    PROVE  HelmInv'
<1>1. ask.act = "revoke" /\ ask \in Asks /\ ask.d \in Deployments /\ ask.d \in live \cup gone
  BY AskedExists DEF Revokes
<1>2. live' = live \ {ask.d} /\ gone' = gone \cup {ask.d} /\ row' = row /\ form' = form
  BY DEF Revokes, deploying
<1>3. AskOK'
  <2>1. ask'.act = "delete" /\ ask'.d = ask.d /\ ask' \in Asks
    BY <1>1 DEF Revokes, Asks
  <2> QED BY <1>2, <2>1 DEF AskOK
<1>4. RowsOK'
  BY <1>1, <1>2 DEF HelmInv, RowsOK, Exists, Revokes, deploying
<1>5. FormsOK'
  <2>1. live' \cup gone' = live \cup gone
    BY <1>1, <1>2
  <2>2. \A f \in Forms : FormOK(form[f])'
    BY <1>2, <2>1 DEF HelmInv, FormsOK, FormOK, Exists, Revokes, deploying, accounts
  <2> QED BY <1>2, <2>2 DEF HelmInv, FormsOK
<1> QED
  BY <1>3, <1>4, <1>5, PlainStays, SiteStays, AccountsStays, WorkersStays, RunsStays, EarlyStays,
     PushesStays, SelvesStays, HooksStays, KitsStays
  DEF HelmInv, Revokes, deploying, paying, accounts

\* A row is deleted, and no run is told: what it still pushes finds no row.
LEMMA DeletesKeeps ==
    ASSUME HelmInv, Deletes, UNCHANGED <<deploying, setup>>
    PROVE  HelmInv'
<1> DEFINE d == ask.d
<1>1. d \in Deployments /\ d \in gone /\ d \notin live
  BY AskedExists DEF Deletes, HelmInv, AskOK
<1>2. /\ row' \in [Deployments -> Rows \cup {NoRow}]
      /\ \A e \in Deployments : e # d => row'[e] = row[e]
      /\ row'[d] = row[d] \/ row'[d] = NoRow
  BY <1>1 DEF Deletes, HelmInv, RowsOK
<1> HIDE DEF d
<1>3. \A e \in Deployments : Exists(e)' => Exists(e) /\ row'[e] = row[e]
  BY <1>2 DEF Exists
<1>4. \A e \in Deployments : e \notin gone \/ e \in live => row'[e] = row[e]
  BY <1>1, <1>2
<1>5. RowsOK'
  BY <1>2, <1>3, <1>4 DEF HelmInv, RowsOK, Exists, Deletes, deploying
<1>6. FormsOK'
  <2>1. \A f \in Forms : form[f].pc \in {"log", "seed", "link"} => Exists(form[f].d)'
    BY <1>4 DEF HelmInv, FormsOK, FormOK, RowsOK, Exists, Deletes, deploying
  <2>2. \A f \in Forms : FormOK(form[f])'
    BY <2>1 DEF HelmInv, FormsOK, FormOK, Deletes, deploying, accounts
  <2> QED BY <2>2 DEF HelmInv, FormsOK, Deletes, deploying
<1>7. EarlyOK'
  <2>1. \A p \in Crons : run[p].todo \subseteq Deployments
    BY RunFields DEF Pushers
  <2> QED BY <1>3, <2>1 DEF HelmInv, EarlyOK, Deletes
<1>8. PushesOK'
  BY <1>3 DEF HelmInv, PushesOK, LedgerIsLastPush, Deletes
<1> QED
  BY <1>5, <1>6, <1>7, <1>8, NoAskOK, PlainStays, SiteStays, AccountsStays, WorkersStays, RunsStays,
     SelvesStays, HooksStays, KitsStays
  DEF HelmInv, Deletes, deploying, paying, accounts

\* A link runs out: what was told of it is over, and a request under way
\* goes on with the row.
LEMMA LinkExpiresKeeps ==
    ASSUME HelmInv, NEW d \in Deployments, LinkExpires(d), UNCHANGED <<deploying, setup>>
    PROVE  HelmInv'
<1>1. d \in live /\ live' = live \ {d} /\ gone' = gone \cup {d} /\ row' = row /\ form' = form /\ ask' = ask
  BY DEF LinkExpires, deploying
<1>2. live' \cup gone' = live \cup gone
  BY <1>1
<1>3. AskOK'
  BY <1>1, <1>2 DEF HelmInv, AskOK, Exists
<1>4. RowsOK'
  BY <1>1 DEF HelmInv, RowsOK, Exists, LinkExpires, deploying
<1>5. FormsOK'
  <2>1. \A f \in Forms : FormOK(form[f])'
    BY <1>1, <1>2 DEF HelmInv, FormsOK, FormOK, Exists, LinkExpires, deploying, accounts
  <2> QED BY <1>1, <2>1 DEF HelmInv, FormsOK
<1>6. PlainOK'
  BY UpdatesAssumption DEF HelmInv, PlainOK, LinkExpires, deploying, paying
<1> QED
  BY <1>3, <1>4, <1>5, <1>6, SiteStays, AccountsStays, WorkersStays, RunsStays, EarlyStays,
     PushesStays, SelvesStays, HooksStays, KitsStays
  DEF HelmInv, LinkExpires, deploying, paying, accounts

-----------------------------------------------------------------------------
(***************************************************************************)
(* The agent in the Worker, and what happens outside.                      *)
(***************************************************************************)

\* What an agent that updates itself holds.
LEMMA SelfFields ==
    ASSUME HelmInv, NEW c \in Customers
    PROVE  /\ self[c] \in Selves /\ SelfOK(self[c]) /\ Still \in Selves /\ SelfOK(Still)
           /\ worker[c] \in Scripts /\ Safe(worker[c].names)
           /\ Still.pc = "idle" /\ Still.sha = 0 /\ Still.seen = {}
<1>1. Still \in Selves /\ Still.pc = "idle" /\ Still.sha = 0 /\ Still.seen = {}
  BY LedgerAssumption DEF Still, Selves
<1>2. SelfOK(Still)
  BY <1>1 DEF SelfOK, Safe, Data
<1> QED BY <1>1, <1>2 DEF HelmInv, SelvesOK, WorkersOK

\* The agent of c goes on.
LEMMA SelfGoes ==
    ASSUME SelvesOK, NEW c \in Customers, NEW r, SelfOK(r), self' = [self EXCEPT ![c] = r],
           UNCHANGED ladder
    PROVE  SelvesOK'
<1>1. r \in Selves
  BY DEF SelfOK
<1>2. \A k \in Customers : self'[k] = IF k = c THEN r ELSE self[k]
  BY DEF SelvesOK
<1>3. \A k \in Customers : SelfOK(self'[k])
  BY <1>2 DEF SelvesOK
<1>4. \A k \in Customers : SelfOK(self[k])'
  BY <1>3 DEF SelfOK
<1> QED BY <1>1, <1>4 DEF SelvesOK

\* Everything that an agent does not change.
LEMMA AgentRestStays ==
    ASSUME HelmInv, PlainOK', SiteOK', WorkersOK', SelvesOK',
           UNCHANGED <<ladder, row, live, last, doubt, run, ask, gone, early>>,
           UNCHANGED <<deploying, setup>>
    PROVE  HelmInv'
BY AccountsStays, RowsStays, AskStays, RunsStays, EarlyStays, PushesStays, HooksStays,
   FormsStays, KitsStays
DEF HelmInv, deploying, paying, accounts

\* An agent deploys itself.
LEMMA SelfDeploysKeeps ==
    ASSUME HelmInv, NEW c \in Customers, SelfDeploys(c), UNCHANGED <<deploying, setup>>
    PROVE  HelmInv'
<1>1. PICK names \in {worker[c].names, {}} :
        worker' = [worker EXCEPT ![c].code = "custom", ![c].names = names]
  BY DEF SelfDeploys
<1>2. PICK pc \in {"claim", "idle"} : self' = [self EXCEPT ![c].pc = pc]
  BY DEF SelfDeploys
<1> DEFINE x == [worker[c] EXCEPT !.code = "custom", !.names = names]
           r == [self[c] EXCEPT !.pc = pc]
<1>3. Safe(names)
  BY SelfFields DEF Safe, Data
<1>4. x \in Scripts /\ x.names = names
  BY <1>3, SelfFields DEF Scripts, Safe
<1>5. worker' = [worker EXCEPT ![c] = x]
  BY <1>1
<1>6. r \in Selves
  BY SelfFields DEF Selves
<1>7. r.pc = pc /\ r.seen = self[c].seen
  BY SelfFields DEF Selves
<1>8. SelfOK(r)
  BY <1>6, <1>7, SelfFields DEF SelfOK
<1>9. self' = [self EXCEPT ![c] = r]
  BY <1>2
<1> HIDE DEF x, r
<1>10. WorkersOK'
  BY <1>3, <1>4, <1>5 DEF HelmInv, WorkersOK
<1>11. SelvesOK'
  BY <1>8, <1>9, SelfGoes DEF SelfDeploys, HelmInv
<1>12. PlainOK' /\ SiteOK'
  BY SiteStays, UpdatesAssumption DEF HelmInv, PlainOK, SelfDeploys, deploying, paying
<1> QED BY <1>10, <1>11, <1>12, AgentRestStays DEF SelfDeploys

\* An agent sets the marker on its Worker.
LEMMA SelfClaimsKeeps ==
    ASSUME HelmInv, NEW c \in Customers, SelfClaims(c), UNCHANGED <<deploying, setup>>
    PROVE  HelmInv'
<1>1. Safe(worker[c].names \cup {Flag})
  BY SelfFields DEF Safe, Names, Data, Flag
<1>2. WorkersOK'
  <2> DEFINE names == worker[c].names \cup {Flag}
  <2>1. worker' = [worker EXCEPT ![c].names = names] \/ worker' = worker
    BY DEF SelfClaims
  <2> HIDE DEF names
  <2>2. Safe(names)
    BY <1>1 DEF names
  <2> QED BY <2>1, <2>2, NamesKeep, WorkersStays DEF HelmInv
<1>3. SelvesOK'
  BY SelfFields, SelfGoes DEF SelfClaims, HelmInv
<1>4. PlainOK' /\ SiteOK'
  BY PlainStays, FaultIsDue DEF HelmInv, SelfClaims, deploying, paying
<1> QED BY <1>2, <1>3, <1>4, AgentRestStays DEF SelfClaims

\* An agent begins to update itself to the latest bundle.
LEMMA SelfUpdatesKeeps ==
    ASSUME HelmInv, NEW c \in Customers, SelfUpdates(c), UNCHANGED <<deploying, setup>>
    PROVE  HelmInv'
<1> DEFINE r == [self[c] EXCEPT !.pc = "read", !.sha = manifest]
<1>1. manifest \in DOMAIN ladder /\ manifest \in 0 .. MaxSha
  BY BundlesAreShas DEF HelmInv
<1>2. r \in Selves
  BY <1>1, SelfFields DEF Selves
<1>3. r.pc = "read" /\ r.sha = manifest /\ r.seen = self[c].seen
  BY SelfFields DEF Selves
<1>4. SelfOK(r)
  BY <1>1, <1>2, <1>3, SelfFields DEF SelfOK
<1>5. self' = [self EXCEPT ![c] = r]
  BY DEF SelfUpdates
<1> HIDE DEF r
<1>6. SelvesOK'
  BY <1>4, <1>5, SelfGoes DEF SelfUpdates, HelmInv, ledger
<1>7. PlainOK' /\ SiteOK' /\ WorkersOK'
  BY SiteStays, WorkersStays, UpdatesAssumption DEF HelmInv, PlainOK, SelfUpdates, ledger, deploying, paying
<1> QED BY <1>6, <1>7, AgentRestStays DEF SelfUpdates, ledger

\* An agent reads its own bindings.
LEMMA SelfReadsKeeps ==
    ASSUME HelmInv, NEW c \in Customers, SelfReads(c), UNCHANGED <<deploying, setup>>
    PROVE  HelmInv'
<1>1. PICK seen \in {worker[c].names, self[c].seen} : self' = [self EXCEPT ![c] = [self[c] EXCEPT !.pc = "put", !.seen = seen]]
  <2>1. [self[c] EXCEPT !.pc = "put"] = [self[c] EXCEPT !.pc = "put", !.seen = self[c].seen]
    BY SelfFields DEF Selves
  <2> QED BY <2>1 DEF SelfReads
<1> DEFINE r == [self[c] EXCEPT !.pc = "put", !.seen = seen]
<1>2. Safe(seen)
  BY SelfFields DEF SelfOK
<1>3. r \in Selves
  BY <1>2, SelfFields DEF Selves, Safe
<1>4. r.pc = "put" /\ r.sha = self[c].sha /\ r.seen = seen
  BY SelfFields DEF Selves
<1>5. SelfOK(r)
  BY <1>2, <1>3, <1>4, SelfFields DEF SelfOK, SelfReads
<1>6. self' = [self EXCEPT ![c] = r]
  BY <1>1
<1> HIDE DEF r
<1>7. SelvesOK'
  BY <1>5, <1>6, SelfGoes DEF SelfReads, HelmInv
<1>8. PlainOK' /\ SiteOK' /\ WorkersOK'
  BY PlainStays, FaultIsDue, WorkersStays DEF HelmInv, SelfReads, deploying, paying
<1> QED BY <1>7, <1>8, AgentRestStays DEF SelfReads

\* An agent uploads the bundle with the bindings it read.
LEMMA SelfPutsKeeps ==
    ASSUME HelmInv, NEW c \in Customers, SelfPuts(c), UNCHANGED <<deploying, setup>>
    PROVE  HelmInv'
<1> DEFINE r == [Still EXCEPT !.pc = "clear"]
<1>1. self[c].sha \in DOMAIN ladder /\ Safe(self[c].seen)
  BY SelfFields DEF SelfOK, SelfPuts
<1>2. WorkersOK'
  BY <1>1, PutKeeps, WorkersStays DEF SelfPuts, Merged, HelmInv
<1>3. r \in Selves
  BY SelfFields DEF Selves
<1>4. r.pc = "clear" /\ r.seen = {}
  BY SelfFields DEF Selves
<1>5. SelfOK(r)
  BY <1>3, <1>4 DEF SelfOK, Safe, Data
<1>6. self' = [self EXCEPT ![c] = r] \/ self' = [self EXCEPT ![c] = Still]
  BY DEF SelfPuts
<1> HIDE DEF r
<1>7. SelvesOK'
  BY <1>5, <1>6, SelfFields, SelfGoes DEF SelfPuts, HelmInv
<1>8. PlainOK' /\ SiteOK'
  BY PlainStays, FaultIsDue DEF HelmInv, SelfPuts, deploying, paying
<1> QED BY <1>2, <1>7, <1>8, AgentRestStays DEF SelfPuts

\* An agent clears the marker.
LEMMA SelfClearsKeeps ==
    ASSUME HelmInv, NEW c \in Customers, SelfClears(c), UNCHANGED <<deploying, setup>>
    PROVE  HelmInv'
<1>2. WorkersOK'
  <2> DEFINE names == worker[c].names \ {Flag}
  <2>1. worker' = [worker EXCEPT ![c].names = names] \/ worker' = worker
    BY DEF SelfClears
  <2>2. Safe(names)
    BY SelfFields DEF Safe
  <2> HIDE DEF names
  <2> QED BY <2>1, <2>2, NamesKeep, WorkersStays DEF HelmInv
<1>3. SelvesOK'
  BY SelfFields, SelfGoes DEF SelfClears, HelmInv
<1>4. PlainOK' /\ SiteOK'
  BY PlainStays, FaultIsDue DEF HelmInv, SelfClears, deploying, paying
<1> QED BY <1>2, <1>3, <1>4, AgentRestStays DEF SelfClears

\* A bundle is published at the end of the ladder.
LEMMA PublishesKeeps ==
    ASSUME HelmInv, Publishes, UNCHANGED <<deploying, setup>>
    PROVE  HelmInv'
<1>1. SiteOK'
  BY DEF HelmInv, SiteOK, Publishes
<1>2. PlainOK' /\ WorkersOK' /\ SelvesOK'
  BY PlainStays, WorkersStays, SelvesStays DEF HelmInv, Publishes, pushing, deploying, paying
<1> QED BY <1>1, <1>2, AgentRestStays DEF Publishes, pushing

\* A customer drops a token.
LEMMA TokenDroppedKeeps ==
    ASSUME HelmInv, NEW c \in Customers, NEW t \in CfTokens, TokenDropped(c, t), UNCHANGED <<deploying, setup>>
    PROVE  HelmInv'
<1>1. SiteOK'
  BY DEF HelmInv, SiteOK, TokenDropped
<1>2. PlainOK'
  BY UpdatesAssumption DEF HelmInv, PlainOK, TokenDropped, deploying, paying
<1>3. WorkersOK' /\ SelvesOK'
  BY WorkersStays, SelvesStays DEF HelmInv, TokenDropped
<1> QED BY <1>1, <1>2, <1>3, AgentRestStays DEF TokenDropped

-----------------------------------------------------------------------------
(***************************************************************************)
(* The webhook and the checkout session.                                   *)
(***************************************************************************)

\* What the composition adds to a step of the deploy side.
Beside ==
    /\ early' = [p \in Crons |-> early[p] \cup (run[p].todo \cap NewlyPaused)]
    /\ UNCHANGED <<run, ask, self, edits, acts, gone, setup>>

\* The runs that had listed what is paused are noted.
LEMMA PausedAreEarly ==
    ASSUME HelmInv, Beside,
           \A d \in Deployments : Exists(d)' /\ row'[d].paused => Exists(d)
    PROVE  EarlyOK'
<1>1. \A p \in Crons : run[p].todo \subseteq Deployments /\ early[p] \in SUBSET Deployments
                       /\ early'[p] = early[p] \cup (run[p].todo \cap NewlyPaused)
  BY RunFields DEF Pushers, Beside, HelmInv, EarlyOK
<1>2. early' \in [Crons -> SUBSET Deployments]
  BY <1>1 DEF Beside
<1>3. \A p \in Crons : \A d \in run[p].todo : Exists(d)' /\ row'[d].paused => d \in early'[p]
  BY <1>1 DEF HelmInv, EarlyOK, NewlyPaused
<1> QED BY <1>2, <1>3 DEF EarlyOK, Beside

\* A step that leaves the rows and the deliveries as they are.
LEMMA FormRest ==
    ASSUME HelmInv, Beside, PlainOK', SiteOK', AccountsOK', WorkersOK', FormsOK', app \subseteq app',
           UNCHANGED <<ladder, row, live, last, doubt, minted, told, hook, recorded, applied, processed>>
    PROVE  HelmInv'
<1>1. EarlyOK'
  BY PausedAreEarly DEF Exists
<1>2. KitsOK'
  BY DEF HelmInv, KitsOK, KitOK, Beside
<1> QED
  BY <1>1, <1>2, RowsStays, AskStays, RunsStays, PushesStays, SelvesStays, HooksStays
  DEF HelmInv, Beside

\* A delivery goes on.
LEMMA HookMoves ==
    ASSUME HooksOK, NEW e \in Events, NEW n \in {1, 2},
           NEW s \in {"off", "due", "new", "apply", "mark", "ok", "failed"},
           hook' = [hook EXCEPT ![<<e, n>>] = s]
    PROVE  /\ hook' \in [Events \X {1, 2} -> {"off", "due", "new", "apply", "mark", "ok", "failed"}]
           /\ \A g \in Events, m \in {1, 2} :
                 hook'[<<g, m>>] = IF g = e /\ m = n THEN s ELSE hook[<<g, m>>]
BY DEF HooksOK

\* What holds of the deliveries of an event.
LEMMA HookFacts == ASSUME HooksOK, NEW e \in Events PROVE HookOK(e) /\ applied[e] \in {0, 1}
<1>1. HookOK(e)
  BY DEF HooksOK
<1>2. applied[e] \in 0 .. 1
  BY <1>1 DEF HookOK
<1> QED BY <1>1, <1>2

\* One delivery goes on and the others keep to their event.
LEMMA HooksHold ==
    ASSUME HooksOK, NEW e \in Events, NEW n \in {1, 2},
           NEW s \in {"off", "due", "new", "apply", "mark", "ok", "failed"},
           hook' = [hook EXCEPT ![<<e, n>>] = s],
           recorded \subseteq recorded', recorded' \in SUBSET Events,
           applied' \in [Events -> 0 .. 1], \A g \in Events : g # e => applied'[g] = applied[g],
           applied[e] = 1 => applied'[e] = 1,
           applied'[e] = 1 => e \in recorded',
           s = "mark" => applied'[e] = 1,
           s = "apply" => e \in recorded' /\ applied'[e] = 0,
           s = "apply" \/ applied'[e] # applied[e] => \A m \in {1, 2} : m # n => hook[<<e, m>>] # "apply",
           processed' \subseteq processed \cup {e},
           e \in processed' => applied'[e] = 1
    PROVE  HooksOK'
<1>1. /\ hook' \in [Events \X {1, 2} -> {"off", "due", "new", "apply", "mark", "ok", "failed"}]
      /\ \A g \in Events, m \in {1, 2} : hook'[<<g, m>>] = IF g = e /\ m = n THEN s ELSE hook[<<g, m>>]
  BY DEF HooksOK
<1>2. ASSUME NEW g \in Events
      PROVE  HookOK(g)'
  <2>1. applied'[g] \in 0 .. 1 /\ (applied'[g] = 1 => g \in recorded')
    BY HookFacts DEF HookOK
  <2>2. ASSUME NEW m \in {1, 2}
        PROVE  /\ hook'[<<g, m>>] = "apply" =>
                    g \in recorded' /\ applied'[g] = 0
               /\ hook'[<<g, m>>] = "mark" => applied'[g] = 1
    <3>1. /\ hook[<<g, m>>] = "apply" => g \in recorded /\ applied[g] = 0
          /\ hook[<<g, m>>] = "mark" => applied[g] = 1
      BY HookFacts DEF HookOK
    <3>2. hook'[<<g, m>>] = IF g = e /\ m = n THEN s ELSE hook[<<g, m>>]
      BY <1>1
    <3>3. CASE g = e /\ m = n
      BY <3>2, <3>3
    <3>4. CASE g = e /\ m # n
      BY <3>1, <3>2, <3>4
    <3>5. CASE g # e
      BY <3>1, <3>2, <3>5
    <3> QED BY <3>3, <3>4, <3>5
  <2>3. ASSUME NEW m \in {1, 2}, NEW k \in {1, 2}, m # k, hook'[<<g, m>>] = "apply"
        PROVE  hook'[<<g, k>>] # "apply"
    <3>1. hook[<<g, m>>] = "apply" => hook[<<g, k>>] # "apply"
      BY <2>3, HookFacts DEF HookOK
    <3>2. hook'[<<g, m>>] = (IF g = e /\ m = n THEN s ELSE hook[<<g, m>>])
          /\ hook'[<<g, k>>] = (IF g = e /\ k = n THEN s ELSE hook[<<g, k>>])
      BY <1>1
    <3> QED BY <2>3, <3>1, <3>2
  <2> QED BY <2>1, <2>2, <2>3 DEF HookOK
<1>3. processed' \subseteq {g \in recorded' : applied'[g] = 1}
  <2>1. \A g \in processed : g \in recorded /\ applied[g] = 1
    BY DEF HooksOK
  <2> QED BY <2>1 DEF HooksOK
<1> QED BY <1>1, <1>2, <1>3 DEF HooksOK

\* What a step of the webhook leaves alone.
LEMMA WebhookRest ==
    ASSUME HelmInv, Beside, HooksOK', PlainOK', SiteOK', RowsOK', PushesOK', EarlyOK', FormsOK',
           \A d \in Deployments : Exists(d) => Exists(d)',
           UNCHANGED <<ladder, live, worker, claim, cookie, form, tries, accounts, minted, told>>
    PROVE  HelmInv'
BY AccountsStays, WorkersStays, AskKept, RunsStays, SelvesStays, KitsStays
DEF HelmInv, Beside, accounts

\* A step of the webhook that only handles its delivery.
LEMMA DeliveryRest ==
    ASSUME HelmInv, Beside, HooksOK', SiteOK', UNCHANGED <<customers, subs, row, last, doubt>>,
           UNCHANGED <<ladder, live, worker, claim, cookie, form, tries, accounts, minted, told>>
    PROVE  HelmInv'
<1>1. EarlyOK'
  BY PausedAreEarly DEF Exists
<1> QED
  BY <1>1, WebhookRest, PlainStays, RowsStays, PushesStays, FormsStays DEF HelmInv, Beside, accounts, Exists

\* A delivery of a webhook looks for its event.
LEMMA LooksKeeps ==
    ASSUME HelmInv, Beside, NEW e \in Events, NEW n \in {1, 2}, Looks(e, n)
    PROVE  HelmInv'
<1>1. PICK s \in {"ok", "new"} : hook' = [hook EXCEPT ![<<e, n>>] = s]
  BY DEF Looks
<1>2. HooksOK'
  BY <1>1, HookFacts, HooksHold DEF HelmInv, HooksOK, HookOK, Looks
<1>3. SiteOK'
  BY SiteStays DEF HelmInv, Looks, ledger
<1> QED BY <1>2, <1>3, DeliveryRest DEF Looks, ledger

\* A delivery enters its event: only the first finds none, and only it goes on
\* to apply.
LEMMA EntersKeeps ==
    ASSUME HelmInv, Beside, NEW e \in Events, NEW n \in {1, 2}, Enters(e, n)
    PROVE  HelmInv'
<1>1. PICK s \in {"failed", "apply"} : /\ hook' = [hook EXCEPT ![<<e, n>>] = s]
                                       /\ s = "apply" => e \notin recorded
  BY DEF Enters
<1>2. recorded' = recorded \cup {e} /\ applied' = applied /\ processed' = processed
  BY DEF Enters
<1>3. HooksOK'
  <2>1. applied[e] \in {0, 1} /\ (applied[e] = 1 => e \in recorded)
        /\ \A m \in {1, 2} : hook[<<e, m>>] = "apply" => e \in recorded
    BY HookFacts DEF HelmInv, HookOK
  <2>2. recorded' \in SUBSET Events /\ applied' \in [Events -> 0 .. 1]
        /\ (e \in processed => applied[e] = 1)
    BY <1>2 DEF HelmInv, HooksOK
  <2> QED BY <1>1, <1>2, <2>1, <2>2, HooksHold DEF HelmInv
<1>4. SiteOK'
  BY SiteStays DEF HelmInv, Enters, ledger
<1> QED BY <1>3, <1>4, DeliveryRest DEF Enters, ledger

\* A delivery fails before it has changed anything.
LEMMA ApplyFailsKeeps ==
    ASSUME HelmInv, Beside, NEW e \in Events, NEW n \in {1, 2}, ApplyFails(e, n)
    PROVE  HelmInv'
<1>1. hook' = [hook EXCEPT ![<<e, n>>] = "failed"]
  BY DEF ApplyFails
<1>2. HooksOK'
  BY <1>1, HookFacts, HooksHold DEF HelmInv, HooksOK, HookOK, ApplyFails
<1>3. SiteOK'
  BY FaultIsDue DEF HelmInv, ApplyFails
<1> QED BY <1>2, <1>3, DeliveryRest DEF ApplyFails

\* A delivery marks its event, which was applied.
LEMMA MarksKeeps ==
    ASSUME HelmInv, Beside, NEW e \in Events, NEW n \in {1, 2}, Marks(e, n)
    PROVE  HelmInv'
<1>1. hook' = [hook EXCEPT ![<<e, n>>] = "ok"] /\ processed' = processed \cup {e}
      /\ UNCHANGED <<recorded, applied>>
  BY DEF Marks
<1>2. HooksOK'
  <2>1. applied[e] = 1 /\ e \in recorded
    BY HookFacts DEF HelmInv, HookOK, Marks
  <2>2. recorded' \in SUBSET Events /\ applied' \in [Events -> 0 .. 1]
    BY <1>1 DEF HelmInv, HooksOK
  <2> QED BY <1>1, <2>1, <2>2, HooksHold DEF HelmInv
<1>3. SiteOK'
  BY SiteStays DEF HelmInv, Marks, ledger
<1> QED BY <1>2, <1>3, DeliveryRest DEF Marks, ledger

\* A delivery applies its event, and nobody else does.
LEMMA AppliesKeeps ==
    ASSUME HelmInv, Beside, NEW e \in Events, NEW n \in {1, 2}, Applies(e, n)
    PROVE  HelmInv'
<1> DEFINE c == e[2]
<1>1. c \in Customers
  BY DEF Events
<1>2. hook[<<e, n>>] = "apply" /\ hook' = [hook EXCEPT ![<<e, n>>] = "mark"]
      /\ applied' = [applied EXCEPT ![e] = @ + 1] /\ UNCHANGED <<recorded, processed>>
  BY DEF Applies
<1>3. HooksOK'
  <2>1. applied[e] = 0 /\ e \in recorded /\ \A m \in {1, 2} : m # n => hook[<<e, m>>] # "apply"
    BY <1>2, HookFacts DEF HelmInv, HookOK
  <2>0. PICK s \in {"mark"} : hook' = [hook EXCEPT ![<<e, n>>] = s]
    BY <1>2
  <2>2. applied' \in [Events -> 0 .. 1] /\ \A g \in Events : applied'[g] = IF g = e THEN 1 ELSE applied[g]
    BY <1>2, <2>1 DEF HelmInv, HooksOK
  <2>3. recorded' \in SUBSET Events
    BY <1>2 DEF HelmInv, HooksOK
  <2>4. HooksOK /\ applied'[e] = 1 /\ recorded' = recorded /\ processed' = processed
    BY <1>2, <2>2 DEF HelmInv
  <2> QED BY <2>0, <2>1, <2>2, <2>3, <2>4, HooksHold
<1>4. PlainOK'
  <2>1. customers' \in SUBSET Customers /\ subs' \in [Customers -> {"none", "active", "canceled"}]
    BY <1>1 DEF Applies, HelmInv, PlainOK
  <2> QED BY <2>1 DEF HelmInv, PlainOK, Applies, Beside
<1>5. row' = row \/ row' = [d \in Deployments |-> IF Exists(d) /\ Owner[d] = c
                                                  THEN [row[d] EXCEPT !.paused = TRUE] ELSE row[d]]
  BY DEF Applies
<1> HIDE DEF c
<1>6. SameRows /\ \A d \in Deployments : Exists(d) => row'[d].sha = row[d].sha
  <2>1. CASE row' = row
    BY <2>1 DEF HelmInv, RowsOK, SameRows, Exists
  <2>2. CASE row' = [d \in Deployments |-> IF Exists(d) /\ Owner[d] = c
                                           THEN [row[d] EXCEPT !.paused = TRUE] ELSE row[d]]
    <3>1. ASSUME NEW d \in Deployments, Exists(d)
          PROVE  [row[d] EXCEPT !.paused = TRUE] \in Rows /\ [row[d] EXCEPT !.paused = TRUE].sha = row[d].sha
      BY <3>1 DEF HelmInv, RowsOK, Exists, Rows
    <3>2. \A d \in Deployments : row'[d] \in Rows \cup {NoRow} /\ (Exists(d)' <=> Exists(d))
                                 /\ (Exists(d) => row'[d].sha = row[d].sha)
      BY <2>2, <3>1, NoRowIsNone DEF HelmInv, RowsOK, Exists
    <3> QED BY <2>2, <3>2 DEF SameRows
  <2> QED BY <1>5, <2>1, <2>2
<1>7. UNCHANGED <<ladder, manifest, enforced, accepted, live, minted, gone, told, last, doubt, form, app>>
      /\ (Fault \/ UNCHANGED faults)
  BY DEF Applies, Beside, accounts
<1>8. RowsOK' /\ FormsOK'
  BY <1>6, <1>7, SameRowsKeep DEF HelmInv, RowsOK
<1>9. PushesOK'
  BY <1>6, <1>7, SameShasKeep DEF Beside
<1>10. EarlyOK'
  BY <1>6, PausedAreEarly DEF SameRows
<1>11. SiteOK'
  BY <1>7, FaultIsDue DEF HelmInv
<1>12. \A d \in Deployments : Exists(d) => Exists(d)'
  BY <1>6 DEF SameRows
<1> QED BY <1>3, <1>4, <1>8, <1>9, <1>10, <1>11, <1>12, WebhookRest DEF Applies

\* A session is exchanged for a cookie, or the cookie expires.
LEMMA SessionKeeps ==
    ASSUME HelmInv, Beside, NEW c \in Customers, Exchanges(c) \/ CookieExpires(c)
    PROVE  HelmInv'
<1>1. PlainOK'
  <2>1. cookie' \in SUBSET Customers /\ claim' \in [Customers -> Deployments \cup {Unclaimed, Unbound}]
    BY DEF HelmInv, PlainOK, Exchanges, CookieExpires
  <2> QED BY <2>1 DEF HelmInv, PlainOK, Exchanges, CookieExpires, Beside, paying
<1>2. SiteOK' /\ AccountsOK' /\ WorkersOK' /\ FormsOK'
  BY SiteStays, AccountsStays, WorkersStays, FormsStays
  DEF HelmInv, Exchanges, CookieExpires, ledger, accounts, Beside
<1> QED BY <1>1, <1>2, FormRest DEF Exchanges, CookieExpires, ledger, accounts, paying

-----------------------------------------------------------------------------
(***************************************************************************)
(* The deploy form.                                                        *)
(***************************************************************************)

\* What a form has in hand, and that it may end at any time.
LEMMA FormFields ==
    ASSUME HelmInv, NEW f \in Forms
    PROVE  /\ form[f] \in Formed /\ FormOK(form[f])
           /\ form[f].pc # "idle" => form[f].c \in Customers /\ form[f].key \in CfTokens
           /\ form[f].names \subseteq Names /\ Safe(form[f].names)
           /\ form[f].sha \in 0 .. MaxSha /\ form[f].d \in Deployments \cup {NoForm}
           /\ form[f].tag \in Tags /\ form[f].persist \in BOOLEAN /\ form[f].stream \in BOOLEAN
<1>1. form[f] \in Formed /\ FormOK(form[f])
  BY DEF HelmInv, FormsOK
<1>2. form[f].names \subseteq Names /\ Safe(form[f].names)
  BY <1>1 DEF FormOK, Safe, Names, Data
<1> QED BY <1>1, <1>2 DEF FormOK, Formed

\* A form that is not filled in.
LEMMA NoDeployOK == /\ NoDeploy \in Formed /\ FormOK(NoDeploy)'
                    /\ NoDeploy.pc = "idle" /\ NoDeploy.d = NoForm /\ NoDeploy.names = {}
<1>1. NoDeploy \in Formed
  BY LedgerAssumption DEF NoDeploy, Formed, Tags
<1>2. NoDeploy.pc = "idle" /\ NoDeploy.d = NoForm /\ NoDeploy.names = {}
  BY DEF NoDeploy
<1> QED BY <1>1, <1>2 DEF FormOK

\* A form goes on, and the rows are as they were.
LEMMA FormGoes ==
    ASSUME HelmInv, NEW f \in Forms, NEW r, form' = [form EXCEPT ![f] = r], FormOK(r)',
           r.d = form[f].d \/ r.d = NoForm, app \subseteq app',
           UNCHANGED <<ladder, row, live, gone, minted>>
    PROVE  FormsOK'
<1>1. form \in [Forms -> Formed] /\ r \in Formed
  BY DEF HelmInv, FormsOK, FormOK
<1>2. form' \in [Forms -> Formed] /\ \A g \in Forms : form'[g] = IF g = f THEN r ELSE form[g]
  BY <1>1
<1>3. \A g \in Forms : FormOK(form[g]) /\ form[g].d \in Deployments \cup {NoForm}
  BY FormFields
<1>4. ASSUME NEW g \in Forms PROVE FormOK(form[g])'
  <2>1. CASE g = f
    BY <1>2, <2>1 DEF FormOK
  <2>2. CASE g # f
    <3>1. form'[g] = form[g]
      BY <1>2, <2>2
    <3> QED BY <1>3, <3>1 DEF FormOK, Exists
  <2> QED BY <2>1, <2>2
<1>5. \A g, h \in Forms : g # h /\ form[g].d = form[h].d => form[g].d = NoForm
  BY DEF HelmInv, FormsOK
<1>6. \A g, h \in Forms : g # h /\ form'[g].d = form'[h].d => form'[g].d = NoForm
  BY <1>2, <1>5
<1> QED BY <1>2, <1>4, <1>6 DEF FormsOK

\* A form ends.
LEMMA FormEnds ==
    ASSUME HelmInv, NEW f \in Forms, form' = [form EXCEPT ![f] = NoDeploy],
           UNCHANGED <<ladder, row, live, gone, minted, app>>
    PROVE  FormsOK'
<1>1. PICK r : r = NoDeploy
  OBVIOUS
<1>2. r \in Formed /\ r.pc = "idle" /\ r.d = NoForm /\ r.names = {}
  BY <1>1, NoDeployOK
<1>3. FormOK(r)'
  BY <1>2 DEF FormOK
<1> QED BY <1>1, <1>2, <1>3, FormGoes

\* Between the PUT and the row.
LEMMA FormMoves ==
    ASSUME HelmInv, NEW f \in Forms,
           form[f].pc \in {"put", "again", "secrets", "app", "policy", "aud"},
           NEW pc \in {"secrets", "app", "policy", "aud", "insert", "answer"},
           form' = [form EXCEPT ![f].pc = pc],
           pc = "policy" => form[f].c \in app', app \subseteq app',
           UNCHANGED <<ladder, row, live, gone, minted>>
    PROVE  FormsOK'
<1>1. PICK r : r = [form[f] EXCEPT !.pc = pc]
  OBVIOUS
<1>2. r \in Formed
  BY <1>1, FormFields DEF Formed
<1>3. r.pc = pc /\ r.c = form[f].c /\ r.key = form[f].key /\ r.names = form[f].names /\ r.d = form[f].d
  BY <1>1, FormFields DEF Formed
<1>4. form[f].d = NoForm /\ form[f].c \in Customers /\ form[f].key \in CfTokens
      /\ form[f].names \subseteq Names \ {"DB2"}
  BY FormFields DEF FormOK
<1>5. FormOK(r)'
  BY <1>2, <1>3, <1>4 DEF FormOK
<1> QED BY <1>1, <1>3, <1>5, FormGoes

\* What a form's step leaves alone that does not touch the rows.
LEMMA CallRest ==
    ASSUME HelmInv, Beside, FormsOK', WorkersOK', AccountsOK', app \subseteq app',
           Fault \/ UNCHANGED faults,
           UNCHANGED <<manifest, ladder, enforced, row, live, accepted, last, doubt>>,
           UNCHANGED <<paying, claim, cookie, tries, minted, told>>
    PROVE  HelmInv'
<1>1. SiteOK'
  BY FaultIsDue DEF HelmInv
<1>2. PlainOK'
  BY PlainStays DEF HelmInv, Beside, paying
<1> QED BY <1>1, <1>2, FormRest DEF paying

\* A deploy form arrives.
LEMMA FormArrivesKeeps ==
    ASSUME HelmInv, Beside, NEW f \in Forms, NEW c \in Customers, FormArrives(f, c)
    PROVE  HelmInv'
<1>1. PICK key \in CfTokens, stream \in BOOLEAN :
        form' = [form EXCEPT ![f] = [NoDeploy EXCEPT !.pc = "verify", !.c = c,
                   !.key = key, !.persist = (c \in cookie), !.stream = stream]]
  BY DEF FormArrives
<1>2. PICK r : r = [NoDeploy EXCEPT !.pc = "verify", !.c = c,
                      !.key = key, !.persist = (c \in cookie), !.stream = stream]
  OBVIOUS
<1>k. key \in 0 .. MaxToken /\ (c \in cookie) \in BOOLEAN
  BY LedgerAssumption DEF CfTokens
<1>3. r \in Formed
  <2> DEFINE b == c \in cookie
  <2>1. r = [NoDeploy EXCEPT !.pc = "verify", !.c = c, !.key = key, !.persist = b, !.stream = stream]
    BY <1>2
  <2>2. b \in BOOLEAN
    BY <1>k
  <2> HIDE DEF b
  <2> QED BY <1>k, <2>1, <2>2, NoDeployOK DEF Formed
<1>4. r.pc = "verify" /\ r.c = c /\ r.key = key /\ r.names = {} /\ r.d = NoForm
  BY <1>2, NoDeployOK DEF Formed
<1>5. FormOK(r)'
  BY <1>3, <1>4 DEF FormOK
<1>6. FormsOK'
  BY <1>1, <1>2, <1>4, <1>5, FormGoes DEF FormArrives, ledger, accounts, Beside
<1>7. PlainOK'
  <2>1. tries' \in [Customers -> 0 .. MaxTries]
    BY DeployAssumption DEF FormArrives, HelmInv, PlainOK
  <2> QED BY <2>1 DEF FormArrives, HelmInv, PlainOK, Beside, paying
<1>8. SiteOK' /\ AccountsOK' /\ WorkersOK'
  BY SiteStays, AccountsStays, WorkersStays DEF FormArrives, HelmInv, ledger, accounts
<1> QED BY <1>6, <1>7, <1>8, FormRest DEF FormArrives, ledger, accounts, paying

\* The token of a form is verified.
LEMMA VerifiesKeeps ==
    ASSUME HelmInv, Beside, NEW f \in Forms, Verifies(f)
    PROVE  HelmInv'
<1>1. PICK r : r = [form[f] EXCEPT !.pc = "d1"]
  OBVIOUS
<1>2. r \in Formed
  BY <1>1, FormFields DEF Formed
<1>3. r.pc = "d1" /\ r.c = form[f].c /\ r.key = form[f].key /\ r.names = form[f].names /\ r.d = form[f].d
  BY <1>1, FormFields DEF Formed
<1>4. form[f].pc = "verify"
  BY DEF Verifies, At
<1>5. FormOK(r)'
  BY <1>2, <1>3, <1>4, FormFields DEF FormOK
<1>6. form' = [form EXCEPT ![f] = r] \/ form' = [form EXCEPT ![f] = NoDeploy]
  BY <1>1 DEF Verifies
<1>7. UNCHANGED <<ladder, row, live, gone, minted, app>>
  BY DEF Verifies, ledger, accounts, Beside
<1>8. FormsOK'
  BY <1>3, <1>5, <1>6, <1>7, FormGoes, FormEnds
<1>9. AccountsOK' /\ WorkersOK'
  BY AccountsStays, WorkersStays DEF Verifies, HelmInv, ledger, accounts
<1> QED BY <1>7, <1>8, <1>9, CallRest DEF Verifies, ledger, accounts

\* The database of the customer is found or made.
LEMMA EnsuresD1Keeps ==
    ASSUME HelmInv, Beside, NEW f \in Forms, EnsuresD1(f)
    PROVE  HelmInv'
<1>1. PICK r : r = [form[f] EXCEPT !.pc = "extras", !.names = form[f].names \cup {"DB"}]
  OBVIOUS
<1>0. form[f].names \cup {"DB"} \subseteq Names \ {"DB2"}
  BY FormFields DEF FormOK, Names
<1>2. r \in Formed
  BY <1>0, <1>1, FormFields DEF Formed
<1>3. r.pc = "extras" /\ r.c = form[f].c /\ r.key = form[f].key
      /\ r.names = form[f].names \cup {"DB"} /\ r.d = form[f].d
  BY <1>1, FormFields DEF Formed
<1>4. form[f].pc = "d1"
  BY DEF EnsuresD1, At
<1>5. FormOK(r)'
  BY <1>0, <1>2, <1>3, <1>4, FormFields DEF FormOK
<1>6. form' = [form EXCEPT ![f] = r]
  BY <1>1 DEF EnsuresD1
<1>7. UNCHANGED <<ladder, row, live, gone, minted, app>>
  BY DEF EnsuresD1, ledger, Beside
<1>8. FormsOK'
  BY <1>3, <1>5, <1>6, <1>7, FormGoes
<1>9. AccountsOK' /\ WorkersOK'
  BY <1>4, FormFields, WorkersStays DEF EnsuresD1, HelmInv, AccountsOK, ledger
<1> QED BY <1>7, <1>8, <1>9, CallRest DEF EnsuresD1, ledger

\* A form ends without a deployment.
LEMMA FormEndsKeeps ==
    ASSUME HelmInv, Beside, NEW f \in Forms, D1Refused(f) \/ FormDies(f)
    PROVE  HelmInv'
<1>1. form' = [form EXCEPT ![f] = NoDeploy] /\ UNCHANGED <<ladder, row, live, gone, minted, app>>
  BY DEF D1Refused, FormDies, accounts, Beside
<1>2. FormsOK'
  BY <1>1, FormEnds
<1>3. AccountsOK' /\ WorkersOK'
  BY AccountsStays, WorkersStays DEF D1Refused, FormDies, HelmInv, accounts
<1>4. Fault \/ UNCHANGED faults
  BY DEF D1Refused, FormDies
<1> QED BY <1>1, <1>2, <1>3, <1>4, CallRest DEF D1Refused, FormDies

\* The buckets and other extras of a form are made, and the bundle is fetched.
LEMMA ExtrasKeeps ==
    ASSUME HelmInv, Beside, NEW f \in Forms, Extras(f)
    PROVE  HelmInv'
<1>1. form[f].pc = "extras"
  BY DEF Extras, At
<1>2. PICK more \in SUBSET {"CF_ACCESS_TEAM_DOMAIN", "WORKSPACE"} :
        form' = [form EXCEPT ![f] = [form[f] EXCEPT !.pc = "put", !.sha = manifest,
                                                    !.names = form[f].names \cup more]]
  <2>1. [form[f] EXCEPT !.pc = "put", !.sha = manifest]
           = [form[f] EXCEPT !.pc = "put", !.sha = manifest, !.names = form[f].names \cup {}]
    BY FormFields DEF Formed
  <2>2. \/ form' = [form EXCEPT ![f] = [form[f] EXCEPT !.pc = "put", !.sha = manifest,
                        !.names = form[f].names \cup {"CF_ACCESS_TEAM_DOMAIN", "WORKSPACE"}]]
        \/ form' = [form EXCEPT ![f] = [form[f] EXCEPT !.pc = "put", !.sha = manifest,
                        !.names = form[f].names \cup {"WORKSPACE"}]]
        \/ form' = [form EXCEPT ![f] = [form[f] EXCEPT !.pc = "put", !.sha = manifest,
                        !.names = form[f].names \cup {"CF_ACCESS_TEAM_DOMAIN"}]]
        \/ form' = [form EXCEPT ![f] = [form[f] EXCEPT !.pc = "put", !.sha = manifest]]
    BY DEF Extras
  <2> QED BY <2>1, <2>2
<1>3. PICK r : r = [form[f] EXCEPT !.pc = "put", !.sha = manifest, !.names = form[f].names \cup more]
  OBVIOUS
<1>4. form[f].names \cup more \subseteq Names \ {"DB2"}
  BY FormFields DEF FormOK, Names
<1>5. manifest \in DOMAIN ladder /\ manifest \in 0 .. MaxSha
  BY BundlesAreShas DEF HelmInv
<1>6. r \in Formed
  BY <1>3, <1>4, <1>5, FormFields DEF Formed
<1>7. r.pc = "put" /\ r.c = form[f].c /\ r.key = form[f].key /\ r.sha = manifest
      /\ r.names = form[f].names \cup more /\ r.d = form[f].d
  BY <1>3, FormFields DEF Formed
<1>8. UNCHANGED <<ladder, row, live, gone, minted, app, policy, d1>> /\ (Fault \/ UNCHANGED faults)
  BY DEF Extras, Beside
<1>9. FormOK(r)'
  BY <1>1, <1>4, <1>5, <1>6, <1>7, <1>8, FormFields DEF FormOK
<1>10. FormsOK'
  BY <1>2, <1>3, <1>7, <1>8, <1>9, FormGoes
<1>11. AccountsOK'
  <2>1. bucket' \in SUBSET Customers
    BY <1>1, FormFields DEF Extras, HelmInv, AccountsOK
  <2> QED BY <1>8, <2>1 DEF HelmInv, AccountsOK
<1>12. WorkersOK'
  BY WorkersStays DEF Extras, HelmInv
<1> QED BY <1>8, <1>10, <1>11, <1>12, CallRest DEF Extras

\* The Worker is uploaded.
LEMMA PutsKeeps ==
    ASSUME HelmInv, Beside, NEW f \in Forms, Puts(f)
    PROVE  HelmInv'
<1>1. form[f].pc = "put" /\ form' = [form EXCEPT ![f].pc = "secrets"]
  BY DEF Puts, At, Moves
<1>2. UNCHANGED <<ladder, row, live, gone, minted, app>>
  BY DEF Puts, accounts, Beside
<1>3. FormsOK'
  BY <1>1, <1>2, FormMoves
<1>4. form[f].c \in Customers /\ form[f].sha \in DOMAIN ladder
  BY <1>1, FormFields DEF FormOK
<1>5. WorkersOK'
  BY <1>4, FormFields, PutKeeps DEF Puts, HelmInv
<1>6. AccountsOK'
  BY AccountsStays DEF Puts, HelmInv, accounts
<1> QED BY <1>2, <1>3, <1>5, <1>6, CallRest DEF Puts

\* The upload is refused because of its migration tag, and is tried again.
LEMMA PutMeetsTagKeeps ==
    ASSUME HelmInv, Beside, NEW f \in Forms, PutMeetsTag(f)
    PROVE  HelmInv'
<1>1. form[f].pc = "put"
  BY DEF PutMeetsTag, At
<1>2. PICK r : r = [form[f] EXCEPT !.pc = "again", !.tag = worker[form[f].c].tag]
  OBVIOUS
<1>3. worker[form[f].c].tag \in Tags
  BY <1>1, FormFields DEF HelmInv, WorkersOK, Scripts
<1>4. r \in Formed
  BY <1>2, <1>3, FormFields DEF Formed
<1>5. r.pc = "again" /\ r.c = form[f].c /\ r.key = form[f].key /\ r.sha = form[f].sha
      /\ r.names = form[f].names /\ r.d = form[f].d
  BY <1>2, FormFields DEF Formed
<1>6. UNCHANGED <<ladder, row, live, gone, minted, app>>
  BY DEF PutMeetsTag, ledger, accounts, Beside
<1>7. FormOK(r)'
  BY <1>1, <1>4, <1>5, <1>6, FormFields DEF FormOK
<1>8. FormsOK'
  BY <1>2, <1>5, <1>6, <1>7, FormGoes DEF PutMeetsTag
<1>9. AccountsOK' /\ WorkersOK'
  BY AccountsStays, WorkersStays DEF PutMeetsTag, HelmInv, ledger, accounts
<1> QED BY <1>6, <1>8, <1>9, CallRest DEF PutMeetsTag, ledger

\* The second attempt may leave the tag as it was.
LEMMA PutAgainKeeps ==
    ASSUME WorkersOK, SiteOK, NEW c \in Customers, NEW sha \in DOMAIN ladder, NEW names, Safe(names),
           NEW tag \in Tags, worker' = [Put(c, sha, names) EXCEPT ![c].tag = tag]
    PROVE  WorkersOK' /\ worker'[c].names = names /\ \A k \in Customers : k # c => worker'[k] = worker[k]
<1> DEFINE x == [code |-> "bundle", sha |-> sha, names |-> names, tag |-> tag]
<1>1. worker' = [worker EXCEPT ![c] = x]
  <2>1. PICK put : put = Put(c, sha, names)
    OBVIOUS
  <2>2. PICK t : put = [worker EXCEPT ![c] = [code |-> "bundle", sha |-> sha, names |-> names, tag |-> t]]
    BY <2>1 DEF Put
  <2>3. put[c] = [code |-> "bundle", sha |-> sha, names |-> names, tag |-> t]
    BY <2>2 DEF WorkersOK
  <2>4. [put[c] EXCEPT !.tag = tag] = x
    BY <2>3
  <2>5. worker' = [put EXCEPT ![c] = [put[c] EXCEPT !.tag = tag]]
    BY <2>1
  <2> HIDE DEF x
  <2>6. worker' = [put EXCEPT ![c] = x]
    BY <2>4, <2>5
  <2> QED BY <2>2, <2>6 DEF WorkersOK
<1>2. x \in Scripts
  BY BundlesAreShas DEF Scripts, Safe
<1>3. x.names = names
  OBVIOUS
<1> HIDE DEF x
<1> QED BY <1>1, <1>2, <1>3 DEF WorkersOK

\* It is uploaded without the migrations.
LEMMA PutsAgainKeeps ==
    ASSUME HelmInv, Beside, NEW f \in Forms, PutsAgain(f)
    PROVE  HelmInv'
<1>1. form[f].pc = "again" /\ form' = [form EXCEPT ![f].pc = "secrets"]
  BY DEF PutsAgain, At, Moves
<1>2. UNCHANGED <<ladder, row, live, gone, minted, app>>
  BY DEF PutsAgain, accounts, Beside
<1>3. FormsOK'
  BY <1>1, <1>2, FormMoves
<1>4. form[f].c \in Customers /\ form[f].sha \in DOMAIN ladder
  BY <1>1, FormFields DEF FormOK
<1>5. WorkersOK'
  <2> DEFINE c == form[f].c
             put == Put(c, form[f].sha, form[f].names)
             tag == IF form[f].tag = ladder[form[f].sha] THEN worker[c].tag ELSE put[c].tag
  <2>1. worker' = [put EXCEPT ![c].tag = tag]
    BY DEF PutsAgain
  <2>2. ladder[form[f].sha] \in Tags /\ worker[c].tag \in Tags
    BY <1>4 DEF HelmInv, SiteOK, WorkersOK, Scripts
  <2>3. put[c].tag = IF ladder[form[f].sha] = 0 THEN worker[c].tag ELSE ladder[form[f].sha]
    BY <1>4 DEF HelmInv, WorkersOK, Put
  <2>4. tag \in Tags
    BY <2>2, <2>3
  <2> HIDE DEF tag
  <2> QED BY <1>4, <2>1, <2>4, FormFields, PutAgainKeeps DEF HelmInv
<1>6. AccountsOK'
  BY AccountsStays DEF PutsAgain, HelmInv, accounts
<1> QED BY <1>2, <1>3, <1>5, <1>6, CallRest DEF PutsAgain

\* It is not uploaded: the form is answered, or goes on without it.
LEMMA PutFailsKeeps ==
    ASSUME HelmInv, Beside, NEW f \in Forms, PutFails(f)
    PROVE  HelmInv'
<1>1. form[f].pc \in {"put", "again"} /\ (Fault \/ UNCHANGED faults)
  BY DEF PutFails, At
<1>2. PICK pc \in {"insert", "answer"} : form' = [form EXCEPT ![f].sha = 0, ![f].pc = pc]
  BY DEF PutFails, Undeployed
<1>3. PICK r : r = [form[f] EXCEPT !.sha = 0, !.pc = pc]
  OBVIOUS
<1>0. 0 \in 0 .. MaxSha
  BY LedgerAssumption
<1>4. r \in Formed
  BY <1>0, <1>3, FormFields DEF Formed
<1>5. r.pc = pc /\ r.c = form[f].c /\ r.key = form[f].key /\ r.names = form[f].names /\ r.d = form[f].d
  BY <1>3, FormFields DEF Formed
<1>6. UNCHANGED <<ladder, row, live, gone, minted, app>>
  BY DEF PutFails, accounts, Beside
<1>7. FormOK(r)'
  BY <1>1, <1>4, <1>5, <1>6, FormFields DEF FormOK
<1>8. form' = [form EXCEPT ![f] = r]
  BY <1>2, <1>3
<1>9. FormsOK'
  BY <1>5, <1>6, <1>7, <1>8, FormGoes
<1>10. AccountsOK' /\ WorkersOK'
  BY AccountsStays, WorkersStays DEF PutFails, HelmInv, accounts
<1> QED BY <1>1, <1>6, <1>9, <1>10, CallRest DEF PutFails

\* A secret is set by a form, or it is not.
LEMMA SecretKeeps ==
    ASSUME HelmInv, NEW c \in Customers, NEW n \in Names \ Data,
           worker' = [worker EXCEPT ![c].names = @ \cup {n}] \/ worker' = worker
    PROVE  WorkersOK'
<1> DEFINE names == worker[c].names \cup {n}
<1>1. worker' = [worker EXCEPT ![c].names = names] \/ worker' = worker
  OBVIOUS
<1>2. Safe(names)
  BY DEF HelmInv, WorkersOK, Safe, Data
<1> HIDE DEF names
<1> QED BY <1>1, <1>2, NamesKeep, WorkersStays DEF HelmInv

\* The secrets are set.
LEMMA SetsSecretsKeeps ==
    ASSUME HelmInv, Beside, NEW f \in Forms, SetsSecrets(f)
    PROVE  HelmInv'
<1>1. form[f].pc = "secrets" /\ (Fault \/ UNCHANGED faults)
  BY DEF SetsSecrets, At
<1>2. PICK pc \in {"app", "insert", "answer"} : form' = [form EXCEPT ![f].pc = pc]
  BY DEF SetsSecrets, Moves, Persisting
<1>3. UNCHANGED <<ladder, row, live, gone, minted, app>>
  BY DEF SetsSecrets, accounts, Beside
<1>4. FormsOK'
  BY <1>1, <1>2, <1>3, FormMoves
<1>5. WorkersOK'
  BY <1>1, FormFields, SecretKeeps DEF SetsSecrets, Names, Data
<1>6. AccountsOK'
  BY AccountsStays DEF SetsSecrets, HelmInv, accounts
<1> QED BY <1>1, <1>3, <1>4, <1>5, <1>6, CallRest DEF SetsSecrets

\* The Access application is found or made.
LEMMA EnsuresAppKeeps ==
    ASSUME HelmInv, Beside, NEW f \in Forms, EnsuresApp(f)
    PROVE  HelmInv'
<1>1. form[f].pc = "app" /\ (Fault \/ UNCHANGED faults)
  BY DEF EnsuresApp, At
<1>2. form[f].c \in Customers
  BY <1>1, FormFields
<1>3. PICK pc \in {"aud", "policy", "insert", "answer"} :
        /\ form' = [form EXCEPT ![f].pc = pc]
        /\ pc = "policy" => app' = app \cup {form[f].c}
  BY DEF EnsuresApp, Moves, Persisting
<1>4. UNCHANGED <<ladder, row, live, gone, minted, d1, bucket, policy>>
      /\ (app' = app \/ app' = app \cup {form[f].c})
  BY DEF EnsuresApp, Beside
<1>5. FormsOK'
  BY <1>1, <1>3, <1>4, FormMoves
<1>6. AccountsOK'
  BY <1>2, <1>4 DEF HelmInv, AccountsOK
<1>7. WorkersOK'
  BY WorkersStays DEF EnsuresApp, HelmInv
<1> QED BY <1>1, <1>4, <1>5, <1>6, <1>7, CallRest DEF EnsuresApp

\* Its policy is attached, and there is an application to attach it to.
LEMMA AttachesPolicyKeeps ==
    ASSUME HelmInv, Beside, NEW f \in Forms, AttachesPolicy(f)
    PROVE  HelmInv'
<1>1. form[f].pc = "policy" /\ (Fault \/ UNCHANGED faults) /\ form' = [form EXCEPT ![f].pc = "aud"]
  BY DEF AttachesPolicy, At, Moves
<1>2. form[f].c \in app
  BY <1>1, FormFields DEF FormOK
<1>3. UNCHANGED <<ladder, row, live, gone, minted, d1, bucket, app>>
      /\ (policy' = policy \/ policy' = policy \cup {form[f].c})
  BY DEF AttachesPolicy, Beside
<1>4. FormsOK'
  BY <1>1, <1>3, FormMoves
<1>5. AccountsOK'
  BY <1>2, <1>3 DEF HelmInv, AccountsOK
<1>6. WorkersOK'
  BY WorkersStays DEF AttachesPolicy, HelmInv
<1> QED BY <1>1, <1>3, <1>4, <1>5, <1>6, CallRest DEF AttachesPolicy

\* The audience is put on the Worker.
LEMMA SetsAudKeeps ==
    ASSUME HelmInv, Beside, NEW f \in Forms, SetsAud(f)
    PROVE  HelmInv'
<1>1. form[f].pc = "aud" /\ (Fault \/ UNCHANGED faults)
  BY DEF SetsAud, At
<1>2. PICK pc \in {"insert", "answer"} : form' = [form EXCEPT ![f].pc = pc]
  BY DEF SetsAud, Moves, Persisting
<1>3. UNCHANGED <<ladder, row, live, gone, minted, app>>
  BY DEF SetsAud, accounts, Beside
<1>4. FormsOK'
  BY <1>1, <1>2, <1>3, FormMoves
<1>5. WorkersOK'
  BY <1>1, FormFields, SecretKeeps DEF SetsAud, Names, Data
<1>6. AccountsOK'
  BY AccountsStays DEF SetsAud, HelmInv, accounts
<1> QED BY <1>1, <1>3, <1>4, <1>5, <1>6, CallRest DEF SetsAud

-----------------------------------------------------------------------------
(***************************************************************************)
(* The ledger of a deploy.                                                 *)
(***************************************************************************)

\* The deploy is logged for the new row.
LEMMA LogsKeeps ==
    ASSUME HelmInv, Beside, NEW f \in Forms, Logs(f)
    PROVE  HelmInv'
<1>1. form[f].pc = "log"
  BY DEF Logs, At
<1>2. PICK pc \in {"link", "seed"} : form' = [form EXCEPT ![f].pc = pc]
  BY DEF Logs, Moves
<1>3. PICK r : r = [form[f] EXCEPT !.pc = pc]
  OBVIOUS
<1>4. r \in Formed
  BY <1>3, FormFields DEF Formed
<1>5. r.pc = pc /\ r.c = form[f].c /\ r.key = form[f].key /\ r.names = form[f].names /\ r.d = form[f].d
  BY <1>3, FormFields DEF Formed
<1>6. UNCHANGED <<ladder, row, live, gone, minted, app>>
  BY DEF Logs, ledger, accounts, Beside
<1>7. FormOK(r)'
  BY <1>1, <1>4, <1>5, <1>6, FormFields DEF FormOK, Exists
<1>8. FormsOK'
  BY <1>2, <1>3, <1>5, <1>6, <1>7, FormGoes
<1>9. AccountsOK' /\ WorkersOK'
  BY AccountsStays, WorkersStays DEF Logs, HelmInv, ledger, accounts
<1> QED BY <1>6, <1>8, <1>9, CallRest DEF Logs, ledger

\* The row, the log or the link fails: the form is answered all the same.
LEMMA PersistFailsKeeps ==
    ASSUME HelmInv, Beside, NEW f \in Forms, PersistFails(f)
    PROVE  HelmInv'
<1>1. form[f].pc \in {"insert", "log", "seed", "link"} /\ (Fault \/ UNCHANGED faults)
  BY DEF PersistFails
<1>2. PICK r : r = [form[f] EXCEPT !.pc = "answer", !.d = NoForm]
  OBVIOUS
<1>3. r \in Formed
  BY <1>2, FormFields DEF Formed
<1>4. r.pc = "answer" /\ r.c = form[f].c /\ r.key = form[f].key /\ r.names = form[f].names /\ r.d = NoForm
  BY <1>2, FormFields DEF Formed
<1>5. UNCHANGED <<ladder, row, live, gone, minted, app>>
  BY DEF PersistFails, accounts, Beside
<1>6. FormOK(r)'
  BY <1>1, <1>3, <1>4, FormFields DEF FormOK
<1>7. FormsOK'
  BY <1>2, <1>4, <1>5, <1>6, FormGoes DEF PersistFails
<1>8. AccountsOK' /\ WorkersOK'
  BY AccountsStays, WorkersStays DEF PersistFails, HelmInv, accounts
<1> QED BY <1>1, <1>5, <1>7, <1>8, CallRest DEF PersistFails

\* The claim of the customer is bound to the deployment.
LEMMA BindsKeeps ==
    ASSUME HelmInv, Beside, NEW f \in Forms, Binds(f)
    PROVE  HelmInv'
<1>1. form[f].pc = "bind" /\ form' = [form EXCEPT ![f].pc = "answer"]
  BY DEF Binds, At, Moves
<1>2. PICK r : r = [form[f] EXCEPT !.pc = "answer"]
  OBVIOUS
<1>3. r \in Formed
  BY <1>2, FormFields DEF Formed
<1>4. r.pc = "answer" /\ r.c = form[f].c /\ r.key = form[f].key /\ r.names = form[f].names /\ r.d = form[f].d
  BY <1>2, FormFields DEF Formed
<1>5. UNCHANGED <<ladder, row, live, gone, minted, app>>
  BY DEF Binds, ledger, accounts, Beside
<1>6. FormOK(r)'
  BY <1>1, <1>3, <1>4, <1>5, FormFields DEF FormOK, Exists
<1>7. FormsOK'
  BY <1>1, <1>2, <1>4, <1>5, <1>6, FormGoes
<1>8. PlainOK'
  <2>1. form[f].d \in Deployments
    BY <1>1, FormFields DEF FormOK
  <2>2. claim' \in [Customers -> Deployments \cup {Unclaimed, Unbound}]
    BY <2>1 DEF Binds, Bound, HelmInv, PlainOK
  <2> QED BY <2>2 DEF Binds, HelmInv, PlainOK, Beside, paying
<1>9. SiteOK' /\ AccountsOK' /\ WorkersOK'
  BY SiteStays, AccountsStays, WorkersStays DEF Binds, HelmInv, ledger, accounts
<1> QED BY <1>5, <1>7, <1>8, <1>9, FormRest DEF Binds, ledger, paying

\* The answer shows the manage link of a row whose link is live, or was.
LEMMA AnswersKeeps ==
    ASSUME HelmInv, Beside, NEW f \in Forms, Answers(f)
    PROVE  HelmInv'
<1>1. form[f].pc = "answer" /\ form' = [form EXCEPT ![f] = NoDeploy]
  BY DEF Answers, At
<1>2. UNCHANGED <<manifest, ladder, enforced, row, live, worker, accepted, faults, last, doubt, gone, minted, accounts,
                  paying, claim, tries>>
  BY DEF Answers, ledger, Beside
<1>3. FormsOK'
  BY <1>1, <1>2, FormEnds DEF accounts
<1>4. RowsOK'
  <2>1. told' = told \/ (told' = told \cup {form[f].d} /\ form[f].d # NoForm)
    BY DEF Answers
  <2>2. form[f].d # NoForm => form[f].d \in minted /\ form[f].d \in live \cup gone
    BY <1>1, FormFields DEF FormOK
  <2> QED BY <1>2, <2>1, <2>2 DEF HelmInv, RowsOK, Exists
<1>5. PlainOK'
  <2>1. cookie' \in SUBSET Customers
    BY DEF Answers, HelmInv, PlainOK
  <2> QED BY <1>2, <2>1 DEF HelmInv, PlainOK, Beside, paying
<1>6. EarlyOK'
  BY <1>2, PausedAreEarly DEF Exists
<1> QED
  BY <1>2, <1>3, <1>4, <1>5, <1>6, SiteStays, AccountsStays, WorkersStays, AskStays, RunsStays,
     PushesStays, SelvesStays, HooksStays, KitsStays
  DEF HelmInv, Beside, accounts, paying

\* The manage link is issued for the row that the form inserted, which exists
\* and has none.
LEMMA LinksKeeps ==
    ASSUME HelmInv, Beside, NEW f \in Forms, Links(f)
    PROVE  HelmInv'
<1> DEFINE d == form[f].d
<1>1. form[f].pc = "link" /\ form' = [form EXCEPT ![f].pc = "bind"] /\ live' = live \cup {d}
  BY DEF Links, At, Moves
<1>2. UNCHANGED <<manifest, ladder, enforced, row, worker, accepted, faults, last, doubt, gone, minted, told,
                  accounts, paying, claim, cookie, tries>>
  BY DEF Links, Beside
<1>3. d \in minted /\ Exists(d) /\ d \notin live /\ d \notin gone /\ d \in Deployments /\ d # NoForm
  BY <1>1, FormFields, DeployAssumption DEF FormOK, HelmInv, RowsOK
<1>4. PICK r : r = [form[f] EXCEPT !.pc = "bind"]
  OBVIOUS
<1>5. r \in Formed
  BY <1>4, FormFields DEF Formed
<1>6. r.pc = "bind" /\ r.c = form[f].c /\ r.key = form[f].key /\ r.names = form[f].names /\ r.d = d
  BY <1>4, FormFields DEF Formed
<1>7. FormOK(r)'
  BY <1>1, <1>2, <1>3, <1>5, <1>6, FormFields DEF FormOK
<1> HIDE DEF d
<1>8. FormsOK'
  <2>1. form \in [Forms -> Formed]
    BY DEF HelmInv, FormsOK
  <2>2. form' \in [Forms -> Formed] /\ \A g \in Forms : form'[g] = IF g = f THEN r ELSE form[g]
    BY <1>1, <1>4, <1>5, <2>1
  <2>3. \A g, h \in Forms : g # h /\ form[g].d = form[h].d => form[g].d = NoForm
    BY DEF HelmInv, FormsOK
  <2>4. ASSUME NEW g \in Forms PROVE FormOK(form[g])'
    <3>1. CASE g = f
      BY <1>7, <2>2, <3>1 DEF FormOK, Exists
    <3>2. CASE g # f
      <4>1. form'[g] = form[g] /\ FormOK(form[g])
        BY <2>2, <3>2, FormFields
      <4>2. form[g].d # d
        BY <1>3, <2>3, <3>2 DEF d
      <4>3. UNCHANGED <<ladder, row, gone, minted, app>>
        BY <1>2 DEF accounts
      <4>4. /\ form[g].d \notin live \cup gone => form[g].d \notin live' \cup gone'
            /\ form[g].d \in live \cup gone => form[g].d \in live' \cup gone'
        BY <1>1, <4>2, <4>3
      <4> QED BY <4>1, <4>3, <4>4 DEF FormOK, Exists
    <3> QED BY <3>1, <3>2
  <2>5. \A g, h \in Forms : g # h /\ form'[g].d = form'[h].d => form'[g].d = NoForm
    BY <1>6, <2>2, <2>3 DEF d
  <2> QED BY <2>2, <2>4, <2>5 DEF FormsOK
<1>9. RowsOK'
  BY <1>1, <1>2, <1>3 DEF HelmInv, RowsOK, Exists
<1>10. AskOK'
  BY <1>1, <1>2, <1>3 DEF HelmInv, AskOK, Beside, Exists
<1>11. EarlyOK'
  BY <1>2, PausedAreEarly DEF Exists
<1> QED
  BY <1>2, <1>8, <1>9, <1>10, <1>11, PlainStays, SiteStays, AccountsStays, WorkersStays, RunsStays,
     PushesStays, SelvesStays, HooksStays, KitsStays
  DEF HelmInv, Beside, accounts, paying

\* The sha that the form has put is written to its row: it is what was pushed
\* last, or the deployment is in doubt.
LEMMA SeedsKeeps ==
    ASSUME HelmInv, Beside, NEW f \in Forms, Seeds(f)
    PROVE  HelmInv'
<1> DEFINE d == form[f].d
           sha == form[f].sha
<1>1. form[f].pc = "seed" /\ form' = [form EXCEPT ![f].pc = "link"]
      /\ row' = [row EXCEPT ![d].sha = sha, ![d].error = FALSE]
      /\ doubt' = IF last[d] = sha THEN doubt ELSE doubt \cup {d}
  BY DEF Seeds, At, Moves
<1>2. UNCHANGED <<manifest, ladder, enforced, live, worker, accepted, faults, last, gone, minted, told,
                  accounts, paying, claim, cookie, tries>>
  BY DEF Seeds, Beside
<1>3. d \in minted /\ Exists(d) /\ d \notin live \cup gone /\ d \in Deployments
  BY <1>1, FormFields DEF FormOK, HelmInv, RowsOK
<1>4. sha \in 0 .. MaxSha
  BY FormFields
<1>5. PICK r : r = [form[f] EXCEPT !.pc = "link"]
  OBVIOUS
<1>6. r \in Formed
  BY <1>5, FormFields DEF Formed
<1>7. r.pc = "link" /\ r.c = form[f].c /\ r.key = form[f].key /\ r.names = form[f].names /\ r.d = d
  BY <1>5, FormFields DEF Formed
<1>8. FormOK(form[f])
  BY FormFields
<1> HIDE DEF d, sha
<1>9. /\ Rewritten /\ row'[d].sha = sha
      /\ \A e \in Deployments : e # d => row'[e] = row[e]
  BY <1>1, <1>3, <1>4, ShaRewrites DEF HelmInv
<1>10. \A e \in Deployments : Exists(e)' <=> Exists(e)
  BY <1>9 DEF Rewritten, Exists
<1>11. FormOK(r)'
  BY <1>1, <1>2, <1>3, <1>6, <1>7, <1>8, <1>10 DEF FormOK
<1>12. FormsOK'
  <2>1. form \in [Forms -> Formed]
    BY DEF HelmInv, FormsOK
  <2>2. form' \in [Forms -> Formed] /\ \A g \in Forms : form'[g] = IF g = f THEN r ELSE form[g]
    BY <1>1, <1>5, <1>6, <2>1
  <2>3. \A g, h \in Forms : g # h /\ form[g].d = form[h].d => form[g].d = NoForm
    BY DEF HelmInv, FormsOK
  <2>4. ASSUME NEW g \in Forms PROVE FormOK(form[g])'
    <3>1. CASE g = f
      BY <1>11, <2>2, <3>1 DEF FormOK, Exists
    <3>2. CASE g # f
      <4>1. form'[g] = form[g] /\ FormOK(form[g])
        BY <2>2, <3>2, FormFields
      <4>2. form[g].d \in minted => form[g].d \in Deployments
        BY DEF HelmInv, RowsOK
      <4> QED BY <1>2, <1>10, <4>1, <4>2 DEF FormOK, Exists, accounts
    <3> QED BY <3>1, <3>2
  <2>5. \A g, h \in Forms : g # h /\ form'[g].d = form'[h].d => form'[g].d = NoForm
    BY <1>7, <2>2, <2>3 DEF d
  <2> QED BY <2>2, <2>4, <2>5 DEF FormsOK
<1>13. RowsOK'
  BY <1>1, <1>2, <1>3, <1>9, <1>10 DEF HelmInv, RowsOK, Rewritten, Exists
<1>14. PushesOK'
  <2>1. \A e \in Deployments : e \in doubt => e \in doubt'
    BY <1>1
  <2>2. \A p \in Pushers : run[p].pc = "record" => run[p].d \in Deployments
    BY RunFields DEF RunOK, HelmInv, RowsOK
  <2>3. LedgerIsLastPush'
    BY <1>1, <1>2, <1>9, <1>10, <2>1 DEF HelmInv, PushesOK, LedgerIsLastPush, Beside
  <2> QED BY <1>2, <2>1, <2>2, <2>3 DEF HelmInv, PushesOK, Beside
<1>15. EarlyOK'
  BY <1>10, PausedAreEarly
<1>16. AskOK'
  BY <1>2, <1>10, AskKept DEF HelmInv, Beside
<1> QED
  BY <1>2, <1>12, <1>13, <1>14, <1>15, <1>16, PlainStays, SiteStays, AccountsStays, WorkersStays, RunsStays,
     SelvesStays, HooksStays, KitsStays
  DEF HelmInv, Beside, accounts, paying

\* The row is inserted under an id that was never in use, so no run and no
\* form knows it.
LEMMA InsertsKeeps ==
    ASSUME HelmInv, Beside, NEW f \in Forms, Inserts(f)
    PROVE  HelmInv'
<1>1. PICK d \in Deployments \ minted :
         /\ row' = [row EXCEPT ![d] = [sha |-> form[f].sha, paused |-> FALSE,
                                       token |-> form[f].key, error |-> FALSE]]
         /\ last' = [last EXCEPT ![d] = form[f].sha]
         /\ minted' = minted \cup {d}
         /\ form' = [form EXCEPT ![f].pc = "log", ![f].d = d]
  BY DEF Inserts
<1>2. UNCHANGED <<manifest, ladder, enforced, live, worker, accepted, faults, doubt, gone, told,
                  accounts, paying, claim, cookie, tries>>
  BY DEF Inserts, Beside
<1>3. form[f].pc = "insert" /\ form[f].sha \in 0 .. MaxSha /\ form[f].key \in CfTokens /\ FormOK(form[f])
  BY FormFields DEF Inserts, At
<1>4. PICK x : x = [sha |-> form[f].sha, paused |-> FALSE, token |-> form[f].key, error |-> FALSE]
  OBVIOUS
<1>5. x \in Rows /\ x.sha = form[f].sha /\ ~x.paused /\ x # NoRow
  <2>1. x \in Rows
    BY <1>3, <1>4 DEF Rows
  <2>2. x.sha = form[f].sha /\ ~x.paused
    BY <1>4
  <2> QED BY <2>1, <2>2, NoRowIsNone
<1>6. PICK r : r = [form[f] EXCEPT !.pc = "log", !.d = d]
  OBVIOUS
<1>7. r \in Formed
  BY <1>6, FormFields DEF Formed
<1>8. r.pc = "log" /\ r.c = form[f].c /\ r.key = form[f].key /\ r.names = form[f].names /\ r.d = d
  BY <1>6, FormFields DEF Formed
<1>9. ~Exists(d) /\ d \notin live /\ d \notin gone
  BY <1>1 DEF HelmInv, RowsOK
<1>10. /\ row' \in [Deployments -> Rows \cup {NoRow}] /\ row'[d] = x
       /\ last' \in [Deployments -> 0 .. MaxSha] /\ last'[d] = form[f].sha
       /\ \A e \in Deployments : e # d => row'[e] = row[e] /\ last'[e] = last[e]
  BY <1>1, <1>3, <1>4, <1>5 DEF HelmInv, RowsOK
<1>11. RowsOK'
  BY <1>1, <1>2, <1>5, <1>9, <1>10 DEF HelmInv, RowsOK, Exists
<1>12. FormOK(r)'
  BY <1>1, <1>2, <1>3, <1>5, <1>7, <1>8, <1>9, <1>10 DEF FormOK, Exists
<1>13. FormsOK'
  <2>1. form \in [Forms -> Formed]
    BY DEF HelmInv, FormsOK
  <2>2. form' \in [Forms -> Formed] /\ \A g \in Forms : form'[g] = IF g = f THEN r ELSE form[g]
    BY <1>1, <1>6, <1>7, <2>1
  <2>3. \A g, h \in Forms : g # h /\ form[g].d = form[h].d => form[g].d = NoForm
    BY DEF HelmInv, FormsOK
  <2>4. \A g \in Forms : form[g].d \in minted \/ form[g].d = NoForm
    BY FormFields DEF FormOK, Formed
  <2>5. ASSUME NEW g \in Forms PROVE FormOK(form[g])'
    <3>1. CASE g = f
      BY <1>12, <2>2, <3>1 DEF FormOK, Exists
    <3>2. CASE g # f
      <4>1. form'[g] = form[g] /\ FormOK(form[g])
        BY <2>2, <3>2, FormFields
      <4>2. form[g].d \in minted => row'[form[g].d] = row[form[g].d]
        BY <1>1, <1>10 DEF HelmInv, RowsOK
      <4>3. form[g].d \in minted /\ Exists(form[g].d) => Exists(form[g].d)'
        BY <4>1, <4>2 DEF Exists
      <4>4. UNCHANGED <<ladder, live, gone, app>> /\ minted \subseteq minted'
        BY <1>1, <1>2 DEF accounts
      <4> QED BY <4>1, <4>3, <4>4 DEF FormOK
    <3> QED BY <3>1, <3>2
  <2>6. \A g, h \in Forms : g # h /\ form'[g].d = form'[h].d => form'[g].d = NoForm
    BY <1>8, <2>2, <2>3, <2>4, DeployAssumption
  <2> QED BY <2>2, <2>5, <2>6 DEF FormsOK
<1>14. RunsOK'
  <2>1. \A p \in Pushers : RunOK(run[p])'
    BY <1>1, <1>2 DEF HelmInv, RunsOK, RunOK, Beside
  <2> QED BY <2>1 DEF HelmInv, RunsOK, Beside
<1>15. PushesOK'
  <2>1. \A p \in Pushers : run[p].pc = "record" => run[p].d \in Deployments /\ run[p].d # d
    BY <1>1, RunFields DEF RunOK, HelmInv, RowsOK
  <2>2. LedgerIsLastPush'
    BY <1>2, <1>5, <1>10 DEF HelmInv, PushesOK, LedgerIsLastPush, Exists, Beside
  <2> QED BY <1>2, <1>10, <2>1, <2>2 DEF HelmInv, PushesOK, Beside
<1>16. EarlyOK'
  BY <1>5, <1>10, PausedAreEarly DEF Exists
<1>17. AskOK'
  BY <1>2, <1>5, <1>10, AskKept DEF HelmInv, Beside, Exists
<1> QED
  BY <1>2, <1>11, <1>13, <1>14, <1>15, <1>16, <1>17, PlainStays, SiteStays, AccountsStays, WorkersStays,
     SelvesStays, HooksStays, KitsStays
  DEF HelmInv, Beside, accounts, paying

-----------------------------------------------------------------------------
(***************************************************************************)
(* The setup of the agent.                                                 *)
(***************************************************************************)

\* What a setup holds.
LEMMA KitFields ==
    ASSUME HelmInv, NEW x \in Setups
    PROVE  /\ setup[x] \in Kits /\ KitOK(setup[x])
           /\ setup[x].c \in Customers \cup {NoForm}
           /\ setup[x].what \in Names \cup {"none"}
           /\ setup[x].seen \subseteq Names /\ setup[x].found \subseteq Data
BY DEF HelmInv, KitsOK, KitOK, Kits

\* What a setup leaves alone.
LEMMA SetupRest ==
    ASSUME HelmInv, UNCHANGED <<pushing, beside>>, KitsOK', WorkersOK', AccountsOK',
           app \subseteq app', Fault \/ UNCHANGED faults
    PROVE  HelmInv'
<1>1. FormsOK'
  <2>1. \A f \in Forms : FormOK(form[f])'
    BY DEF HelmInv, FormsOK, FormOK, Exists, beside, pushing
  <2> QED BY <2>1 DEF HelmInv, FormsOK, beside
<1>2. SiteOK'
  BY FaultIsDue DEF HelmInv, beside
<1> QED
  BY <1>1, <1>2, PlainStays, RowsStays, AskStays, RunsStays, EarlyStays, PushesStays, SelvesStays, HooksStays
  DEF HelmInv, pushing, beside, paying

\* A request goes on.
LEMMA KitGoes ==
    ASSUME HelmInv, NEW x \in Setups, NEW r, setup' = [setup EXCEPT ![x] = r], KitOK(r)',
           app \subseteq app'
    PROVE  KitsOK'
<1>1. setup \in [Setups -> Kits] /\ r \in Kits
  BY DEF HelmInv, KitsOK, KitOK
<1>2. setup' \in [Setups -> Kits] /\ \A y \in Setups : setup'[y] = IF y = x THEN r ELSE setup[y]
  BY <1>1
<1>3. ASSUME NEW y \in Setups PROVE KitOK(setup[y])'
  <2>1. CASE y = x
    BY <1>2, <2>1 DEF KitOK
  <2>2. CASE y # x
    BY <1>2, <2>2, KitFields DEF KitOK
  <2> QED BY <2>1, <2>2
<1> QED BY <1>2, <1>3 DEF KitsOK

\* The steps before a database was looked for, which have found none.
Before == {"team", "app", "policy", "domain", "aud", "emails", "token", "bucket", "look", "create"}

\* A setup goes on to a phase.
LEMMA KitMoves ==
    ASSUME HelmInv, NEW x \in Setups, NEW pc \in Before \cup {"rest", "done"}, Goes(x, pc),
           setup[x].pc \in Before \cup {"read", "patch", "rest"},
           pc \in Before => setup[x].pc \in Before,
           pc = "policy" => setup[x].c \in app', app \subseteq app'
    PROVE  KitsOK'
<1>1. PICK r : r = [setup[x] EXCEPT !.pc = pc]
  OBVIOUS
<1>2. r \in Kits
  BY <1>1, KitFields DEF Kits, Before
<1>3. r.pc = pc /\ r.c = setup[x].c /\ r.what = setup[x].what /\ r.seen = setup[x].seen /\ r.found = setup[x].found
  BY <1>1, KitFields DEF Kits
<1>4. r.c \in Customers /\ Safe(r.seen) /\ (r.found # {} /\ r.what \in Data => r.found = {r.what})
      /\ (pc \in Before => r.found = {})
  BY <1>3, KitFields DEF KitOK, Before
<1>5. KitOK(r)'
  BY <1>2, <1>3, <1>4 DEF KitOK, Before
<1> QED BY <1>1, <1>5, KitGoes DEF Goes

\* A record that begins afresh.
LEMMA NoKitOK ==
    /\ NoKit \in Kits /\ NoKit.pc = "idle" /\ NoKit.c = NoForm
    /\ NoKit.what = "none" /\ NoKit.seen = {} /\ NoKit.found = {}
BY DEF NoKit, Kits

\* A setup that begins,
LEMMA FreshKit ==
    ASSUME HelmInv, NEW x \in Setups, NEW r \in Kits, setup' = [setup EXCEPT ![x] = r],
           r.pc \in {"team", "token", "read", "done"}, r.seen = {}, r.found = {},
           r.pc # "done" => r.c \in Customers, r.pc = "read" => r.what \in Names,
           app \subseteq app'
    PROVE  KitsOK'
<1>1. KitOK(r)'
  BY DEF KitOK, Safe, Data
<1> QED BY <1>1, KitGoes

\* as each of the requests begins it.
LEMMA BeginsOK ==
    ASSUME HelmInv, NEW x \in Setups, NEW c \in Customers, NEW pc \in {"team", "token", "done"},
           NEW kind \in {"access", "auto", "deploy", "bind"}, Begins(x, kind, pc, c), UNCHANGED app
    PROVE  KitsOK'
<1>1. PICK r : r = [NoKit EXCEPT !.pc = pc, !.kind = kind, !.c = c]
  OBVIOUS
<1>2. r \in Kits
  BY <1>1, NoKitOK DEF Kits
<1>3. r.pc = pc /\ r.c = c /\ r.seen = {} /\ r.found = {}
  BY <1>1, NoKitOK DEF Kits
<1>4. setup' = [setup EXCEPT ![x] = r]
  BY <1>1 DEF Begins
<1> QED BY <1>2, <1>3, <1>4, FreshKit

\* A request of the setup page arrives, or puts or deletes a secret.
LEMMA ArrivesKeeps ==
    ASSUME HelmInv, UNCHANGED pushing, NEW x \in Setups, NEW c \in Customers,
           \/ WizardArrives(x, c) \/ AutoArrives(x, c) \/ DeployArrives(x, c)
           \/ PutsSecret(x, c) \/ DeletesSecret(x, c)
    PROVE  HelmInv'
<1>1. UNCHANGED <<beside, faults, accounts>>
  BY DEF WizardArrives, AutoArrives, DeployArrives, PutsSecret, DeletesSecret
<1>2. PICK pc \in {"team", "token", "done"}, kind \in {"access", "auto", "deploy", "bind"} : Begins(x, kind, pc, c)
  BY DEF WizardArrives, AutoArrives, DeployArrives, PutsSecret, DeletesSecret
<1>3. KitsOK'
  BY <1>1, <1>2, BeginsOK DEF accounts
<1>4. WorkersOK'
  <2>1. CASE DeletesSecret(x, c)
    <3> DEFINE names == worker[c].names \ {"own"}
    <3>1. worker' = [worker EXCEPT ![c].names = names]
      BY <2>1 DEF DeletesSecret
    <3>2. Safe(names)
      BY DEF HelmInv, WorkersOK, Safe
    <3> HIDE DEF names
    <3> QED BY <3>1, <3>2, NamesKeep DEF HelmInv
  <2>2. CASE PutsSecret(x, c)
    <3>1. PICK n \in {"own"} : worker' = [worker EXCEPT ![c].names = @ \cup {n}]
      BY <2>2 DEF PutsSecret, WithName
    <3>2. n \in Names \ Data
      BY DEF Names, Data
    <3> QED BY <3>1, <3>2, SecretKeeps
  <2>3. CASE UNCHANGED worker
    BY <2>3, WorkersStays DEF HelmInv
  <2> QED BY <2>1, <2>2, <2>3 DEF WizardArrives, AutoArrives, DeployArrives
<1>5. AccountsOK'
  BY <1>1, AccountsStays DEF HelmInv, accounts
<1> QED BY <1>1, <1>3, <1>4, <1>5, SetupRest DEF accounts

\* A request to bind a bucket arrives.
LEMMA BindArrivesKeeps ==
    ASSUME HelmInv, UNCHANGED pushing, NEW x \in Setups, NEW c \in Customers, BindArrives(x, c)
    PROVE  HelmInv'
<1>1. PICK what \in {"WORKSPACE", "DB2", "own"} :
         setup' = [setup EXCEPT ![x] = [NoKit EXCEPT !.pc = "read", !.kind = "bind",
                                                     !.c = c, !.what = what]]
  BY DEF BindArrives
<1>2. PICK r : r = [NoKit EXCEPT !.pc = "read", !.kind = "bind", !.c = c, !.what = what]
  OBVIOUS
<1>3. what \in Names
  BY DEF Names
<1>4. UNCHANGED <<beside, worker, faults, accounts>>
  BY DEF BindArrives
<1>5. KitsOK'
  <2>1. r \in Kits
    BY <1>2, <1>3, NoKitOK DEF Kits
  <2>2. r.pc = "read" /\ r.c = c /\ r.what = what /\ r.seen = {} /\ r.found = {}
    BY <1>2, NoKitOK DEF Kits
  <2> QED BY <1>1, <1>2, <1>3, <1>4, <2>1, <2>2, FreshKit DEF accounts
<1>6. WorkersOK' /\ AccountsOK'
  BY <1>4, WorkersStays, AccountsStays DEF HelmInv, accounts
<1> QED BY <1>4, <1>5, <1>6, SetupRest DEF accounts

\* A setup dies.
LEMMA SetupDiesKeeps ==
    ASSUME HelmInv, UNCHANGED pushing, NEW x \in Setups, SetupDies(x)
    PROVE  HelmInv'
<1>1. PICK r : r = [NoKit EXCEPT !.pc = "done"]
  OBVIOUS
<1>2. UNCHANGED <<beside, worker, accounts>> /\ Fault
  BY DEF SetupDies
<1>3. KitsOK'
  <2>1. r \in Kits
    BY <1>1, NoKitOK DEF Kits
  <2>2. r.pc = "done" /\ r.seen = {} /\ r.found = {}
    BY <1>1, NoKitOK DEF Kits
  <2> QED BY <1>1, <1>2, <2>1, <2>2, FreshKit DEF SetupDies, accounts
<1>4. WorkersOK' /\ AccountsOK'
  BY <1>2, WorkersStays, AccountsStays DEF HelmInv, accounts
<1> QED BY <1>2, <1>3, <1>4, SetupRest DEF accounts

\* A request that moves on, and may set a name or leave something in the account.
SimpleStep(x, pc) ==
    /\ UNCHANGED <<pushing, beside>> /\ Goes(x, pc) /\ (Fault \/ UNCHANGED faults)
    /\ pc \in Before \cup {"rest", "done"} /\ setup[x].pc \in Before \cup {"read", "patch", "rest"}
    /\ pc \in Before => setup[x].pc \in Before
    /\ pc = "policy" => setup[x].c \in app'
    /\ UNCHANGED worker \/ \E n \in Names \ Data : worker' = WithName(setup[x].c, n)
    /\ UNCHANGED d1
    /\ bucket' = bucket \/ bucket' = bucket \cup {setup[x].c}
    /\ app' = app \/ app' = app \cup {setup[x].c}
    /\ policy' = policy \/ (policy' = policy \cup {setup[x].c} /\ setup[x].c \in app)

\* A step that only goes on.
LEMMA StepKeeps ==
    ASSUME HelmInv, NEW x \in Setups, NEW pc, SimpleStep(x, pc)
    PROVE  HelmInv'
<1> USE DEF SimpleStep
<1>1. setup[x].c \in Customers
  BY KitFields DEF KitOK, Before
<1>2. app \subseteq app'
  OBVIOUS
<1>3. KitsOK'
  BY <1>2, KitMoves
<1>4. WorkersOK'
  <2>1. CASE UNCHANGED worker
    BY <2>1, WorkersStays DEF HelmInv
  <2>2. ASSUME NEW n \in Names \ Data, worker' = WithName(setup[x].c, n)
        PROVE  WorkersOK'
    BY <1>1, <2>2, SecretKeeps DEF WithName
  <2> QED BY <2>1, <2>2
<1>5. AccountsOK'
  BY <1>1 DEF HelmInv, AccountsOK
<1> QED BY <1>2, <1>3, <1>4, <1>5, SetupRest

\* The steps of the wizard.
LEMMA WizardKeeps ==
    ASSUME HelmInv, UNCHANGED pushing, NEW x \in Setups,
           FindsTeam(x) \/ FindsApp(x) \/ AddsPolicy(x) \/ SetsGate(x)
    PROVE  HelmInv'
<1>1. Wizarded(x) \in {"done", "token"}
  BY DEF Wizarded
<1>2. CASE FindsTeam(x)
  <2>1. PICK pc \in {"app", "done", "token"} : Goes(x, pc)
    BY <1>1, <1>2 DEF FindsTeam, Skips
  <2>2. setup[x].pc = "team" /\ UNCHANGED <<beside, worker, d1, bucket, app, policy>> /\ (Fault \/ UNCHANGED faults)
    BY <1>2 DEF FindsTeam, Skips, accounts
  <2>8. /\ pc \in Before \cup {"rest", "done"} /\ setup[x].pc \in Before \cup {"read", "patch", "rest"}
        /\ pc \in Before => setup[x].pc \in Before
        /\ pc = "policy" => setup[x].c \in app'
    BY <2>1, <2>2 DEF Before
  <2>9. UNCHANGED worker \/ \E n \in Names \ Data : worker' = WithName(setup[x].c, n)
    BY <2>1, <2>2
  <2>7. /\ UNCHANGED <<pushing, beside>> /\ d1' = d1 /\ Goes(x, pc) /\ (Fault \/ UNCHANGED faults)
        /\ bucket' = bucket \/ bucket' = bucket \cup {setup[x].c}
        /\ app' = app \/ app' = app \cup {setup[x].c}
        /\ policy' = policy \/ (policy' = policy \cup {setup[x].c} /\ setup[x].c \in app)
    BY <2>1, <2>2
  <2>10. SimpleStep(x, pc)
    BY <2>7, <2>8, <2>9 DEF SimpleStep
  <2> QED BY <2>10, StepKeeps
<1>3. CASE FindsApp(x)
  <2>1. PICK pc \in {"policy", "done", "token"} : Goes(x, pc) /\ (pc = "policy" => app' = app \cup {setup[x].c})
    BY <1>1, <1>3 DEF FindsApp, Skips
  <2>2. setup[x].pc = "app" /\ UNCHANGED <<beside, worker, d1, bucket, policy>> /\ (Fault \/ UNCHANGED faults)
        /\ (app' = app \/ app' = app \cup {setup[x].c})
    BY <1>3 DEF FindsApp, Skips, accounts
  <2>8. /\ pc \in Before \cup {"rest", "done"} /\ setup[x].pc \in Before \cup {"read", "patch", "rest"}
        /\ pc \in Before => setup[x].pc \in Before
        /\ pc = "policy" => setup[x].c \in app'
    BY <2>1, <2>2 DEF Before
  <2>9. UNCHANGED worker \/ \E n \in Names \ Data : worker' = WithName(setup[x].c, n)
    BY <2>1, <2>2
  <2>7. /\ UNCHANGED <<pushing, beside>> /\ d1' = d1 /\ Goes(x, pc) /\ (Fault \/ UNCHANGED faults)
        /\ bucket' = bucket \/ bucket' = bucket \cup {setup[x].c}
        /\ app' = app \/ app' = app \cup {setup[x].c}
        /\ policy' = policy \/ (policy' = policy \cup {setup[x].c} /\ setup[x].c \in app)
    BY <2>1, <2>2
  <2>10. SimpleStep(x, pc)
    BY <2>7, <2>8, <2>9 DEF SimpleStep
  <2> QED BY <2>10, StepKeeps
<1>4. CASE AddsPolicy(x)
  <2>1. PICK pc \in {"domain", "done", "token"} : Goes(x, pc)
    BY <1>1, <1>4 DEF AddsPolicy, Skips
  <2>2. setup[x].pc = "policy" /\ UNCHANGED <<beside, worker, d1, bucket, app>> /\ (Fault \/ UNCHANGED faults)
        /\ (policy' = policy \/ policy' = policy \cup {setup[x].c})
    BY <1>4 DEF AddsPolicy, Skips, accounts
  <2>3. setup[x].c \in app
    BY <2>2, KitFields DEF KitOK
  <2>8. /\ pc \in Before \cup {"rest", "done"} /\ setup[x].pc \in Before \cup {"read", "patch", "rest"}
        /\ pc \in Before => setup[x].pc \in Before
        /\ pc = "policy" => setup[x].c \in app'
    BY <2>1, <2>2, <2>3 DEF Before
  <2>9. UNCHANGED worker \/ \E n \in Names \ Data : worker' = WithName(setup[x].c, n)
    BY <2>1, <2>2, <2>3
  <2>7. /\ UNCHANGED <<pushing, beside>> /\ d1' = d1 /\ Goes(x, pc) /\ (Fault \/ UNCHANGED faults)
        /\ bucket' = bucket \/ bucket' = bucket \cup {setup[x].c}
        /\ app' = app \/ app' = app \cup {setup[x].c}
        /\ policy' = policy \/ (policy' = policy \cup {setup[x].c} /\ setup[x].c \in app)
    BY <2>1, <2>2, <2>3
  <2>10. SimpleStep(x, pc)
    BY <2>7, <2>8, <2>9 DEF SimpleStep
  <2> QED BY <2>10, StepKeeps
<1>5. CASE SetsGate(x)
  <2>1. PICK pc \in {"aud", "emails", "done", "token"} : Goes(x, pc)
    BY <1>1, <1>5 DEF SetsGate, Skips
  <2>2. setup[x].pc \in {"domain", "aud", "emails"} /\ UNCHANGED <<beside, d1, bucket, app, policy>>
        /\ (Fault \/ UNCHANGED faults)
        /\ (worker' = worker \/ worker' = WithName(setup[x].c, GateName(setup[x].pc)))
    BY <1>5 DEF SetsGate, Skips, accounts
  <2>3. GateName(setup[x].pc) \in Names \ Data
    BY <2>2 DEF GateName, Names, Data
  <2>8. /\ pc \in Before \cup {"rest", "done"} /\ setup[x].pc \in Before \cup {"read", "patch", "rest"}
        /\ pc \in Before => setup[x].pc \in Before
        /\ pc = "policy" => setup[x].c \in app'
    BY <2>1, <2>2, <2>3 DEF Before
  <2>9. UNCHANGED worker \/ \E n \in Names \ Data : worker' = WithName(setup[x].c, n)
    BY <2>1, <2>2, <2>3
  <2>7. /\ UNCHANGED <<pushing, beside>> /\ d1' = d1 /\ Goes(x, pc) /\ (Fault \/ UNCHANGED faults)
        /\ bucket' = bucket \/ bucket' = bucket \cup {setup[x].c}
        /\ app' = app \/ app' = app \cup {setup[x].c}
        /\ policy' = policy \/ (policy' = policy \cup {setup[x].c} /\ setup[x].c \in app)
    BY <2>1, <2>2, <2>3
  <2>10. SimpleStep(x, pc)
    BY <2>7, <2>8, <2>9 DEF SimpleStep
  <2> QED BY <2>10, StepKeeps
<1> QED BY <1>2, <1>3, <1>4, <1>5

\* The steps of the other setups that do not touch data bindings.
LEMMA RestOfSetupKeeps ==
    ASSUME HelmInv, UNCHANGED pushing, NEW x \in Setups,
           MintsToken(x) \/ MakesBucket(x) \/ PluginsThere(x) \/ SetsTheRest(x)
    PROVE  HelmInv'
<1>0. "own" \in Names \ Data
  BY DEF Names, Data
<1>1. CASE MintsToken(x)
  <2>1. PICK pc \in {"bucket", "look"} : Goes(x, pc)
    BY <1>1 DEF MintsToken, Skips
  <2>2. setup[x].pc = "token" /\ UNCHANGED <<beside, d1, bucket, app, policy>> /\ (Fault \/ UNCHANGED faults)
        /\ (worker' = worker \/ worker' = WithName(setup[x].c, "own"))
    BY <1>1 DEF MintsToken, Skips, accounts
  <2>8. /\ pc \in Before \cup {"rest", "done"} /\ setup[x].pc \in Before \cup {"read", "patch", "rest"}
        /\ pc \in Before => setup[x].pc \in Before
        /\ pc = "policy" => setup[x].c \in app'
    BY <1>0, <2>1, <2>2 DEF Before
  <2>9. UNCHANGED worker \/ \E n \in Names \ Data : worker' = WithName(setup[x].c, n)
    BY <1>0, <2>1, <2>2
  <2>7. /\ UNCHANGED <<pushing, beside>> /\ d1' = d1 /\ Goes(x, pc) /\ (Fault \/ UNCHANGED faults)
        /\ bucket' = bucket \/ bucket' = bucket \cup {setup[x].c}
        /\ app' = app \/ app' = app \cup {setup[x].c}
        /\ policy' = policy \/ (policy' = policy \cup {setup[x].c} /\ setup[x].c \in app)
    BY <1>0, <2>1, <2>2
  <2>10. SimpleStep(x, pc)
    BY <2>7, <2>8, <2>9 DEF SimpleStep
  <2> QED BY <2>10, StepKeeps
<1>2. CASE MakesBucket(x)
  <2>1. Goes(x, "done")
    BY <1>2 DEF MakesBucket, Skips
  <2>2. setup[x].pc = "bucket" /\ UNCHANGED <<beside, d1, app, policy>> /\ (Fault \/ UNCHANGED faults)
        /\ (worker' = worker \/ worker' = WithName(setup[x].c, "own"))
        /\ (bucket' = bucket \/ bucket' = bucket \cup {setup[x].c})
    BY <1>2 DEF MakesBucket, Skips, accounts
  <2>3. PICK pc \in {"done"} : Goes(x, pc)
    BY <2>1
  <2>8. /\ pc \in Before \cup {"rest", "done"} /\ setup[x].pc \in Before \cup {"read", "patch", "rest"}
        /\ pc \in Before => setup[x].pc \in Before
        /\ pc = "policy" => setup[x].c \in app'
    BY <1>0, <2>2, <2>3 DEF Before
  <2>9. UNCHANGED worker \/ \E n \in Names \ Data : worker' = WithName(setup[x].c, n)
    BY <1>0, <2>2, <2>3
  <2>7. /\ UNCHANGED <<pushing, beside>> /\ d1' = d1 /\ Goes(x, pc) /\ (Fault \/ UNCHANGED faults)
        /\ bucket' = bucket \/ bucket' = bucket \cup {setup[x].c}
        /\ app' = app \/ app' = app \cup {setup[x].c}
        /\ policy' = policy \/ (policy' = policy \cup {setup[x].c} /\ setup[x].c \in app)
    BY <1>0, <2>2, <2>3
  <2>10. SimpleStep(x, pc)
    BY <2>7, <2>8, <2>9 DEF SimpleStep
  <2> QED BY <2>10, StepKeeps
<1>3. CASE PluginsThere(x)
  <2>1. PICK pc \in {"rest"} : Goes(x, pc)
    BY <1>3 DEF PluginsThere
  <2>2. setup[x].pc = "read" /\ UNCHANGED <<beside, worker, faults, d1, bucket, app, policy>>
    BY <1>3 DEF PluginsThere, accounts
  <2>8. /\ pc \in Before \cup {"rest", "done"} /\ setup[x].pc \in Before \cup {"read", "patch", "rest"}
        /\ pc \in Before => setup[x].pc \in Before
        /\ pc = "policy" => setup[x].c \in app'
    BY <2>1, <2>2 DEF Before
  <2>9. UNCHANGED worker \/ \E n \in Names \ Data : worker' = WithName(setup[x].c, n)
    BY <2>1, <2>2
  <2>7. /\ UNCHANGED <<pushing, beside>> /\ d1' = d1 /\ Goes(x, pc) /\ (Fault \/ UNCHANGED faults)
        /\ bucket' = bucket \/ bucket' = bucket \cup {setup[x].c}
        /\ app' = app \/ app' = app \cup {setup[x].c}
        /\ policy' = policy \/ (policy' = policy \cup {setup[x].c} /\ setup[x].c \in app)
    BY <2>1, <2>2
  <2>10. SimpleStep(x, pc)
    BY <2>7, <2>8, <2>9 DEF SimpleStep
  <2> QED BY <2>10, StepKeeps
<1>4. CASE SetsTheRest(x)
  <2>1. PICK pc \in {"done"} : Goes(x, pc)
    BY <1>4 DEF SetsTheRest, Skips
  <2>2. setup[x].pc = "rest" /\ UNCHANGED <<beside, d1, bucket, app, policy>> /\ (Fault \/ UNCHANGED faults)
        /\ (worker' = worker \/ worker' = WithName(setup[x].c, "own"))
    BY <1>4 DEF SetsTheRest, Skips, accounts
  <2>8. /\ pc \in Before \cup {"rest", "done"} /\ setup[x].pc \in Before \cup {"read", "patch", "rest"}
        /\ pc \in Before => setup[x].pc \in Before
        /\ pc = "policy" => setup[x].c \in app'
    BY <1>0, <2>1, <2>2 DEF Before
  <2>9. UNCHANGED worker \/ \E n \in Names \ Data : worker' = WithName(setup[x].c, n)
    BY <1>0, <2>1, <2>2
  <2>7. /\ UNCHANGED <<pushing, beside>> /\ d1' = d1 /\ Goes(x, pc) /\ (Fault \/ UNCHANGED faults)
        /\ bucket' = bucket \/ bucket' = bucket \cup {setup[x].c}
        /\ app' = app \/ app' = app \cup {setup[x].c}
        /\ policy' = policy \/ (policy' = policy \cup {setup[x].c} /\ setup[x].c \in app)
    BY <1>0, <2>1, <2>2
  <2>10. SimpleStep(x, pc)
    BY <2>7, <2>8, <2>9 DEF SimpleStep
  <2> QED BY <2>10, StepKeeps
<1> QED BY <1>1, <1>2, <1>3, <1>4

\* At most one database is bound, so one that is found is the one that is meant.
LEMMA FoundIsOne ==
    ASSUME NEW names, Safe(names), NEW found, found = names \cap Data, found # {}
    PROVE  LET n == CHOOSE m \in found : TRUE IN n \in Names /\ found = {n} /\ n \in Data
<1> DEFINE n == CHOOSE m \in found : TRUE
<1>1. n \in found
  OBVIOUS
<1> HIDE DEF n
<1>2. n \in Names /\ n \in Data /\ found \subseteq Data
  BY <1>1 DEF Safe
<1>3. ~(Data \subseteq found)
  BY DEF Safe
<1>4. found = {n}
  BY <1>1, <1>2, <1>3 DEF Data
<1> QED BY <1>2, <1>4 DEF n

\* A setup looks for the database of the Worker, and finds at most the one it
\* has.
LEMMA LooksForDBKeeps ==
    ASSUME HelmInv, UNCHANGED pushing, NEW x \in Setups, LooksForDB(x)
    PROVE  HelmInv'
<1>0. setup[x].pc = "look" /\ UNCHANGED <<beside, worker, accounts>> /\ (Fault \/ UNCHANGED faults)
  BY DEF LooksForDB
<1>1. setup[x].c \in Customers /\ Safe(worker[setup[x].c].names)
  BY <1>0, KitFields DEF KitOK, HelmInv, WorkersOK
<1>2. KitsOK'
  <2>1. CASE Goes(x, "create")
    <3>1. PICK pc \in {"create"} : Goes(x, pc)
      BY <2>1
    <3> QED BY <1>0, <3>1, KitMoves DEF Before, accounts
  <2>2. CASE /\ Found(x) # {}
             /\ setup' = [setup EXCEPT ![x] = [setup[x] EXCEPT !.pc = "read", !.found = Found(x),
                                                  !.what = CHOOSE n \in Found(x) : TRUE]]
    <3>1. PICK found : found = Found(x)
      OBVIOUS
    <3>2. PICK n : n = CHOOSE m \in found : TRUE
      OBVIOUS
    <3>3. n \in Names /\ found = {n} /\ n \in Data
      BY <1>1, <2>2, <3>1, <3>2, FoundIsOne DEF Found
    <3>4. PICK r : r = [setup[x] EXCEPT !.pc = "read", !.found = found, !.what = n]
      OBVIOUS
    <3>5. setup' = [setup EXCEPT ![x] = r]
      BY <2>2, <3>1, <3>2, <3>4
    <3>6. r \in Kits
      BY <3>3, <3>4, KitFields DEF Kits
    <3>7. r.pc = "read" /\ r.c = setup[x].c /\ r.what = n /\ r.seen = setup[x].seen /\ r.found = found
      BY <3>4, KitFields DEF Kits
    <3>8. KitOK(r)'
      BY <1>1, <3>3, <3>6, <3>7, KitFields DEF KitOK
    <3> QED BY <1>0, <3>5, <3>8, KitGoes DEF accounts
  <2> QED BY <2>1, <2>2 DEF LooksForDB, Goes
<1>3. WorkersOK' /\ AccountsOK'
  BY <1>0, WorkersStays, AccountsStays DEF HelmInv, accounts
<1> QED BY <1>0, <1>2, <1>3, SetupRest DEF accounts

\* A setup makes a database.
LEMMA MakesDBKeeps ==
    ASSUME HelmInv, UNCHANGED pushing, NEW x \in Setups, MakesDB(x)
    PROVE  HelmInv'
<1>0. setup[x].pc = "create" /\ UNCHANGED <<beside, worker, bucket, app, policy>> /\ (Fault \/ UNCHANGED faults)
      /\ (d1' = d1 \/ d1' = d1 \cup {setup[x].c})
  BY DEF MakesDB, accounts
<1>1. PICK what \in {"DB", "DB2", "own"} : setup' = [setup EXCEPT ![x].pc = "read", ![x].what = what]
  BY DEF MakesDB
<1>2. PICK r : r = [setup[x] EXCEPT !.pc = "read", !.what = what]
  OBVIOUS
<1>3. what \in Names
  BY DEF Names
<1>4. r \in Kits
  BY <1>2, <1>3, KitFields DEF Kits
<1>5. r.pc = "read" /\ r.c = setup[x].c /\ r.what = what /\ r.seen = setup[x].seen /\ r.found = setup[x].found
  BY <1>2, KitFields DEF Kits
<1>6. setup[x].found = {} /\ setup[x].c \in Customers
  BY <1>0, KitFields DEF KitOK
<1>7. KitOK(r)'
  BY <1>3, <1>4, <1>5, <1>6, KitFields DEF KitOK
<1>8. setup' = [setup EXCEPT ![x] = r]
  BY <1>1, <1>2
<1>9. KitsOK'
  BY <1>0, <1>7, <1>8, KitGoes
<1>10. WorkersOK' /\ AccountsOK'
  BY <1>0, <1>6, WorkersStays DEF HelmInv, AccountsOK
<1> QED BY <1>0, <1>9, <1>10, SetupRest

\* The binding is written and the setup goes on.
LEMMA PatchedGoes ==
    ASSUME HelmInv, NEW x \in Setups, setup[x].pc \in {"read", "patch"},
           setup' = [setup EXCEPT ![x] = Patched(x)], UNCHANGED app
    PROVE  KitsOK'
<1>1. PICK r : r = Patched(x)
  OBVIOUS
<1>2. PICK pc \in {"done", "read", "rest"}, what \in {setup[x].what, "own"} :
        /\ r = [setup[x] EXCEPT !.pc = pc, !.what = what, !.seen = {}]
        /\ pc = "read" => what = "own"
  <2>1. \/ r = [setup[x] EXCEPT !.pc = "done", !.seen = {}]
        \/ r = [setup[x] EXCEPT !.pc = "read", !.what = "own", !.seen = {}]
        \/ r = [setup[x] EXCEPT !.pc = "rest", !.seen = {}]
    BY <1>1 DEF Patched
  <2>2. \A s : [setup[x] EXCEPT !.pc = s, !.seen = {}]
                 = [setup[x] EXCEPT !.pc = s, !.what = setup[x].what, !.seen = {}]
    BY KitFields DEF Kits
  <2> QED BY <2>1, <2>2
<1>3. what \in Names
  BY KitFields DEF KitOK, Names
<1>4. r \in Kits
  BY <1>2, <1>3, KitFields DEF Kits
<1>5. r.pc = pc /\ r.c = setup[x].c /\ r.what = what /\ r.seen = {} /\ r.found = setup[x].found
  BY <1>2, KitFields DEF Kits
<1>6. setup[x].c \in Customers /\ (setup[x].found # {} /\ setup[x].what \in Data => setup[x].found = {setup[x].what})
  BY KitFields DEF KitOK
<1>7. KitOK(r)'
  BY <1>2, <1>3, <1>4, <1>5, <1>6 DEF KitOK, Safe, Data
<1> QED BY <1>1, <1>7, KitGoes

\* A setup reads the bindings.
LEMMA ReadsBindingsKeeps ==
    ASSUME HelmInv, UNCHANGED pushing, NEW x \in Setups, ReadsBindings(x)
    PROVE  HelmInv'
<1>0. setup[x].pc = "read" /\ UNCHANGED <<beside, worker, accounts>> /\ (Fault \/ UNCHANGED faults)
  BY DEF ReadsBindings
<1>1. setup[x].c \in Customers /\ Safe(worker[setup[x].c].names)
  BY <1>0, KitFields DEF KitOK, HelmInv, WorkersOK
<1>2. KitsOK'
  <2>1. CASE setup' = [setup EXCEPT ![x] = Patched(x)]
    BY <1>0, <2>1, PatchedGoes DEF accounts
  <2>2. CASE \/ setup' = [setup EXCEPT ![x].pc = "patch", ![x].seen = worker[setup[x].c].names]
             \/ Goes(x, "patch")
    <3>1. PICK seen : /\ seen = worker[setup[x].c].names \/ seen = setup[x].seen
                      /\ setup' = [setup EXCEPT ![x].pc = "patch", ![x].seen = seen]
      BY <2>2, KitFields DEF Goes, Kits, HelmInv, KitsOK
    <3>2. PICK r : r = [setup[x] EXCEPT !.pc = "patch", !.seen = seen]
      OBVIOUS
    <3>3. Safe(seen)
      BY <1>1, <3>1, KitFields DEF KitOK
    <3>4. r \in Kits
      BY <3>2, <3>3, KitFields DEF Kits, Safe
    <3>5. r.pc = "patch" /\ r.c = setup[x].c /\ r.what = setup[x].what /\ r.seen = seen /\ r.found = setup[x].found
      BY <3>2, KitFields DEF Kits
    <3>6. KitOK(r)'
      BY <1>0, <3>3, <3>4, <3>5, KitFields DEF KitOK
    <3>7. setup' = [setup EXCEPT ![x] = r]
      BY <2>2, <3>1, <3>2
    <3> QED BY <1>0, <3>6, <3>7, KitGoes DEF accounts
  <2> QED BY <2>1, <2>2 DEF ReadsBindings
<1>3. WorkersOK' /\ AccountsOK'
  BY <1>0, WorkersStays, AccountsStays DEF HelmInv, accounts
<1> QED BY <1>0, <1>2, <1>3, SetupRest DEF accounts

\* A setup writes the bindings back with its own: it never holds both
\* databases, because it takes out the one it found.
LEMMA PatchesBindingsKeeps ==
    ASSUME HelmInv, UNCHANGED pushing, NEW x \in Setups, PatchesBindings(x)
    PROVE  HelmInv'
<1>0. setup[x].pc = "patch" /\ UNCHANGED <<beside, accounts>> /\ (Fault \/ UNCHANGED faults)
      /\ setup' = [setup EXCEPT ![x] = Patched(x)]
  BY DEF PatchesBindings
<1>1. setup[x].c \in Customers /\ Safe(setup[x].seen) /\ setup[x].what \in Names
  BY <1>0, KitFields DEF KitOK
<1>2. KitsOK'
  BY <1>0, PatchedGoes DEF accounts
<1>3. WorkersOK'
  <2> DEFINE names == Replaced(setup[x])
  <2>1. worker' = [worker EXCEPT ![setup[x].c].names = names] \/ worker' = worker
    BY DEF PatchesBindings
  <2>2. Safe(names)
    BY <1>1 DEF Safe, Replaced, Data
  <2> HIDE DEF names
  <2> QED BY <1>1, <2>1, <2>2, NamesKeep, WorkersStays DEF HelmInv
<1>4. AccountsOK'
  BY <1>0, AccountsStays DEF HelmInv, accounts
<1> QED BY <1>0, <1>2, <1>3, <1>4, SetupRest DEF accounts

-----------------------------------------------------------------------------
(***************************************************************************)
(* The theorems.                                                           *)
(***************************************************************************)

\* Every step of the pushers, the agents and the manage page keeps the
\* invariant.
LEMMA UpdatesKeep ==
    ASSUME HelmInv, UpdatesNext, UNCHANGED <<deploying, setup>>
    PROVE  HelmInv'
<1>1. CASE \E p \in Pushers : CronStep(p) \/ ClickStep(p)
  <2> SUFFICES ASSUME NEW p \in Pushers, CronStep(p) \/ ClickStep(p)
               PROVE  HelmInv'
    BY <1>1
  <2>1. CASE CronStarts(p)
    BY <2>1, CronStartsKeeps
  <2>2. CASE CronLists(p)
    BY <2>2, CronListsKeeps
  <2>3. CASE \E d \in Deployments : ClickArrives(p, d)
    BY <2>3, ClickArrivesKeeps
  <2>4. CASE ClickGated(p)
    BY <2>4, ClickGatedKeeps
  <2>5. CASE ClickFetches(p)
    BY <2>5, ClickFetchesKeeps
  <2>6. CASE ClickGets(p)
    BY <2>6, ClickGetsKeeps
  <2>7. CASE \E d \in Deployments : Reads(p, d)
    BY <2>7, ReadsKeeps
  <2>8. CASE \E d \in Deployments : BundleMissing(p, d)
    BY <2>8, BundleMissingKeeps
  <2>9. CASE Uploads(p)
    BY <2>9, UploadsKeeps
  <2>10. CASE UploadRefused(p)
    BY <2>10, UploadRefusedKeeps
  <2>11. CASE Records(p) \/ RecordFails(p)
    BY <2>11, RecordsKeeps
  <2>12. CASE RunEnds(p)
    BY <2>12, RunEndsKeeps
  <2> QED
    BY <2>1, <2>2, <2>3, <2>4, <2>5, <2>6, <2>7, <2>8, <2>9, <2>10, <2>11, <2>12
    DEF CronStep, ClickStep
<1>2. CASE \E c \in Customers : SelfStep(c)
  <2> SUFFICES ASSUME NEW c \in Customers, SelfStep(c)
               PROVE  HelmInv'
    BY <1>2
  <2> QED
    BY SelfDeploysKeeps, SelfClaimsKeeps, SelfUpdatesKeeps, SelfReadsKeeps, SelfPutsKeeps, SelfClearsKeeps
    DEF SelfStep
<1>3. CASE ManageStep
  BY <1>3, AskArrivesKeeps, PausesKeeps, ResumesKeeps, RotatesKeeps, RevokesKeeps, DeletesKeeps DEF ManageStep
<1>4. CASE Publishes
  BY <1>4, PublishesKeeps
<1>5. CASE \E c \in Customers, t \in CfTokens : TokenDropped(c, t)
  BY <1>5, TokenDroppedKeeps
<1>6. CASE \E d \in Deployments : LinkExpires(d)
  BY <1>6, LinkExpiresKeeps
<1> QED BY <1>1, <1>2, <1>3, <1>4, <1>5, <1>6 DEF UpdatesNext, Pushers

\* So does every step of payments, sessions and deploy forms,
LEMMA DeploysKeep ==
    ASSUME HelmInv, DeployNext, Beside
    PROVE  HelmInv'
<1>1. CASE WebhookStep
  BY <1>1, LooksKeeps, EntersKeeps, AppliesKeeps, ApplyFailsKeeps, MarksKeeps DEF WebhookStep
<1>2. CASE \E c \in Customers : Exchanges(c) \/ CookieExpires(c)
  BY <1>2, SessionKeeps
<1>3. CASE \E f \in Forms : FormStep(f)
  <2> SUFFICES ASSUME NEW f \in Forms, FormStep(f)
               PROVE  HelmInv'
    BY <1>3
  <2>1. CASE \E c \in Customers : FormArrives(f, c)
    BY <2>1, FormArrivesKeeps
  <2>2. CASE Verifies(f) \/ EnsuresD1(f) \/ D1Refused(f) \/ Extras(f) \/ FormDies(f)
    BY <2>2, VerifiesKeeps, EnsuresD1Keeps, FormEndsKeeps, ExtrasKeeps
  <2>3. CASE Puts(f) \/ PutMeetsTag(f) \/ PutsAgain(f) \/ PutFails(f)
    BY <2>3, PutsKeeps, PutMeetsTagKeeps, PutsAgainKeeps, PutFailsKeeps
  <2>4. CASE SetsSecrets(f) \/ EnsuresApp(f) \/ AttachesPolicy(f) \/ SetsAud(f)
    BY <2>4, SetsSecretsKeeps, EnsuresAppKeeps, AttachesPolicyKeeps, SetsAudKeeps
  <2>5. CASE Inserts(f) \/ Logs(f) \/ Seeds(f) \/ Links(f) \/ PersistFails(f)
    BY <2>5, InsertsKeeps, LogsKeeps, SeedsKeeps, LinksKeeps, PersistFailsKeeps
  <2>6. CASE Binds(f) \/ Answers(f)
    BY <2>6, BindsKeeps, AnswersKeeps
  <2> QED BY <2>1, <2>2, <2>3, <2>4, <2>5, <2>6 DEF FormStep
<1> QED BY <1>1, <1>2, <1>3 DEF DeployNext

\* and every step of the setups,
LEMMA SetupsKeep ==
    ASSUME HelmInv, SetupNext, UNCHANGED pushing
    PROVE  HelmInv'
<1> SUFFICES ASSUME NEW x \in Setups, SetupStep(x)
             PROVE  HelmInv'
  BY DEF SetupNext
<1>1. CASE FindsTeam(x) \/ FindsApp(x) \/ AddsPolicy(x) \/ SetsGate(x)
  BY <1>1, WizardKeeps
<1>2. CASE MintsToken(x) \/ MakesBucket(x) \/ PluginsThere(x) \/ SetsTheRest(x)
  BY <1>2, RestOfSetupKeeps
<1>3. CASE LooksForDB(x) \/ MakesDB(x)
  BY <1>3, LooksForDBKeeps, MakesDBKeeps
<1>4. CASE ReadsBindings(x) \/ PatchesBindings(x) \/ SetupDies(x)
  BY <1>4, ReadsBindingsKeeps, PatchesBindingsKeeps, SetupDiesKeeps
<1>5. ASSUME NEW c \in Customers,
             \/ WizardArrives(x, c) \/ AutoArrives(x, c) \/ DeployArrives(x, c)
             \/ PutsSecret(x, c) \/ DeletesSecret(x, c)
      PROVE  HelmInv'
  BY <1>5, ArrivesKeeps
<1>6. ASSUME NEW c \in Customers, BindArrives(x, c)
      PROVE  HelmInv'
  BY <1>6, BindArrivesKeeps
<1> QED BY <1>1, <1>2, <1>3, <1>4, <1>5, <1>6 DEF SetupStep

\* and a step that changes nothing.
LEMMA NothingKeeps == HelmInv /\ UNCHANGED vars => HelmInv'
<1> SUFFICES ASSUME HelmInv, UNCHANGED vars PROVE HelmInv'
  OBVIOUS
<1> QED
  BY PlainStays, SiteStays, AccountsStays, WorkersStays, RowsStays, AskStays, RunsStays, EarlyStays,
     PushesStays, SelvesStays, HooksStays, FormsStays, KitsStays
  DEF HelmInv, vars, ledger, pushing, deploying, paying, accounts

\* The invariant is inductive.
LEMMA HelmSteps == HelmInv /\ [Next]_vars => HelmInv'
<1> SUFFICES ASSUME HelmInv, [Next]_vars PROVE HelmInv'
  OBVIOUS
<1>1. CASE UpdatesNext /\ UNCHANGED <<deploying, setup>>
  BY <1>1, UpdatesKeep
<1>2. CASE DeployNext /\ Beside
  BY <1>2, DeploysKeep
<1>3. CASE SetupNext /\ UNCHANGED pushing
  BY <1>3, SetupsKeep
<1>4. CASE UNCHANGED vars
  BY <1>4, NothingKeeps
<1> QED BY <1>1, <1>2, <1>3, <1>4 DEF Next, Beside

\* It holds in every behaviour.
LEMMA HelmHolds == Spec => []HelmInv
BY HelmInitially, HelmSteps, PTL DEF Spec

\* It implies the types.
LEMMA HelmTypes == HelmInv => TypeOK
<1> SUFFICES ASSUME HelmInv PROVE TypeOK
  OBVIOUS
<1>1. LedgerTypeOK
  BY DEF HelmInv, SiteOK, RowsOK, WorkersOK, LedgerTypeOK
<1>2. UpdatesTypeOK
  BY DEF HelmInv, PlainOK, RowsOK, AskOK, RunsOK, EarlyOK, SelvesOK, UpdatesTypeOK
<1>3. DeployTypeOK
  BY DEF HelmInv, PlainOK, AccountsOK, RowsOK, HooksOK, FormsOK, DeployTypeOK
<1>4. SetupTypeOK
  BY DEF HelmInv, WorkersOK, KitsOK, SetupTypeOK, Safe
<1> QED BY <1>1, <1>2, <1>3, <1>4 DEF TypeOK

(* Type correctness: whatever the pushers, owners, agents, webhooks, forms  *)
(* and setups do, and in any order, the variables keep their types (the     *)
(* columns of 0001_init.sql and 0002_cloud.sql and the locals that a        *)
(* request holds across an await).                                          *)
THEOREM HelmTypeCorrect == Spec => []TypeOK
BY HelmHolds, HelmTypes, PTL

(* The sha in a row is the bundle last put on the Worker for it, unless     *)
(* that push has yet to be recorded, its answer or its record was lost, or  *)
(* it was uploaded while another push of the deployment awaited its record  *)
(* (pushOne and recordPushSuccess, pushUpdates.ts:481-547 and               *)
(* deployments.ts:161-175; the deploy form writes the first sha,            *)
(* deployFlow.ts:798-820).                                                  *)
THEOREM LedgersAreLastPush == Spec => []LedgerIsLastPush
<1>1. HelmInv => LedgerIsLastPush
  BY DEF HelmInv, PushesOK
<1> QED BY <1>1, HelmHolds, PTL

(* A manage link that a deploy answered works until its owner asks to be    *)
(* forgotten or its thirty days are over: its row exists and its link is    *)
(* live (runDeploy, deployFlow.ts:759-840, handleManageAction,              *)
(* index.ts:779-912, and resolveManageToken, deployments.ts:227-244).       *)
THEOREM ToldAreManaged == Spec => []ToldMeansManaged
<1>1. HelmInv => ToldMeansManaged
  <2> SUFFICES ASSUME HelmInv, NEW d \in told \ gone
               PROVE  Exists(d) /\ d \in live
    BY DEF ToldMeansManaged, ToldIsManaged
  <2> QED BY DEF HelmInv, RowsOK
<1> QED BY <1>1, HelmHolds, PTL
-----------------------------------------------------------------------------
(* A cron uploads to a paused deployment only when it had listed it before  *)
(* the pause, and on a Worker that carries the marker only when it had read *)
(* its bindings without it (listActiveDeployments, deployments.ts:107-124,  *)
(* and pushOne, pushUpdates.ts:425-479).                                    *)
THEOREM CronsLeaveAlone == Spec => CronLeavesAlone
<1> DEFINE Alone2 == \A p \in Crons : Uploads(p) =>
                        LET d == run[p].d
                        IN  /\ Exists(d) /\ row[d].paused => d \in early[p]
                            /\ Flag \in worker[Owner[d]].names => Flag \notin run[p].seen
<1>1. HelmInv => Alone2
  <2> SUFFICES ASSUME HelmInv, NEW p \in Crons, Uploads(p)
               PROVE  LET d == run[p].d
                      IN  /\ Exists(d) /\ row[d].paused => d \in early[p]
                          /\ Flag \notin run[p].seen
    OBVIOUS
  <2>1. p \in Pushers /\ run[p].pc = "upload"
    BY DEF Pushers, Uploads
  <2>2. run[p].d \in run[p].todo
    BY <2>1, RunFields DEF RunOK
  <2> QED BY <2>1, <2>2 DEF HelmInv, EarlyOK, RunsOK
<1>2. HelmInv /\ [Next]_vars => [Alone2]_uvars
  BY <1>1
<1> QED BY <1>2, HelmHolds, PTL DEF Spec, CronLeavesAlone
-----------------------------------------------------------------------------
\* What the owner decided stays for the row of d.
Decided(d) ==
    /\ (Exists(d) /\ row'[d] # NoRow) =>
          /\ (row[d].paused /\ ~row'[d].paused) => ask = [act |-> "resume", d |-> d]
          /\ row[d].token # row'[d].token => ask = [act |-> "rotate", d |-> d]
    /\ (~Exists(d) /\ row'[d] # NoRow) => run' = run

\* A row that is written again by a push keeps the pause and the token.
LEMMA RewrittenDecides ==
    ASSUME HelmInv, NEW d \in Deployments, Rewritten \/ UNCHANGED row
    PROVE  Decided(d)
BY DEF Decided, Rewritten, Exists

\* Which rows the pushers, the agents and the manage page write.
LEMMA UpdatesRows ==
    ASSUME HelmInv, UpdatesNext
    PROVE  UNCHANGED row \/ Rewritten \/ Pauses \/ Resumes \/ Rotates \/ Deletes
<1>1. CASE \E p \in Pushers : CronStep(p) \/ ClickStep(p)
  <2> SUFFICES ASSUME NEW p \in Pushers, CronStep(p) \/ ClickStep(p)
               PROVE  UNCHANGED row \/ Rewritten
    BY <1>1
  <2>1. CASE \E d \in Deployments : BundleMissing(p, d)
    BY <2>1, NotedRewrites DEF BundleMissing, HelmInv
  <2>2. CASE Uploads(p) \/ UploadRefused(p)
    <3>1. run[p].d \in Deployments
      BY <2>2, RunFields DEF Uploads, UploadRefused, RunOK, HelmInv, RowsOK
    <3>2. row' = row \/ row' = Noted(run[p].d)
      BY <2>2 DEF Uploads, UploadRefused
    <3> QED BY <3>1, <3>2, NotedRewrites DEF HelmInv
  <2>3. CASE Records(p) \/ RecordFails(p)
    <3> DEFINE d == run[p].d
               sha == run[p].sha
    <3>1. d \in Deployments /\ sha \in 0 .. MaxSha
      BY <2>3, RunFields DEF Records, RecordFails, RunOK, HelmInv, RowsOK
    <3>2. \/ row' = row \/ row' = Noted(d)
          \/ Exists(d) /\ \E error \in BOOLEAN : row' = [row EXCEPT ![d].sha = sha, ![d].error = error]
      BY <2>3 DEF Records, RecordFails, Recorded
    <3> HIDE DEF d, sha
    <3> QED BY <3>1, <3>2, NotedRewrites, ShaRewrites DEF HelmInv
  <2>4. CASE \/ CronStarts(p) \/ CronLists(p) \/ RunEnds(p)
             \/ ClickGated(p) \/ ClickFetches(p) \/ ClickGets(p)
             \/ \E d \in Deployments : Reads(p, d) \/ ClickArrives(p, d)
    BY <2>4 DEF CronStarts, CronLists, RunEnds, ClickGated, ClickFetches, ClickGets, Reads, ClickArrives, ledger
  <2> QED BY <2>1, <2>2, <2>3, <2>4 DEF CronStep, ClickStep
<1>2. CASE \E c \in Customers : SelfStep(c)
  BY <1>2 DEF SelfStep, SelfDeploys, SelfClaims, SelfUpdates, SelfReads, SelfPuts, SelfClears, ledger
<1>3. CASE ManageStep
  BY <1>3 DEF ManageStep, AskArrives, Revokes, ledger
<1>4. CASE \/ Publishes \/ \E d \in Deployments : LinkExpires(d)
           \/ \E c \in Customers, t \in CfTokens : TokenDropped(c, t)
  BY <1>4 DEF Publishes, LinkExpires, TokenDropped
<1> QED BY <1>1, <1>2, <1>3, <1>4 DEF UpdatesNext, Pushers

\* Which rows the deploys and the webhook write.
LEMMA DeploysRows ==
    ASSUME HelmInv, DeployNext, NEW d \in Deployments
    PROVE  /\ Exists(d) => /\ Exists(d)'
                           /\ row[d].paused => row'[d].paused
                           /\ row'[d].token = row[d].token
<1>1. CASE \E e \in Events, n \in {1, 2} : Applies(e, n)
  <2>1. PICK e \in Events, n \in {1, 2} : Applies(e, n)
    BY <1>1
  <2>2. row' = row \/ row' = [k \in Deployments |-> IF Exists(k) /\ Owner[k] = e[2]
                                THEN [row[k] EXCEPT !.paused = TRUE] ELSE row[k]]
    BY <2>1 DEF Applies
  <2>3. Exists(d) => row[d] \in Rows
    BY DEF HelmInv, RowsOK, Exists
  <2>4. Exists(d) => /\ [row[d] EXCEPT !.paused = TRUE] \in Rows
                     /\ [row[d] EXCEPT !.paused = TRUE].paused
                     /\ [row[d] EXCEPT !.paused = TRUE].token = row[d].token
    BY <2>3 DEF Rows
  <2> QED BY <2>2, <2>3, <2>4, NoRowIsNone DEF Exists
<1>2. CASE \E f \in Forms : Inserts(f)
  <2>1. PICK f \in Forms, n \in Deployments \ minted :
          row' = [row EXCEPT ![n] = [sha |-> form[f].sha, paused |-> FALSE,
                                     token |-> form[f].key, error |-> FALSE]]
    BY <1>2 DEF Inserts
  <2>2. Exists(d) => d # n
    BY DEF HelmInv, RowsOK
  <2> QED BY <2>1, <2>2 DEF Exists
<1>3. CASE \E f \in Forms : Seeds(f)
  <2>1. PICK f \in Forms : Seeds(f)
    BY <1>3
  <2>2. form[f].d \in Deployments /\ Exists(form[f].d) /\ form[f].sha \in 0 .. MaxSha
    BY <2>1, FormFields DEF Seeds, At, FormOK, HelmInv, RowsOK
  <2>3. PICK k \in Deployments, sha \in 0 .. MaxSha, error \in {FALSE} :
          Exists(k) /\ row' = [row EXCEPT ![k].sha = sha, ![k].error = error]
    BY <2>1, <2>2 DEF Seeds
  <2>4. Rewritten
    BY <2>3, ShaRewrites DEF HelmInv
  <2> QED BY <2>4 DEF Rewritten, Exists
<1>4. CASE UNCHANGED row
  BY <1>4 DEF Exists
<1>5. CASE WebhookStep /\ ~(\E e \in Events, n \in {1, 2} : Applies(e, n))
  BY <1>4, <1>5 DEF WebhookStep, Looks, Enters, ApplyFails, Marks, ledger
<1>6. CASE \E c \in Customers : Exchanges(c) \/ CookieExpires(c)
  BY <1>4, <1>6 DEF Exchanges, CookieExpires, ledger
<1>7. ASSUME NEW f \in Forms, FormStep(f), ~Inserts(f), ~Seeds(f)
      PROVE  UNCHANGED row
  <2>1. CASE \E c \in Customers : FormArrives(f, c)
    BY <2>1 DEF FormArrives, ledger
  <2>2. CASE Verifies(f) \/ EnsuresD1(f) \/ D1Refused(f) \/ Extras(f) \/ FormDies(f)
    BY <2>2 DEF Verifies, EnsuresD1, D1Refused, Extras, FormDies, ledger
  <2>3. CASE Puts(f) \/ PutMeetsTag(f) \/ PutsAgain(f) \/ PutFails(f)
    BY <2>3 DEF Puts, PutMeetsTag, PutsAgain, PutFails, ledger
  <2>4. CASE SetsSecrets(f) \/ EnsuresApp(f) \/ AttachesPolicy(f) \/ SetsAud(f)
    BY <2>4 DEF SetsSecrets, EnsuresApp, AttachesPolicy, SetsAud
  <2>5. CASE Logs(f) \/ Links(f) \/ PersistFails(f) \/ Binds(f) \/ Answers(f)
    BY <2>5 DEF Logs, Links, PersistFails, Binds, Answers, ledger
  <2> QED BY <1>7, <2>1, <2>2, <2>3, <2>4, <2>5 DEF FormStep
<1> QED BY <1>1, <1>2, <1>3, <1>4, <1>5, <1>6, <1>7 DEF DeployNext

\* The setups touch none of the rows.
LEMMA SetupsBeside == ASSUME SetupNext PROVE UNCHANGED beside
<1> SUFFICES ASSUME NEW x \in Setups, SetupStep(x)
             PROVE  UNCHANGED beside
  BY DEF SetupNext
<1>1. CASE FindsTeam(x) \/ FindsApp(x) \/ AddsPolicy(x) \/ SetsGate(x)
  BY <1>1 DEF FindsTeam, FindsApp, AddsPolicy, SetsGate, Skips
<1>2. CASE MintsToken(x) \/ MakesBucket(x) \/ PluginsThere(x) \/ SetsTheRest(x)
  BY <1>2 DEF MintsToken, MakesBucket, PluginsThere, SetsTheRest, Skips
<1>3. CASE LooksForDB(x) \/ MakesDB(x) \/ ReadsBindings(x) \/ PatchesBindings(x) \/ SetupDies(x)
  BY <1>3 DEF LooksForDB, MakesDB, ReadsBindings, PatchesBindings, SetupDies
<1>4. ASSUME NEW c \in Customers,
             \/ WizardArrives(x, c) \/ AutoArrives(x, c) \/ DeployArrives(x, c)
             \/ PutsSecret(x, c) \/ DeletesSecret(x, c) \/ BindArrives(x, c)
      PROVE  UNCHANGED beside
  BY <1>4 DEF WizardArrives, AutoArrives, DeployArrives, PutsSecret, DeletesSecret, BindArrives
<1> QED BY <1>1, <1>2, <1>3, <1>4 DEF SetupStep

\* The requests of the owner are the ones that are to change them.
LEMMA AskDecides ==
    ASSUME HelmInv, Pauses \/ Resumes \/ Rotates \/ Deletes, NEW d \in Deployments
    PROVE  Decided(d)
<1>1. ask \in Asks /\ ask.d \in Deployments
      /\ (~Deletes => Exists(ask.d) /\ row[ask.d] \in Rows)
  BY AskedExists DEF Pauses, Resumes, Rotates, Deletes
<1>2. CASE Pauses
  <2>1. row' = [row EXCEPT ![ask.d] = [row[ask.d] EXCEPT !.paused = TRUE]] /\ ask.act = "pause"
    BY <1>2 DEF Pauses
  <2>2. Exists(ask.d) /\ row[ask.d] \in Rows
    BY <2>1, AskedExists
  <2>3. [row[ask.d] EXCEPT !.paused = TRUE].paused
        /\ [row[ask.d] EXCEPT !.paused = TRUE].token = row[ask.d].token
    BY <2>2 DEF Rows
  <2>4. \A e \in Deployments : row'[e] = IF e = ask.d THEN [row[ask.d] EXCEPT !.paused = TRUE] ELSE row[e]
    BY <2>1 DEF HelmInv, RowsOK
  <2> QED BY <2>2, <2>3, <2>4 DEF Decided, Exists
<1>3. CASE Resumes
  <2>1. row' = [row EXCEPT ![ask.d] = [row[ask.d] EXCEPT !.paused = FALSE]] /\ ask.act = "resume"
    BY <1>3 DEF Resumes
  <2>2. Exists(ask.d) /\ row[ask.d] \in Rows
    BY <2>1, AskedExists
  <2>3. [row[ask.d] EXCEPT !.paused = FALSE].token = row[ask.d].token
    BY <2>2 DEF Rows
  <2>4. \A e \in Deployments : row'[e] = IF e = ask.d THEN [row[ask.d] EXCEPT !.paused = FALSE] ELSE row[e]
    BY <2>1 DEF HelmInv, RowsOK
  <2>5. d = ask.d => ask = [act |-> "resume", d |-> d]
    BY <1>1, <2>1 DEF Asks
  <2> QED BY <2>2, <2>3, <2>4, <2>5 DEF Decided, Exists
<1>4. CASE Rotates
  <2>1. PICK t \in CfTokens : row' = [row EXCEPT ![ask.d] = [row[ask.d] EXCEPT !.token = t, !.error = FALSE]]
    BY <1>4 DEF Rotates
  <2>2. ask.act = "rotate"
    BY <1>4 DEF Rotates
  <2>3. Exists(ask.d) /\ row[ask.d] \in Rows
    BY <2>2, AskedExists
  <2>4. [row[ask.d] EXCEPT !.token = t, !.error = FALSE].paused <=> row[ask.d].paused
    BY <2>3 DEF Rows
  <2>5. \A e \in Deployments : row'[e] = IF e = ask.d THEN [row[ask.d] EXCEPT !.token = t, !.error = FALSE] ELSE row[e]
    BY <2>1 DEF HelmInv, RowsOK
  <2>6. d = ask.d => ask = [act |-> "rotate", d |-> d]
    BY <1>1, <2>2 DEF Asks
  <2> QED BY <2>3, <2>4, <2>5, <2>6 DEF Decided, Exists
<1>5. CASE Deletes
  <2>1. row' = row \/ row' = [row EXCEPT ![ask.d] = NoRow]
    BY <1>5 DEF Deletes
  <2>2. row'[d] = row[d] \/ row'[d] = NoRow
    BY <2>1 DEF HelmInv, RowsOK
  <2> QED BY <2>2 DEF Decided, Exists
<1> QED BY <1>2, <1>3, <1>4, <1>5

(* What the owner decided stays: whatever push, webhook or form is under    *)
(* way, a pause ends only with a resume of this row, its token changes only *)
(* with a rotation, and no run brings back a row that was deleted           *)
(* (deployments.ts:149-205: each write names its own columns).              *)
THEOREM OwnersDecide == Spec => OwnerDecides
<1>1. ASSUME HelmInv, Next, NEW d \in Deployments PROVE Decided(d)
  <2>1. CASE UpdatesNext /\ UNCHANGED <<deploying, setup>>
    BY <1>1, <2>1, UpdatesRows, RewrittenDecides, AskDecides
  <2>2. CASE DeployNext /\ Beside
    BY <1>1, <2>2, DeploysRows DEF Decided, Beside
  <2>3. CASE SetupNext /\ UNCHANGED pushing
    BY <1>1, <2>3, SetupsBeside, RewrittenDecides DEF beside
  <2> QED BY <1>1, <2>1, <2>2, <2>3 DEF Next, Beside
<1>2. HelmInv /\ [Next]_vars => [\A d \in Deployments : Decided(d)]_uvars
  BY <1>1 DEF vars, uvars
<1> QED BY <1>2, HelmHolds, PTL DEF Spec, OwnerDecides, Decided

-----------------------------------------------------------------------------
\* A binding that goes, and why.
Accounted(c) ==
    \A n \in worker[c].names \ worker'[c].names :
        Unseen(c, n) \/ Exchanged(c, n) \/ Replaces(c)

\* A step that only adds bindings.
LEMMA NothingGoes ==
    ASSUME NEW c \in Customers, worker[c].names \subseteq worker'[c].names
    PROVE  Accounted(c)
BY DEF Accounted

\* A name is added to the Worker of k.
LEMMA AddedStays ==
    ASSUME HelmInv, NEW k, k \in Customers, NEW n, NEW c \in Customers,
           worker' = worker \/ worker' = [worker EXCEPT ![k].names = @ \cup {n}]
    PROVE  worker[c].names \subseteq worker'[c].names
<1>1. worker \in [Customers -> Scripts]
  BY DEF HelmInv, WorkersOK
<1>2. CASE worker' = worker
  BY <1>2
<1>3. CASE worker' = [worker EXCEPT ![k] = [worker[k] EXCEPT !.names = worker[k].names \cup {n}]]
  <2>1. worker[k] \in Scripts
    BY <1>1
  <2>2. [worker[k] EXCEPT !.names = worker[k].names \cup {n}].names = worker[k].names \cup {n}
    BY <2>1 DEF Scripts
  <2>3. worker'[c] = IF c = k THEN [worker[k] EXCEPT !.names = worker[k].names \cup {n}] ELSE worker[c]
    BY <1>1, <1>3
  <2> QED BY <2>2, <2>3
<1> QED BY <1>2, <1>3

\* The steps of the pushers and the agents,
LEMMA UpdatesAccount ==
    ASSUME HelmInv, UpdatesNext, NEW c \in Customers
    PROVE  Accounted(c)
<1>1. ASSUME NEW p \in Pushers, Uploads(p)
      PROVE  Accounted(c)
  <2> DEFINE o == Owner[run[p].d]
  <2>1. run[p].d \in Deployments /\ run[p].sha \in DOMAIN ladder /\ Safe(run[p].seen)
    BY <1>1, RunFields DEF Uploads, RunOK, HelmInv, RowsOK
  <2>2. o \in Customers
    BY <2>1, LedgerAssumption
  <2>3. worker'[o].names = run[p].seen /\ \A k \in Customers : k # o => worker'[k] = worker[k]
    BY <1>1, <2>1, <2>2, PutKeeps DEF Uploads, Merged, HelmInv
  <2>4. CASE c = o
    BY <1>1, <2>3, <2>4 DEF Accounted, Unseen
  <2>5. CASE c # o
    BY <2>3, <2>5, NothingGoes
  <2> QED BY <2>4, <2>5
<1>2. ASSUME NEW p \in Pushers, CronStep(p) \/ ClickStep(p), ~Uploads(p)
      PROVE  UNCHANGED worker
  <2>1. CASE \/ CronStarts(p) \/ CronLists(p) \/ RunEnds(p)
             \/ ClickGated(p) \/ ClickFetches(p) \/ ClickGets(p)
             \/ \E d \in Deployments : Reads(p, d) \/ ClickArrives(p, d)
    BY <2>1 DEF CronStarts, CronLists, RunEnds, ClickGated, ClickFetches, ClickGets, Reads, ClickArrives, ledger
  <2>2. CASE \/ UploadRefused(p) \/ Records(p) \/ RecordFails(p)
             \/ \E d \in Deployments : BundleMissing(p, d)
    BY <2>2 DEF UploadRefused, Records, RecordFails, BundleMissing
  <2> QED BY <1>2, <2>1, <2>2 DEF CronStep, ClickStep
<1>3. ASSUME NEW k \in Customers, SelfStep(k)
      PROVE  Accounted(c)
  <2>w. worker \in [Customers -> Scripts]
    BY DEF HelmInv, WorkersOK
  <2>1. CASE SelfDeploys(k)
    <3>1. c # k => worker'[c] = worker[c]
      BY <2>1, <2>w DEF SelfDeploys
    <3> QED BY <2>1, <3>1, NothingGoes DEF Accounted, Replaces
  <2>2. CASE SelfClaims(k)
    <3>1. PICK n \in {Flag} : worker' = worker \/ worker' = [worker EXCEPT ![k].names = @ \cup {n}]
      BY <2>2 DEF SelfClaims
    <3> QED BY <3>1, AddedStays, NothingGoes
  <2>3. CASE SelfUpdates(k) \/ SelfReads(k)
    BY <2>3, NothingGoes DEF SelfUpdates, SelfReads, ledger
  <2>4. CASE SelfPuts(k)
    <3>1. self[k].sha \in DOMAIN ladder /\ Safe(self[k].seen)
      BY <2>4, SelfFields DEF SelfOK, SelfPuts
    <3>2. CASE worker' = worker
      BY <3>2, NothingGoes
    <3>3. CASE worker' = Put(k, self[k].sha, self[k].seen)
      <4>1. worker'[k].names = self[k].seen /\ \A j \in Customers : j # k => worker'[j] = worker[j]
        BY <3>1, <3>3, PutKeeps DEF HelmInv
      <4>2. CASE c = k
        BY <2>4, <4>1, <4>2 DEF Accounted, Unseen
      <4>3. CASE c # k
        BY <4>1, <4>3, NothingGoes
      <4> QED BY <4>2, <4>3
    <3> QED BY <2>4, <3>2, <3>3 DEF SelfPuts, Merged
  <2>5. CASE SelfClears(k)
    <3> DEFINE names == worker[k].names \ {Flag}
    <3>1. worker' = worker \/ worker' = [worker EXCEPT ![k].names = names]
      BY <2>5 DEF SelfClears
    <3>2. Safe(names)
      BY SelfFields DEF Safe
    <3>3. CASE worker' = worker
      BY <3>3, NothingGoes
    <3>4. CASE worker' = [worker EXCEPT ![k].names = names]
      <4> HIDE DEF names
      <4>1. worker'[k].names = names /\ \A j \in Customers : j # k => worker'[j] = worker[j]
        BY <3>2, <3>4, NamesKeep DEF HelmInv
      <4>2. CASE c = k
        BY <2>5, <4>1, <4>2 DEF Accounted, Exchanged, names
      <4>3. CASE c # k
        BY <4>1, <4>3, NothingGoes
      <4> QED BY <4>2, <4>3
    <3> QED BY <3>1, <3>3, <3>4
  <2> QED BY <1>3, <2>1, <2>2, <2>3, <2>4, <2>5 DEF SelfStep
<1>4. CASE ManageStep
  <2>1. UNCHANGED worker
    BY <1>4 DEF ManageStep, AskArrives, Pauses, Resumes, Rotates, Revokes, Deletes, ledger
  <2> QED BY <2>1, NothingGoes
<1>5. CASE \/ Publishes \/ \E d \in Deployments : LinkExpires(d)
           \/ \E k \in Customers, t \in CfTokens : TokenDropped(k, t)
  <2>1. UNCHANGED worker
    BY <1>5 DEF Publishes, LinkExpires, TokenDropped
  <2> QED BY <2>1, NothingGoes
<1>6. ASSUME NEW p \in Pushers, CronStep(p) \/ ClickStep(p)
      PROVE  Accounted(c)
  BY <1>1, <1>2, <1>6, NothingGoes
<1> QED BY <1>3, <1>4, <1>5, <1>6 DEF UpdatesNext, Pushers

\* those of the deploy forms,
LEMMA DeploysAccount ==
    ASSUME HelmInv, DeployNext, NEW c \in Customers
    PROVE  Accounted(c)
<1>1. ASSUME UNCHANGED worker PROVE Accounted(c)
  BY <1>1, NothingGoes
<1>2. CASE WebhookStep
  <2>1. UNCHANGED worker
    BY <1>2 DEF WebhookStep, Looks, Enters, Applies, ApplyFails, Marks, ledger
  <2> QED BY <1>1, <2>1
<1>3. CASE \E k \in Customers : Exchanges(k) \/ CookieExpires(k)
  <2>1. UNCHANGED worker
    BY <1>3 DEF Exchanges, CookieExpires, ledger
  <2> QED BY <1>1, <2>1
<1>4. ASSUME NEW f \in Forms, FormStep(f)
      PROVE  Accounted(c)
  <2>1. CASE \E k \in Customers : FormArrives(f, k)
    BY <1>1, <2>1 DEF FormArrives, ledger
  <2>2. CASE \/ Verifies(f) \/ EnsuresD1(f) \/ D1Refused(f) \/ Extras(f) \/ FormDies(f)
             \/ PutMeetsTag(f) \/ PutFails(f) \/ EnsuresApp(f) \/ AttachesPolicy(f)
    BY <1>1, <2>2
    DEF Verifies, EnsuresD1, D1Refused, Extras, FormDies, PutMeetsTag, PutFails, EnsuresApp, AttachesPolicy, ledger
  <2>3. CASE \/ Inserts(f) \/ Logs(f) \/ Seeds(f) \/ Links(f) \/ PersistFails(f) \/ Binds(f) \/ Answers(f)
    BY <1>1, <2>3 DEF Inserts, Logs, Seeds, Links, PersistFails, Binds, Answers, ledger
  <2>4. CASE SetsSecrets(f) \/ SetsAud(f)
    <3>1. PICK n \in {"own", "CF_ACCESS_AUD"} :
            worker' = worker \/ worker' = [worker EXCEPT ![form[f].c].names = @ \cup {n}]
      BY <2>4 DEF SetsSecrets, SetsAud
    <3>2. form[f].c \in Customers
      BY <2>4, FormFields DEF SetsSecrets, SetsAud, At
    <3> QED BY <3>1, <3>2, AddedStays, NothingGoes
  <2>5. CASE Puts(f) \/ PutsAgain(f)
    <3> DEFINE k == form[f].c
    <3>1. CASE c = k
      BY <2>5, <3>1 DEF Accounted, Replaces
    <3>2. CASE c # k
      <4>1. worker'[c] = worker[c]
        BY <2>5, <3>2 DEF Puts, PutsAgain, Put, HelmInv, WorkersOK
      <4> QED BY <4>1, NothingGoes
    <3> QED BY <3>1, <3>2
  <2> QED BY <1>4, <2>1, <2>2, <2>3, <2>4, <2>5 DEF FormStep
<1> QED BY <1>2, <1>3, <1>4 DEF DeployNext

\* a patch of the bindings: it sends back what it read, its own binding, and
\* not the one it exchanges,
LEMMA PatchesAccount ==
    ASSUME HelmInv, NEW x \in Setups, PatchesBindings(x), NEW c \in Customers
    PROVE  Accounted(c)
<1> DEFINE k == setup[x]
           names == Replaced(k)
<1>1. k.pc = "patch" /\ k.c \in Customers /\ k.what \in Names /\ Safe(k.seen)
      /\ (k.found # {} /\ k.what \in Data => k.found = {k.what})
  BY KitFields DEF PatchesBindings, KitOK
<1>2. Safe(names)
  BY <1>1 DEF Safe, Replaced, Data
<1>3. CASE worker' = worker
  BY <1>3, NothingGoes
<1>4. CASE worker' = [worker EXCEPT ![k.c].names = names]
  <2> HIDE DEF names
  <2>1. worker'[k.c].names = names /\ \A j \in Customers : j # k.c => worker'[j] = worker[j]
    BY <1>1, <1>2, <1>4, NamesKeep DEF HelmInv
  <2>2. CASE c # k.c
    BY <2>1, <2>2, NothingGoes
  <2>3. CASE c = k.c
    <3> SUFFICES ASSUME NEW n \in worker[c].names \ names, n \in k.seen
                 PROVE  Exchanged(c, n)
      BY <2>1, <2>3 DEF Accounted, Unseen
    <3>1. k.what \in Data /\ n \in Data /\ n # k.what
      BY DEF names, Replaced
    <3>2. n \notin k.found
      BY <1>1, <3>1
    <3> QED BY <2>3, <3>1, <3>2 DEF Exchanged
  <2> QED BY <2>2, <2>3
<1> QED BY <1>3, <1>4 DEF PatchesBindings

\* and the steps of the setups take away nothing else.
LEMMA SetupsAccount ==
    ASSUME HelmInv, SetupNext, NEW c \in Customers
    PROVE  Accounted(c)
<1> SUFFICES ASSUME NEW x \in Setups, SetupStep(x)
             PROVE  Accounted(c)
  BY DEF SetupNext
<1>0. ASSUME UNCHANGED worker PROVE Accounted(c)
  BY <1>0, NothingGoes
<1>1. CASE \/ FindsTeam(x) \/ FindsApp(x) \/ AddsPolicy(x) \/ LooksForDB(x) \/ MakesDB(x)
           \/ ReadsBindings(x) \/ PluginsThere(x) \/ SetupDies(x)
  BY <1>0, <1>1 DEF FindsTeam, FindsApp, AddsPolicy, LooksForDB, MakesDB, ReadsBindings, PluginsThere,
                    SetupDies, Skips
<1>2. CASE SetsGate(x) \/ MintsToken(x) \/ MakesBucket(x) \/ SetsTheRest(x)
  <2>1. PICK n \in {GateName(setup[x].pc), "own"} :
          worker' = worker \/ worker' = [worker EXCEPT ![setup[x].c].names = @ \cup {n}]
    BY <1>2 DEF SetsGate, MintsToken, MakesBucket, SetsTheRest, Skips, WithName
  <2>2. setup[x].c \in Customers
    BY <1>2, KitFields DEF SetsGate, MintsToken, MakesBucket, SetsTheRest, KitOK
  <2> QED BY <2>1, <2>2, AddedStays, NothingGoes
<1>3. CASE PatchesBindings(x)
  BY <1>3, PatchesAccount
<1>4. ASSUME NEW k \in Customers,
             \/ WizardArrives(x, k) \/ AutoArrives(x, k) \/ DeployArrives(x, k) \/ BindArrives(x, k)
      PROVE  Accounted(c)
  BY <1>0, <1>4 DEF WizardArrives, AutoArrives, DeployArrives, BindArrives
<1>5. ASSUME NEW k \in Customers, PutsSecret(x, k)
      PROVE  Accounted(c)
  <2>1. PICK n \in {"own"} : worker' = [worker EXCEPT ![k].names = @ \cup {n}]
    BY <1>5 DEF PutsSecret, WithName
  <2> QED BY <2>1, AddedStays, NothingGoes
<1>6. ASSUME NEW k \in Customers, DeletesSecret(x, k)
      PROVE  Accounted(c)
  <2> DEFINE names == worker[k].names \ {"own"}
  <2>1. worker' = [worker EXCEPT ![k].names = names]
    BY <1>6 DEF DeletesSecret
  <2>2. Safe(names)
    BY DEF HelmInv, WorkersOK, Safe
  <2> HIDE DEF names
  <2>3. worker'[k].names = names /\ \A j \in Customers : j # k => worker'[j] = worker[j]
    BY <2>1, <2>2, NamesKeep DEF HelmInv
  <2>4. CASE c = k
    BY <1>6, <2>3, <2>4 DEF Accounted, Exchanged, names
  <2>5. CASE c # k
    BY <2>3, <2>5, NothingGoes
  <2> QED BY <2>4, <2>5
<1> QED BY <1>1, <1>2, <1>3, <1>4, <1>5, <1>6 DEF SetupStep

(* A binding goes from a Worker only with a deploy, when it was to go, by a *)
(* setup that did not take the database it found for one                    *)
(* (helmSetup.ts:606-620), or by a write whose reading of the Worker does   *)
(* not have it, because it was not there or the reading failed or did not   *)
(* parse: a push (mergeBindings, pushUpdates.ts:52-82), the update of the   *)
(* agent (helmSetup.ts:397-467) or a patch (cfPatchBinding,                 *)
(* helmSetup.ts:1161-1195).                                                 *)
THEOREM BindingsStay == Spec => BindingsSurvive
<1>1. ASSUME HelmInv, Next, NEW c \in Customers PROVE Accounted(c)
  BY <1>1, UpdatesAccount, DeploysAccount, SetupsAccount DEF Next
<1>2. HelmInv /\ [Next]_vars => [\A c \in Customers : Accounted(c)]_vars
  BY <1>1
<1> QED BY <1>2, HelmHolds, PTL DEF Spec, BindingsSurvive, Accounted
=============================================================================
