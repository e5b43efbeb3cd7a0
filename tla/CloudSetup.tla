----------------------------- MODULE CloudSetup -----------------------------
(***************************************************************************)
(* How the agent sets up the Worker it runs in: the Access wizard          *)
(* (setup-access.ts), "set up everything" (/setup/auto of index.ts,        *)
(* plugins/helmSetup.ts), and single bindings and secrets (/setup/r2/bind, *)
(* /setup/secrets, plugins/cloudflareAdmin.ts).                            *)
(*                                                                         *)
(* A step is one call of Cloudflare with the agent's own token.  A call    *)
(* that is answered with an error ends the wizard, but nothing else; one   *)
(* that throws ends the whole request: SetupDies.  A request decides by    *)
(* the environment its Worker was started with, which may be older than    *)
(* what is bound, so whether it finds a step done already is open here.    *)
(***************************************************************************)
EXTENDS CloudDeploy

CONSTANT Setups    \* requests of this kind

VARIABLE setup     \* what each request is at

Data == {"DB", "DB2"}    \* at most one of them is bound

Kits == [pc: {"off", "idle", "team", "app", "policy", "domain", "aud", "emails",
              "token", "bucket", "look", "create", "read", "patch", "rest", "done"},
         kind: {"none", "access", "auto", "deploy", "bind"},
         c: Customers \cup {NoForm}, what: Names \cup {"none"},
         seen: SUBSET Names, found: SUBSET Data]
NoKit == [pc |-> "idle", kind |-> "none", c |-> NoForm, what |-> "none",
          seen |-> {}, found |-> {}]

SetupTypeOK ==
    /\ setup \in [Setups -> Kits]
    /\ \A c \in Customers : ~(Data \subseteq worker[c].names)

SetupInit(s) ==
    setup = [x \in Setups |-> IF x \in s.setups THEN NoKit ELSE [NoKit EXCEPT !.pc = "off"]]

(* What no request of this kind touches.                                    *)
beside == <<manifest, ladder, enforced, row, live, accepted, last, doubt,
            paying, claim, cookie, form, tries, minted, told>>
-----------------------------------------------------------------------------
Goes(x, pc) == setup' = [setup EXCEPT ![x].pc = pc]

(* The Worker after a secret is set: a name that is bound already, as a     *)
(* secret or as a variable with the same value, counts as set.              *)
WithName(c, n) == [worker EXCEPT ![c].names = @ \cup {n}]

(* A request begins in a Worker that has code.                              *)
Begins(x, kind, pc, c) ==
    /\ setup[x].pc = "idle" /\ worker[c].code # "none"
    /\ setup' = [setup EXCEPT ![x] = [NoKit EXCEPT !.pc = pc, !.kind = kind, !.c = c]]

WizardArrives(x, c) ==
    /\ Begins(x, "access", "team", c)
    /\ UNCHANGED <<beside, worker, faults, accounts>>

(* /setup/auto runs the wizard whatever is set up.                          *)
AutoArrives(x, c) ==
    /\ Begins(x, "auto", "team", c)
    /\ UNCHANGED <<beside, worker, faults, accounts>>

(* helm-setup-deploy passes over it when it is told to, when it knows of no *)
(* address, or when the gate was up as the Worker started.                  *)
DeployArrives(x, c) ==
    /\ \E pc \in {"team", "token"} : Begins(x, "deploy", pc, c)
    /\ UNCHANGED <<beside, worker, faults, accounts>>

(* After the wizard, done or not, the rest of a setup goes on.              *)
Wizarded(x) == IF setup[x].kind = "access" THEN "done" ELSE "token"

(* A binding that is asked for by name; DB may be bound to any database.    *)
BindArrives(x, c) ==
    /\ setup[x].pc = "idle" /\ worker[c].code # "none"
    /\ \E what \in {"WORKSPACE", "DB2", "own"} :
         setup' = [setup EXCEPT ![x] = [NoKit EXCEPT !.pc = "read", !.kind = "bind",
                                                     !.c = c, !.what = what]]
    /\ UNCHANGED <<beside, worker, faults, accounts>>

(* A secret is set by one call, or deleted by one.                          *)
PutsSecret(x, c) ==
    /\ Begins(x, "bind", "done", c)
    /\ worker' = WithName(c, "own")
    /\ UNCHANGED <<beside, faults, accounts>>

DeletesSecret(x, c) ==
    /\ Begins(x, "bind", "done", c)
    /\ worker' = [worker EXCEPT ![c].names = @ \ {"own"}]
    /\ UNCHANGED <<beside, faults, accounts>>

(* A call that is answered with an error: on with what comes after.         *)
Skips(x, pc) ==
    /\ Fault /\ Goes(x, pc)
    /\ UNCHANGED <<beside, worker, accounts>>
-----------------------------------------------------------------------------
(***************************************************************************)
(* The wizard.                                                             *)
(***************************************************************************)
FindsTeam(x) ==
    /\ setup[x].pc = "team"
    /\ \/ /\ Goes(x, "app")
          /\ UNCHANGED <<beside, worker, faults, accounts>>
       \/ Skips(x, Wizarded(x))

(* An app that gates the host already is taken over, otherwise one made.    *)
FindsApp(x) ==
    /\ setup[x].pc = "app"
    /\ \/ /\ app' = app \cup {setup[x].c}
          /\ Goes(x, "policy")
          /\ UNCHANGED <<beside, worker, faults, d1, bucket, policy>>
       \/ Skips(x, Wizarded(x))

(* The owner's policy is added to the app, whether or not it has one; with  *)
(* no valid address the wizard stops, and the app stays.                    *)
AddsPolicy(x) ==
    /\ setup[x].pc = "policy"
    /\ \/ /\ policy' = policy \cup {setup[x].c}
          /\ Goes(x, "domain")
          /\ UNCHANGED <<beside, worker, faults, d1, bucket, app>>
       \/ /\ Goes(x, Wizarded(x))
          /\ UNCHANGED <<beside, worker, faults, accounts>>
       \/ Skips(x, Wizarded(x))

(* The secrets of the gate: the team's domain, the app's audience, and then *)
(* the addresses.                                                           *)
GateName(pc) == CASE pc = "domain" -> "CF_ACCESS_TEAM_DOMAIN"
                  [] pc = "aud"    -> "CF_ACCESS_AUD"
                  [] pc = "emails" -> "own"

SetsGate(x) ==
    /\ setup[x].pc \in {"domain", "aud", "emails"}
    /\ \/ /\ worker' = WithName(setup[x].c, GateName(setup[x].pc))
          /\ Goes(x, CASE setup[x].pc = "domain" -> "aud"
                       [] setup[x].pc = "aud" -> "emails"
                       [] OTHER -> Wizarded(x))
          /\ UNCHANGED <<beside, faults, accounts>>
       \/ Skips(x, Wizarded(x))
-----------------------------------------------------------------------------
(***************************************************************************)
(* "Set up everything".                                                    *)
(***************************************************************************)

(* HELM_INTERNAL_TOKEN, unless it is there.                                 *)
MintsToken(x) ==
    /\ setup[x].pc = "token"
    /\ LET next == IF setup[x].kind = "auto" THEN "bucket" ELSE "look"
       IN  \/ /\ worker' = WithName(setup[x].c, "own")
              /\ Goes(x, next)
              /\ UNCHANGED <<beside, faults, accounts>>
           \/ Skips(x, next)

(* /setup/auto makes a bucket, or takes the one of that name, and notes its *)
(* name on the Worker; it binds nothing.                                    *)
MakesBucket(x) ==
    /\ setup[x].pc = "bucket"
    /\ \/ /\ bucket' = bucket \cup {setup[x].c}
          /\ \/ worker' = WithName(setup[x].c, "own") /\ UNCHANGED faults
             \/ UNCHANGED worker /\ Fault
          /\ Goes(x, "done")
          /\ UNCHANGED <<beside, d1, app, policy>>
       \/ Skips(x, "done")

(* helm-setup-deploy looks whether WORKSPACE, DB and CACHE are bound.  The  *)
(* three are set up by the same calls, in turn; DB stands for them.         *)
Found(x) == worker[setup[x].c].names \cap Data

(* A look that fails counts as nothing found, and so does a database that   *)
(* the settings show without its name or id: the deploy form binds it by id  *)
(* only.                                                                    *)
LooksForDB(x) ==
    /\ setup[x].pc = "look"
    /\ \/ /\ setup' = [setup EXCEPT ![x] =
                IF Found(x) = {} THEN [@ EXCEPT !.pc = "create"]
                ELSE [@ EXCEPT !.pc = "read", !.found = Found(x),
                               !.what = CHOOSE n \in Found(x) : TRUE]]
          /\ UNCHANGED <<beside, worker, faults, accounts>>
       \/ /\ Found(x) # {}
          /\ Goes(x, "create")
          /\ UNCHANGED <<beside, worker, faults, accounts>>
       \/ /\ Fault
          /\ Goes(x, "create")
          /\ UNCHANGED <<beside, worker, accounts>>

(* The database named after the Worker is made, or, when there is one of    *)
(* that name, another whose name has a suffix.                              *)
MakesDB(x) ==
    /\ setup[x].pc = "create"
    /\ LET c == setup[x].c
       IN  \/ /\ d1' = d1 \cup {c}
              /\ setup' = [setup EXCEPT ![x].pc = "read",
                               ![x].what = IF c \in d1 THEN "DB2" ELSE "DB"]
              /\ UNCHANGED <<beside, worker, faults, bucket, app, policy>>
           \/ /\ Fault    \* nothing to bind: ENABLED_PLUGINS is next
              /\ setup' = [setup EXCEPT ![x].pc = "read", ![x].what = "own"]
              /\ UNCHANGED <<beside, worker, accounts>>

(* What comes after a binding: ENABLED_PLUGINS, then the last secrets.      *)
Patched(x) ==
    LET k == setup[x]
    IN  CASE k.kind = "bind" -> [k EXCEPT !.pc = "done", !.seen = {}]
          [] k.kind # "bind" /\ k.what \in Data ->
                [k EXCEPT !.pc = "read", !.what = "own", !.seen = {}]
          [] OTHER -> [k EXCEPT !.pc = "rest", !.seen = {}]

(* cfPatchBinding reads the bindings; an answer that does not parse counts   *)
(* as none ...                                                              *)
ReadsBindings(x) ==
    /\ setup[x].pc = "read"
    /\ \/ /\ setup' = [setup EXCEPT ![x].pc = "patch",
                                    ![x].seen = worker[setup[x].c].names]
          /\ UNCHANGED <<beside, worker, faults, accounts>>
       \/ /\ Fault /\ Goes(x, "patch")
          /\ UNCHANGED <<beside, worker, accounts>>
       \/ /\ Fault /\ setup' = [setup EXCEPT ![x] = Patched(x)]
          /\ UNCHANGED <<beside, worker, accounts>>

\* Mutation: the binding is sent alone.
Alone(k) == {k.what}

(* ... replaces the one of the same type and name, or adds it, ...          *)
Replaced(k) == (k.seen \ (IF k.what \in Data THEN Data ELSE {})) \cup {k.what}

(* ... and sends them all, whatever was bound or unbound since.             *)
PatchesBindings(x) ==
    /\ setup[x].pc = "patch"
    /\ setup' = [setup EXCEPT ![x] = Patched(x)]
    /\ \/ /\ worker' = [worker EXCEPT ![setup[x].c].names = Replaced(setup[x])]
          /\ UNCHANGED <<beside, faults, accounts>>
       \/ Fault /\ UNCHANGED <<beside, worker, accounts>>

(* ENABLED_PLUGINS lists every plugin already.                              *)
PluginsThere(x) ==
    /\ setup[x].pc = "read" /\ setup[x].kind = "deploy" /\ setup[x].what = "own"
    /\ Goes(x, "rest")
    /\ UNCHANGED <<beside, worker, faults, accounts>>

(* The account's id and the Worker's name, as secrets.                      *)
SetsTheRest(x) ==
    /\ setup[x].pc = "rest"
    /\ \/ /\ worker' = WithName(setup[x].c, "own")
          /\ Goes(x, "done")
          /\ UNCHANGED <<beside, faults, accounts>>
       \/ Skips(x, "done")

(* A call throws, or the isolate is replaced: nothing is undone.            *)
SetupDies(x) ==
    /\ setup[x].pc \notin {"off", "idle", "done"}
    /\ Fault
    /\ setup' = [setup EXCEPT ![x] = [NoKit EXCEPT !.pc = "done"]]
    /\ UNCHANGED <<beside, worker, accounts>>
-----------------------------------------------------------------------------
SetupStep(x) ==
    \/ FindsTeam(x) \/ FindsApp(x) \/ AddsPolicy(x) \/ SetsGate(x)
    \/ MintsToken(x) \/ MakesBucket(x) \/ LooksForDB(x) \/ MakesDB(x)
    \/ ReadsBindings(x) \/ PatchesBindings(x) \/ PluginsThere(x)
    \/ SetsTheRest(x) \/ SetupDies(x)
    \/ \E c \in Customers :
          \/ WizardArrives(x, c) \/ AutoArrives(x, c) \/ DeployArrives(x, c)
          \/ BindArrives(x, c) \/ PutsSecret(x, c) \/ DeletesSecret(x, c)

SetupNext == \E x \in Setups : SetupStep(x)
=============================================================================
