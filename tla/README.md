# open-think: a specification in TLA+

Models, model-checking runs and machine-checked proofs for the stateful core of
open-think. Paths are those of the repository. Everything here is TLA+ and is
checked with TLC and with TLAPS (tlapm).

    tlc -config MCEventBus.cfg MCEventBus        # one run
    tlapm EventBusSpecProofs.tla                 # one proof module

`PROJECT.json` lists the components, the runs, a mutant for every property (the
change to the model that each property is there to notice), the source lines of
every definition, the hazards, the findings and the theorems.

## 1. The system

open-think is a personal agent that runs on Cloudflare Workers. Requests are
handled by stateless Workers; whatever has to be remembered is in Durable Objects
(one thread each, which is given up at an await), D1 tables or KV. The site of
the project (`site/`) deploys such agents into the accounts of its customers and
keeps them up to date.

| Component | State | Operations | Talks to |
|---|---|---|---|
| `durable/eventBus.ts` EventBus | subscribers, replay buffer, closed flag | publish, subscribe, disconnect, close | the hub that owns it; a writer per browser tab |
| `durable/streamHub.ts` StreamHubDO | one turn: `state`, `active`, `interruptRequested`, the bus | POST /init, GET /subscribe, POST /interrupt, DELETE, runTurn | Codex app-server (WebSocket), AgentSession |
| `durable/chatSession.ts` ChatSessionDO | `activeAbortController`, runtime, sockets | user-message, interrupt, ping, hibernation | browser tabs (WebSocket), the tool loop |
| `conductor-tool-stream.ts`, `anthropic-/openai-/workers-ai-stream.ts` | one iteration of one turn | call the model, stream, run tools | model providers, skills, AgentSession |
| `durable/cliAuth.ts` CliAuthDO | device records, user-code index, tokens | start, approve, poll, verify-token, revoke | browser, command-line client |
| `scripts/open-think-shell.mjs` | saved token | device-code loop | CliAuth routes |
| `durable/agentSession.ts` AgentSessionDO | meta row, message tree, rollback marks, fibers | init, messages, compact, rollback, fork, search, fibers | other AgentSessions (fork) |
| `index.ts` handleApplyRollback | none | list, run inverse, note, mark | AgentSession, skills |
| `conductor.ts`, `conductor-stream.ts` | none between requests | agent loops, plan mode, start of a stream | providers, hub, AgentSession |
| `oauth/codexRpc.ts`, `codexOauth.ts` | one WebSocket's queue | call, stream | app-server |
| `chatSessions*.ts`, `costTracking.ts`, `scheduler.ts` | D1 rows | sidebar, cost rows and cap, cron workflows | D1 |
| `plugins/*`, `core/*` | read-only after bootstrap | skills, configuration | external services |
| `site/src/cloud/pushUpdates.ts`, `deployments.ts` | deployments, manage tokens (D1) | hourly push, "Push now", the manage page | Cloudflare API, the published manifest |
| `site/src/cloud/deployFlow.ts`, `cfApi.ts` | none of its own | deploy: database, bucket, script, Access, ledger | Cloudflare API, D1 |
| `site/src/cloud/sessions.ts`, `payments/stripe.ts` | claims, customers, subscriptions, webhook events (D1) | webhook, exchange, claim | Stripe, the browser's cookie |
| `setup-access.ts`, `setup-secrets.ts`, `/setup/*` of `index.ts`, `plugins/helmSetup.ts`, `cloudflareAdmin.ts` | the bindings and secrets of the Worker they run in | Access wizard, "set up everything", bind, set a secret, update oneself | Cloudflare API |
| `plugins/artifacts.ts`, `helmToml.ts` | a repository, one clone of it in the container, the live Worker | init, pull, sync-toml, reconcile, write-file, deploy, pull-upstream, cron-sync | Artifacts (git), the container, Cloudflare API |
| `app.ts`, the chat | per visit: a socket, a queue, a bubble; per page: the history | show, send, stop, reconnect | ChatSessionDO (WebSocket) |
| `app.ts`, the terminal | per visit: a socket, three timers, a flag | connect, ping, reconnect | the sandbox (WebSocket) |
| `workflows/morningBriefing.ts`, `plugins/notifier.ts` | the steps of a Workflow instance; notifications and push subscriptions (D1) | fire, run a step, send, record, subscribe | Cloudflare Workflows, mail, Web Push |
| `companion/codex-bridge/server.mjs` | two tables of pending requests, a timer each | POST /rpc, POST /stream | a Codex process (lines on stdin and stdout) |

What is hard in it, and what makes each part correct:

* **EventBus**: a bounded replay buffer and live delivery must join without a
  gap or a repetition; a final event must get out before the writers are ended;
  broken writers leave without disturbing the others.
* **StreamHub**: requests and the running turn interleave at every await and share
  three fields. The feed must end once, say truly how the turn went, and end for
  everybody.
* **ChatSession**: turns overlap and share one abort controller; an interrupt can
  come at any await. It must stop its turn, no other, and every turn must be
  reported complete, after its text is in the transcript.
* **CliAuth**: lost replies, several approvals and crashes between puts. A token is
  handed over once, to a client whose login ends, and works for the e-mail the
  client was told.
* **AgentSession / apply-rollback**: a check in one object and an action in
  another. The tree stays a tree; an operation is undone once; what is marked as
  undone is in the transcript; a fork copies the path and nothing else.
* **The chat in the browser**: frames of overlapping turns reach several streams of one page, whose
  sockets are lost and come back. A message and its reply are shown once, and the composer is not
  left waiting.
* **The terminal in the browser**: a socket that is closed says so late, and its handler works on the variables
  of the next one. A terminal has one shell, and the dot says how it is.
* **The bridge**: callers choose ids; answers, timers and clients that go each delete table entries. An answer reaches
  its caller, and what is said of one turn is not written to another.
* **The morning brief**: rows in parallel, steps that are retried after they had an effect. The owner is told once.
* **Helm Cloud** (update push, manage page, deploy form, webhook, the agent in the
  Worker and its setup): six actors read and write the same rows and the same Workers, each with a
  network between reading and writing. What an owner decides must survive a push that read the
  row before; what a customer is told must be there; what was read of a Worker must be put
  back; and a deployment that can be pushed must be up to date in the end.
* **rpcStream**: socket events and a timer against a queue and a waiting caller. No frame is
  lost or repeated, and nobody waits for a stream that is over.
* **The agent's own source**: skills share one clone that may be lost, beside an owner who pushes and a
  Worker whose bindings change. What a skill says it pushed must be there; what is bound must survive.
* **Conductor**: turns without a lock on one transcript, which must hold what was run.
* **Chat index and spending cap**: check-then-act on D1, between statements and across midnight.

## 2. The modules

| Module | Models | Notes |
|---|---|---|
| `TurnFeed` | what a bus promises | abstract: a feed, readers, no buffer |
| `EventBus` | `eventBus.ts` | one record, one operator per method |
| `EventBusSpec` | the bus, called in every order | implements TurnFeed |
| `StreamHub` | `streamHub.ts` | EXTENDS EventBus: the hub's steps compose the bus's methods |
| `ChatSession` | `chatSession.ts`, tool loop, plan mode | |
| `ChatPage` | the chat of `app.ts` | EXTENDS ChatSession: a step of a turn and what each page makes of its frames |
| `HelmShell` | the terminal of `app.ts` | |
| `App` | the two views of the page that hold sockets | EXTENDS ChatPage, HelmShell; they share no state |
| `CliAuth` | `cliAuth.ts` and the client's loop | |
| `AgentSession` | `agentSession.ts`, `handleApplyRollback` | |
| `CloudLedger` | the tables of D1 and the customers' Workers | shared state only; Cloudflare's PUT is external |
| `CloudUpdates` | `pushUpdates.ts`, `deployments.ts`, the manage page, the agent's deploy and update of itself | EXTENDS CloudLedger |
| `CloudDeploy` | `stripe.ts`, `sessions.ts`, the deploy route, `deployFlow.ts`, `cfApi.ts` | EXTENDS CloudLedger |
| `CloudSetup` | `setup-access.ts`, `setup-secrets.ts`, `/setup/*`, `helmSetup.ts`, `cloudflareAdmin.ts` | EXTENDS CloudDeploy |
| `HelmCloud` | all of these on one ledger | the composition |
| `FrameFeed` | what a frame stream promises | abstract: frames, how many were given, an end |
| `FrameStream` | `rpcStream` of `codexRpc.ts` | implements FrameFeed |
| `Conductor` | `conductor.ts`, `conductor-stream.ts` | |
| `ChatIndex` | `chatSessionsApi.ts`, `chatSessions.ts` | |
| `Spending` | `costTracking.ts` and the plugins that call it | |
| `Artifacts` | `plugins/artifacts.ts`, `helmToml.ts` | git, container and Cloudflare external |
| `CodexBridge` | `companion/codex-bridge/server.mjs` | the Codex process is external |
| `Notices` | a firing of `scheduler.ts`, `morningBriefing.ts`, `notifier.ts` | Cloudflare Workflows is external |
| `AgentWorker` | the last seven side by side | they share no state |
| `MC...` | instances for TLC | |
| `EventBusProofs`, `EventBusSpecProofs` | lemmas on the bus's operators; theorems about the bus | |
| `StreamHubProofs` | theorems about the hub | uses the lemmas of `EventBusProofs` |
| `CliAuthProofs` | theorems about the login | |
| `AgentSessionProofs` | theorems about the tree, the forks and the applies | |
| `AppProofs` | theorems about the turns, the pages and the terminals | |
| `AgentWorkerProofs` | theorems about the seven parts of AgentWorker | one section for each part |
| `HelmCloudProofs` | theorems about the ledger, the customers' Workers and everybody who writes to them | |

How state and actions correspond to the code:

* **A step** is the code between two awaits at which the object can take another
  event. Awaits of storage are no such point (the input gate is closed), with one
  exception: a crash can come between two puts, and CliAuth has a disjunct for it.
* **EventBus.** The methods are synchronous, so each is an operator from a bus to a
  bus: `Published`, `Subscribed`, `Disconnected`, `Shut`. `bus.got[s]` is what was
  written to the writer of `s`; `bus.feed` and `bus.start` are history variables.
  A write to a client that is gone rejects in a microtask, which runs before any
  other event of the object: the subscriber leaves in the same step. A subscriber
  that joins and finds an empty buffer is written nothing, and so is not found out
  before the next publish.
* **StreamHub.** `st`, `active`, `flagged` are `this.state`, `this.active` and
  `this.interruptRequested`; `turn[t]` is where the request and its `runTurn` have
  got to. `Ends` is the finally block, `Throws` the catch block and then the finally
  block. A DELETE nulls the state under a running turn; the model follows every
  access of the turn to the state, and throws where the code does. The frames of
  the app-server, its failures, and the answer of the session store are choices.
* **ChatSession.** `controller` is `activeAbortController`, named after the turn that
  made it; `signal` is what the tool loop was given, read after the bootstrap, and
  `stop` is the loop's own controller. `seen` is how much of the transcript the model is shown; Null is nothing, also when
  the answer of the transcript could not be read. The loop of the three provider adapters is
  one loop: top of the iteration, call, streamed events, end of the answer, tools.
  Plan mode is `runProposeMode`. Mode "confirm" is left out: it only changes which
  skills are run.
* **ChatPage.** A page makes a stream at every visit of the chat and closes none. A frame is handled in the
  step that sends it, since a socket keeps the order; the time on the way is charged to the commands, which
  wait in `wire`. The counts of what was shown are kept for each stream (`said`, `told`). A socket is lost
  before the page notices it; `cuts` bounds how many are. `patient` bounds a scene to pages that wait after
  a stop. Clients that are not followed (`guests`) send in a fixed order, as turns are interchangeable.
* **CliAuth.** A flow is a device code, its user code and the client that asked. `late`
  is the object's clock having passed `expiresAt`; the client's own deadline is
  counted from a later moment and comes after it. Token lifetimes of 30 days are
  a token that may be dropped at any time.
* **AgentSession.** A message is its place in its session. `PathToRoot` follows the
  parents. A fork reads the path, initialises the target, and copies message by
  message without parent or hint, so that each copy hangs off the root of the
  target. An apply-rollback is four steps: choose, run, note, mark; any call may fail,
  or work and lose its answer, or be answered with an error status, which the code does not look at: the apply or the fork goes
  on. `unnoted` (history) are the reports that were refused so, `lost` the messages a fork has passed over.
* **CloudLedger.** A row has its build sha, its pause, its API token and whether its last push
  failed. A Worker has its code, the names bound to it and its migration tag. `last` and `doubt`
  are history: what was put last for a deployment, and for which deployments an answer or a record
  was lost or pushes overlapped. A manage token is in `live` until it is revoked or its
  30 days are over (`LinkExpires`); `gone` is history and holds both.
* **CloudUpdates.** A pusher (cron or click) steps from await to await: manifest, list of rows,
  settings, PUT, UPDATE. `run[p].keys` are the tokens it has read, `seen` the bindings. The manage
  page is one request at a time behind its token check, since each action is a single statement but
  for "forget", which revokes the links and then deletes. The agent in a Worker deploys and
  updates itself; its own API token is taken to be accepted.
* **CloudDeploy.** A form is one run of `runDeploy`; the calls that do not decide anything later (team
  domain, bucket) are one step with every combination of success. `Puts`, `PutMeetsTag`, `PutsAgain` are the
  upload and its retry with the migration tag; the four writes of the ledger are `Inserts`, `Logs`, `Seeds`,
  `Links`. `FormDies` is an exception through all of it. `enforced` says whether the
  database enforces the REFERENCES of the migrations: both are explored, since D1 does and other SQLite
  set-ups do not by default.
* **CloudSetup.** A step is one call of Cloudflare with the agent's own token. An answer that is an error ends the
  wizard only, settings that do not parse count as an empty list of bindings; an exception ends the request (`SetupDies`) and undoes nothing. The code decides by an environment that
  may be older than the Worker's bindings, so whether a step is skipped is a choice. WORKSPACE, DB and CACHE are set up by
  the same calls, and DB stands for them; `DB2` is the same binding on another database. That a PATCH replaces the list
  of bindings is assumed of Cloudflare. There is one team for each account. The steps of `runDeploy` that set no binding
  the others use (the Artifacts repository among them) are part of "rest".
* **FrameStream.** A callback that resolves the promise of a waiting caller resumes it before any other
  event, so a frame that finds a waiter is yielded in the step it arrives in. `held` is the frame at the
  `yield`; `arrived` and `seen` are history.
* **Conductor.** The transcript is a set of entries: whose, of what kind, of which run. An append is
  stored, refused (an answer nobody looks at), or throws, stored or not. The request may be cut off anywhere.
* **ChatIndex.** One step for each statement on D1. `renamed` and `orphaned` are history: touches under way
  when the user set the title, PATCHes whose project went between their check and their write.
* **Spending.** Prices are whole numbers up to `MaxPrice`; the rows of a day, which are keyed by provider and only
  summed by the cap, are one number. The rollup sets a day to any sum.
* **Artifacts.** There are two files: `toml`, the set of names wrangler.toml has a block or a note for, and `code`, its last
  author. A skill is a list of phases to go through (`todo`), one command a step, and any command may fail. A workflow that
  applies drift is check, then sync; reconcile is check, deploy, sync. A skill that pushes does so in its last phase. git is
  external: a commit is a tree and its past. `beside` and `saw` are history: skills that ran at the same time, and bindings
  that reconcile was to save. The deploy is the one by wrangler in the container. The marker that it then
  puts on the Worker (HELM_CUSTOM_DEPLOY, setSelfManagedFlag) is a variable without a block in the file; it matters to the
  cron of Helm Cloud only and is `SelfClaims` of CloudUpdates.
* **CodexBridge.** A request appears when its body has been read; `entry` is the two tables, from an id to the request that waits.
  A second request under one id takes the entry over, but both timers run on. A timer or a client that goes deletes whatever is
  under the id. Node tells of a closed socket on the request (`req.on("close")`), which may already be over once its body
  is read: so a client may go with or without the bridge being told. What was written to a client is `got`, each line with the request it is about.
* **Notices.** A firing is one call of `runScheduledCron`. The id of an instance is made from the date and the scheduled time,
  so all rows of a firing ask for one id, and a create of an id that is taken is refused. Where the notifier is not enabled its
  skill answers that it is not available, and the instance is over with nobody told. Whether a step throws is a choice at every point of
  it, also after something was sent; an instance whose step has used up its retries is dead. `got` counts what came in at each device and
  `redone` the attempts that threw after telling somebody: both are history.
* **HelmShell.** `ws` is the socket made last; `Noticed` is `onclose`, which every socket calls on the same variables. The
  button sets a flag, closes `ws` and starts a delay of 100 ms, by the end of which the close may or may not have been answered. A visit
  waits for the script before it looks for its buttons, and may find those of a later visit. `doubled` counts how often two ways of reconnecting met.
* **App.** `part` says which view a behaviour is about; a step of one leaves the variables of the other alone.
* **AgentWorker.** The seven parts share no variable. `part` says which of them a behaviour is about, so that
  the run explores each of them and not their product.

## 3. The runs

| Run | Distinct states | What it shows |
|---|---|---|
| `event_bus` | 37 thousand | every subscriber sees a gapless stretch of the feed; the final event reaches everybody; the bus implements TurnFeed |
| `stream_hub` | 1.2 million | the feed ends once, with the truth, after the text was stored, and for everybody |
| `chat_session` | 0.97 million | an interrupt stops the turn whose signal it aborts; complete means stored, and a history is whole or not there; every turn completes; a page shows a message and its reply once for each stream; its composer is stuck only after a lost socket; a terminal is not left without a shell, and has a second one only where two ways of reconnecting met; its dot says how the socket is |
| `cli_auth` | 0.35 million | a token is handed over once and is valid; none is minted for a client that is gone; every login ends |
| `agent_session` | 0.33 million (with symmetry) | the tree, the marks, the fork |
| `helm_cloud` | 0.78 million | the ledger agrees with the Workers; owners decide; the cron leaves paused and self-managed Workers alone; what a writer has read of a Worker stays bound; an event counts once (in `TypeOK`); a link that was answered works; pushable deployments catch up |
| `agent_worker` | 1.22 million | rpcStream implements its feed and ends; runs are logged; titles stay; the cap; what a lone skill reports as pushed is in the repository; answers and notifications of the Codex process reach the callers they belong to; the owner is told once |
| `subscribe_answered` | finding | see section 5 |
| `interrupt_finds_turn` | finding | see section 5 |
| `first_apply_wins` | finding | see section 5 |
| `cron_reaches_all` | finding | see section 5 |
| `reconcile_keeps_bindings` | finding | see section 5 |

### Bounds, and why they are enough

* `event_bus`: a buffer of 2 and up to 4 publishes, so that the buffer is empty, filled, full and
  overflowed twice, with subscribers that join at each of these moments. The size of the
  buffer and the number of events do not matter to the theorems of section 4.
* `stream_hub`: two turns (the 409 guard can be passed twice, not usefully three
  times), one tab, one interrupt, one DELETE; one notification frame, with or
  without a turn id; a buffer of 2. Two tabs would only repeat what the bus does
  for one, which `event_bus` checks with several.
* `chat_session`: two messages, one interrupt; two iterations and two tools, so that the
  top of the loop is reached first, again, and beyond the limit, and a batch can be
  interrupted in its middle. Five scenes (`MCChatSession.tla`): two clients that only send; a page that sends twice; one
  whose socket is lost once; one that leaves the chat and comes back; one that another page watches, impatiently.
  That the transcript's answer cannot be read is looked at where it matters, in the scene without a page and for a turn that began after
  another one was complete (`MCReadable`); the theorems have no such bound.
  The terminal: two visits and one click, so that a visit finds the button of the next, or one visit and two clicks, so that delays overlap; one socket that breaks
  and any number that the edge closes; at most six sockets that are not over, more than those numbers can bring about.
* `cli_auth`: two logins, two users, two tokens: a flow approved twice by different people,
  or two flows approved. Three tokens give no step a new case.
* `agent_session`: two sessions, two apply-rollbacks, one fork, two appended messages
  or summaries, so that a path has a first and a last message to lose, and a pending list cut at 1 (50 in the code), so that a second pending
  message falls off it. (`first_apply_wins`: three, and 2.) Sessions, and apply requests, are interchangeable, and the run
  has no liveness property: symmetry is sound.
* `helm_cloud`: fourteen scenes (`MCHelmCloud.tla`), each with the actors one hazard needs, since all of them at once
  have too many states and are not needed: two steps of two actors violate each of the properties. They are a cron and
  a click on one deployment that its owner edits; two overlapping crons on two customers; an agent that deploys and updates
  itself under a cron; a deploy under a cron, also onto a Worker that is there, also twice at once, also
  with the API token revoked in the middle, also before the webhook has entered the customer; every event of Stripe twice;
  a cancellation during a run; a setup under a cron, beside an update of the agent itself, twice at once, and beside a
  deploy. Two bundles, with and without migrations, one failure, two tokens; links that run out are counted with the actions of the owners (`MaxEdits`).
* `cron_reaches_all`: one deployment, one cron, one click, two bundles that end at the same migration tag.
* `agent_worker`: four frames (an answer with frames queued before and sent after it); one session and project with two touches and
  two PATCHes; two requests, one that goes round its loop twice and one with two calls in a batch; three callers under
  a cap of 3 with prices up to 2, over one midnight. Of the agent's source, two skills and four scenes: a file is written
  beside the workflow that applies drift, with a push of the owner's and a lost container; reconcile with two edits; a pull from
  upstream; a repository that two make at once. Of the bridge, one /rpc and two /stream requests under two ids, so that two share an id or none do, and one
  notification. Of the brief, one firing, since firings share only the subscriptions, with two rows and two devices; the step that sends may be retried
  twice, so that an effect is repeated and repeated again, the others once. The run looks at one part at a time, and at the others in one state.
* `reconcile_keeps_bindings`: the same scenes, for the agent's source alone; `interrupt_finds_turn`: those of `chat_session` without the terminal.

Deadlock is checked in `event_bus` only. In the others users may stop sending requests, and each
behaviour has finitely many of them.

### Fairness

* StreamHub: each turn moves on, because every await of it ends: the upstream calls carry a
  timeout (`upstreamTimeoutMs`, 120 s by default), the session store is another Durable Object
  that answers or fails. Handlers that have been entered go on. Clients owe nothing: a tab
  need not read, an interrupt need not come.
* ChatSession and ChatPage: each turn moves on (weak fairness of `Goes` for each turn): providers, skills and the transcript
  answer or fail. Pages, sockets and commands on their way owe nothing.
* HelmShell: none; `OneShell` says instead that something is always under way that will bring a socket.
* CliAuth: time passes, a reply arrives or is lost, and the client looks at its deadline
  between any two polls: TimesOut has strong fairness, since a poll under way disables it again and
  again. The user need not approve.
* HelmCloud: the scheduled handler comes round every hour and a run that has begun goes on (weak
  fairness of `CronStep` for each cron); nothing is owed by owners, agents, Stripe or the network.
  In `cron_reaches_all` clicks that have begun go on as well.
* AgentWorker: the caller of a stream asks for the next frame or leaves (streamHub's `for await` does
  nothing else), and the timer fires. The peer owes nothing. The other parts have no liveness property.

AgentSession and EventBusSpec have no liveness property: nothing in them has to happen.

`EagerWrite` says whether a write to a stream that nobody reads yet resolves. With TRUE,
subscribers get past the ready frame and everything after it is explored; this is the
value of the passing run. With FALSE, the stream of the standard, see finding 1.

## 4. What is proved

`EventBusSpecProofs`, for every set of subscribers and events and every buffer limit in Nat,
from `BusAssumption` alone (the limit is a natural number, "no event" is not an event):

* `TypeCorrect`: Spec => []TypeOK.
* `Faithful`: Spec => []FaithfulDelivery. (No run checks it: `ImplementsFeed` is what the run looks at.)
* `TerminalReaches`: Spec => TerminalReachesAll.
* `Refines`: Spec => ImplementsFeed, that is, the bus implements TurnFeed.

The argument. The inductive invariant is `BusInv` with the types. What is wanted (each
subscriber sees a stretch of the feed; an alive one is up to date) is not inductive: the view
of a subscriber that joins is the buffer, so the invariant has to say that the buffer is
the most recent part of the feed (`BufferIsRecent`), that an id which has not joined has been
given nothing (`Untouched`), and that a closed bus has no members (`LetGo`). `EventBusProofs` has a lemma for
each method: from a typed bus with BusInv it makes a typed bus with BusInv, and does to
feed, members and views what TurnFeed says. The lemmas on `Trim` and on Append of a trimmed
sequence carry the only arithmetic: trimming after every append is the same as trimming
the whole feed. The theorems of `EventBusSpecProofs` have one step per action.

`StreamHubProofs`, for every set of turns, tabs, interrupts, deletions and events, from
`BusAssumption` and `HubAssumption` (what the hub publishes are events; null is not a state):
`HubTypeCorrect`, `HubFaithful`, `HubEndsTruthfully`, `HubStoreAgrees`, each Spec => [] of a property.

The argument. `FeedEndsTruthfully` (its three parts: the one done is the last event, a feed that reports done was not interrupted
in time, and the status is error exactly when an error event says why) is not inductive, because it speaks of a closed feed, and
what makes a closed feed right has to hold while it is still open. `HubInv` therefore says: an
open feed has no done and no error in it, and a state, if there is one, is still
"streaming" (`OpenIsQuiet`): whatever sets another status closes the bus in the same step, which is what
the order catch, finally of `runTurn` is for. A closed feed ends with a done that tells the truth
(`ClosedIsTruthful`). An interrupt that cut a running turn has left the flag set. A subscriber that has not
joined is not known to the bus, which `SubscribedInv` needs. The lemmas follow the code: one for the
finally block (`EndsStep`), one for the catch block, which reduces to it (`ThrowsStep`), one for
the code after the loop (`LeavesStep`), one for a result (`OutcomeStep`), one for steps that only publish
(`QuietStep`); then one for each action. `StoreAgreesWithFeed` adds an invariant of its own (`StoreInv`), which follows
the one turn of such a hub (`Sole`): while it runs, nobody closes the bus, takes the state or makes the hub inactive under it
(`RunsAlone`), and what it has stored it has told (`SavedIsTold`). The property counts turns, the invariant names the one.

`CliAuthProofs`, for every set of logins, users and tokens, from `CliAuthAssumption` (null is not a
record, a token, or an e-mail): `LoginTypeCorrect`, `TokenHandedOnce`, `SavedTokenIsStored`, each Spec => [] of
a property, and `GoneGetNoToken`, Spec => NoTokenForTheGone.

The argument. A token travels: from the record of its code into a reply, from the reply into a
client. `CliInv` says of each of the three places that a token found there comes with the e-mail it is
stored under, or has been ended (`RecordsGood`, `RepliesGood`, `ClientsGood`, all made of `Good`). That it is
handed once needs two more parts: a token is in one record at most (`OneRecord`), and one that is in
a record, or was never minted, has not been handed (`RecordsGood`, `UnmintedUnhanded`). That none is minted for a
client that has gone needs `LateIsLate`: whoever gave up because of the time is right about
the time, by the object's clock, and approve looks at that clock. There is one lemma per action or group of
actions of one handler; the client's steps share `ClientInv`.

`AgentWorkerProofs`, from `FramesAssumption`, `ConductorAssumption`, `IndexAssumption`, `ArtifactsAssumption`, `BridgeAssumption`, `NoticesAssumption` and `SpendingAssumption` (the
ids of the bridge and the callers are finitely many, the cap is positive, null is not a project, a skill pushes only at its end), for any number of everything: `WorkerTypes`,
`CapHolds`, `TurnsAreLogged`, `StreamRefinesFeed`, `TitlesAreKept`, `PushesStay`, `AnswersArrive`, `StreamsAreApart`, `OwnersAreTold`, and `OrphansAreRaced`, which no run checks: a session whose project is
gone was being moved while the project was deleted.

The argument. Each part has its own invariant and `AgentInv` is their conjunction; a step of one part leaves the
others' variables alone. `StreamInv`: the queue is what has arrived and was not given (`QueueIsRest`), the held frame is the
last one given (`HeldIsLast`), a caller waits only when the queue is empty and the stream is not finished, and an
answer finishes the stream (`StreamControl`); with it each step is a step of FrameFeed or a stutter. `SpendInv`: while calls
are under way a day has at most Cap - 1 plus MaxPrice for each call that is not, since a call is let in only
below the cap (`HasRoom`); counting callers is done with the cardinality theorems. `IndexInv`: a touch that
names has read that there was no title, and touches and PATCHes in flight know their row. `TurnsInv`: the run in
hand is the last one of its turn, and all before it are logged.

`PushesStay` (what a skill that ran alone reports as pushed is in the repository, whatever the owner, upstream and a lost
container do meanwhile) needs the longest argument. Nothing in the answer of a skill
says where its commit is, so `ForkInv` follows the commit: the past of a commit is closed and ends at commits that exist
(`GoodHistory`); of two skills that run, each knows of the other (`Beside`), so that one that ran alone met no other;
the work of a skill that ran alone and has edited is in the tree, the index or the head of the clone, by its place, or the clone
is gone (`Kept`); and no skill goes on after it has pushed (`PushesLast`). One lemma (`CommitStep`) covers every step that adds a commit
to the repository; the lemmas for the steps of a skill then say what becomes of tree, index and head.

`AnswersArrive` and `StreamsAreApart` need to know that an open request which shares its id with no other is
in its table under that id (`AreFound`), and that the process works only on requests that have an id (`HaveIds`): then an answer
finds its caller, and a notification of an open stream whose id no other request has finds that stream or, when there are two, nobody. That is all
`NoCrosstalk` says: streams that share an id are one entry, so that what is told of one is written to the other, and what is told of a
request that is not an open stream (a call of /rpc, a stream that timed out or whose client has left) goes to the one that is (section 5). `OwnersAreTold`
is one invariant of each firing by itself (`Sound`): whoever is still to be told in this attempt has been told once for each attempt that threw
and no more, an attempt that threw after telling somebody is one the service has counted (`tries`), and what is marked as sent was received.

`AgentSessionProofs`, for any number of sessions, messages, forks and applies and any list limit, from `AgentSessionAssumption` (the limit of the list is positive):
`SessionTypeCorrect`, `AppliedMeansReported`, `ForksCopyPaths`, and `PathsAreBranches`, which no run checks: what pathToRoot gives is
the branch of its message, from the root down.

The argument. A parent is an earlier message (`TypeOK` says so), so the walk to the root comes to an end; that it does, and
that its reversal is a branch, is what `PathToRootIs` proves from the recursive function `Chain`. `SessionInv` says besides: an apply that is
at work has run what it says it has run, and its note is in the transcript, or was refused, before its mark (`Accounted`); a request that reads the list after a success
does not find the message; and a fork into a session nothing else writes to has copied the beginning of its path but for what was refused, in order, each message at its place less those lost before it, and nothing else is there
(`CopiedSoFar`), which is what `ForkCopiesPath` needs at the end of the copying. Whether a copy or a report is refused is not in the hands of this code; that the
order is kept, that nothing is copied twice, and that nothing is marked before its report was sent, is.

`AppProofs`, for any turns, pages, streams, guests, visits and sockets, any limits of iterations, interrupts, cuts, clicks and breaks, from
`ChatAssumption`, `PageAssumption` and `ShellAssumption` (the limits are numbers, the loop may go round at least once, a stream belongs to one page, and
a message has a name of its own, so that no two clients send the same): `HistoriesComplete`, `InterruptsStop`, `EverythingShownOnce`, `BusyForAReason`,
`OneShellEach`, `DotsTellTruth`, `AppTypeCorrect`, each AppSpec => of the property of the run.

The argument for the turns. `ChatInv` has what holds of a turn in each of its phases (`TurnOK`), the transcript (`LogOK`: an entry
belongs to a turn that was far enough to write it), and, for interrupts (`OwnController`), that the controllers that are aborted are those of which the tabs were told, that every loop which was given the signal of one of
them has stopped, and that a turn which overlapped no other one holds its own controller. The first two hold of all turns; the last, on which it rests that a turn interrupted
before it has a signal stops too, fails for turns that overlap: finding 2, and section 5. Plan mode takes no signal, so `InterruptStops` says nothing of its call. Every
action of a turn is first shown to be a step along an edge of its phases (`MovesStep`); the rest of the proof looks at edges and not at actions.

The argument for the pages. Several frames reach a stream in one step, so `Handling` is a recursive function over them. `Keeps` is the
relation between a stream and what one frame of turn t makes of it; it is transitive, `HandlingConcat` splits the frames of a
step, and so one lemma for each kind of frame is enough. `PageInv` says of every stream by itself: who can be waited for (`CanWait`), why the composer
is busy (`Composer`), which messages were shown (`Said`), that nothing was shown of a turn that has not begun (`Unheard`), and what was
told of each turn it heard (`Tell`): nothing while the text is in an open bubble, once after that. `Untyped` says that a message
a page is still to type is in no other place. `ShownOnce` alone is not inductive, and the strengthening brought up a fault of the model: a stream that had once
mixed two replies was still said to mix them after its socket had been cut and it heard a single turn; `Cut` now forgets both.

The argument for the terminals. A terminal has sockets and debts: a delay and a retry are each a debt of one socket (`Owing`), and a click is followed by
a delay (`ClickIsDue`). `ShellInv` says that sockets and debts together are at most one, and one more for each time two ways of reconnecting met, and that there is always
one of them (`ShellIsDue`); that a socket belongs to one visit (`OneEach`); and the dot, for each of its states (`DotIsTrue`).

`HelmCloudProofs`, for any deployments, customers, bundles, tokens, crons, clicks, forms and setups, and any budgets of failures, requests of
owners, and updates by agents, from `LedgerAssumption`, `UpdatesAssumption`, `DeployAssumption` and `ScenesAssumption` (each deployment has one owner;
a run is a cron or a click; a value that stands for nothing is none; and a behaviour may start with any deployments, any ladder of bundles, any tokens that are
accepted, and any budgets within the bounds): `HelmTypeCorrect`, `LedgersAreLastPush`, `ToldAreManaged`, `CronsLeaveAlone`, `OwnersDecide`, `BindingsStay`, each
Spec => the property of the run. None uses the fairness of Spec.

The argument. `HelmInv` has one part for each of those who act, and says of each place between a reading and the writing that uses it what is still
true of what was read.
`PushesOK`: `LedgerIsLastPush` alone is not inductive, since a record makes the row say what its run has pushed. So a run that is to record was the last to push, or its deployment
is in doubt; and two runs that are to record the same deployment put it in doubt, which the second upload does.
`EarlyOK`: a paused deployment that a cron has yet to visit was on its list before the pause; every action that pauses (the owner's and Stripe's) notes the runs that list it.
`FormsOK`: a form holds a row from its insert until it answers; no two forms hold one row; the row has no link before the form issues one, so nobody can ask to delete it
before; and after that it is live or gone, which is what `told` needs (`RowsOK`). This rests on the order of the code, link last and answer after it. `AskOK`: a request is served on a link that
worked when it was checked, which may have run out since, and deletes a row only after its link.
`HooksOK`: the delivery that entered an event is the only one that applies it. `KitsOK`, `RunsOK`, `SelvesOK`, `WorkersOK`: nobody has seen both database bindings on a Worker and none has both, so a setup that exchanges
one knows which; and a cron that is to upload has not seen the marker.

`SetupsKeep`, `DeploysKeep` and `UpdatesKeep` put the lemmas of the actions together; those of one handler share lemmas on what the handler does not touch (`RestStays`, `CallRest`, `SetupRest`)
and on how a request goes on (`RunSteps`, `FormGoes`, `KitGoes`). `OwnersDecide` and `BindingsStay` are about steps: every write of a row is first put into one of a few kinds (`Rewritten` by a push, which
keeps pause and token; one of the owner's requests; a new row), and every write of a Worker is one that adds, one that sends back what was read, or a deploy (`Accounted`).

Induction. The induction theorems of the library take an operator as a parameter, which the provers cannot instantiate. Where a proof
needs induction over numbers (`HandlingRuns`, `PathToRootIs`), it states the claim as a set of numbers and takes the least one that is not in it (`LeastOf`: a set of natural
numbers that is not empty has a least element, since < is well-founded on them). That is enough for recursive functions; there is
no RECURSIVE operator in the modules.

Only model-checked: every liveness property (`StreamsEnd`, `TurnCompletes`, `LoginEnds`, `StreamSettles`, `ActiveCatchesUp`): liveness under fairness
is out of the prover's reach. Of the properties of the passing runs that are not liveness, every one is proved.

## 5. Findings

1. `SubscribeAnswered` (`streamHub.ts:130`). `handleSubscribe` awaits the write of the ready frame before
   it returns the response whose body would be read. `test/eventBus.test.ts:5-6` notes that a
   TransformStream applies backpressure on every write; with such writes no subscriber
   is ever answered.
2. `InterruptFindsTurn` (`chatSession.ts:264`). Turns may overlap and share one controller; the
   first to end nulls it, and an interrupt is told that there is no active turn
   although one is in flight (the comment at 68-70 says otherwise).
3. `ReconcileKeepsBindings` (`artifacts.ts:1469`). `helmDocs.ts:602-605` sends the agent to reconcile so that a deploy does
   not drop the bindings that wrangler.toml lacks, and the comment at `artifacts.ts:1485-1486` says that the missing
   blocks are written back so that the next deploy does not drop them. With drift in both directions reconcile itself deploys first, and
   this deploy drops them; the sync after it reads the Worker again, finds nothing missing and reports success.
4. `FirstApplyWins` (`index.ts:209`). `docs/ROLLBACK.md:9` says that each pending rollback can be
   applied once; two overlapping requests both run the inverse, since the message is
   marked only at the end.
5. `EveryActiveCatchesUp` (`pushUpdates.ts:503`). `site/src/index.ts:223-224` says that the cron pushes to every active
   deployment that is behind. A Worker that was deployed with migrations has a migration tag, and refuses a
   script that is sent with a `new_tag` and no `old_tag`; the deploy form and the agent's own update try again
   with the tag that the refusal names, `pushOne` does not. Such a deployment is tried every hour and
   never updated. `ActiveCatchesUp`, in the passing run, says what does hold.

What the modelling brought up besides, each visible in the models, with no run of its own:

* The comment at `chatSession.ts:118-119` promises `loop-done {reason: "cancelled"}` for an aborted provider fetch; the AbortError
  leaves the generator and the turn ends with an error event. (`CallAborted`.)
* The comment at `chatSession.ts:116-118` says that an interrupt aborts the controller of the active turn. The signal of a turn is read only after the
  bootstrap (208): when another message arrives while an interrupted turn waits for that, the turn is given the signal of the other one, and calls the
  model although the tabs were told that it was interrupted. (`Opens`; hence the premise of `InterruptStops`.)
* The answer to the report of a rollback is not looked at (`index.ts:240-254`): when the session answers with an error, the message is marked, and the request
  answered with success, with no result in the transcript, which `docs/ROLLBACK.md:56-58` promises. (`ApplyNotes`; `unnoted` in `AppliedIsReported`.)
* A turn in plan mode is given no signal (`chatSession.ts:234` on): told that it is interrupted, it makes its call of the model all the same. (`Starts`.)
* A history that cannot be read (an error status, or no JSON) counts as an empty one (`conductor-tool-stream.ts:300-311`, `conductor.ts:351-360`): the
  turn goes on, and the model is shown nothing of the session. (`ReadsHistory`.)
* A fork passes over each message that the target refuses and answers with success and the length of the whole path (`agentSession.ts:414-434`). A mark that is
  refused is answered as applied (`index.ts:256-275`), and the rollback can then be applied again. (`ForkCopies`, `ApplyMarks`.)
* The user's message is in the transcript before the hub is asked (`conductor-stream.ts:71`): if the hub refuses, a retry appends it again.
* In the chat page each visit adds a stream that goes on pushing into the history of the page, and into that of another session when one is
  opened meanwhile (`app.ts:3641, 3927, 4011, 4018-4020, 4171`). A loop-done with a final text whose bubble was closed by
  "halted", or whose deltas a stream did not hear, leaves `streamText` set, and the next reply begins with old text
  (`app.ts:4230-4235`). A lost `complete` leaves the composer on "stop" until it is pressed. A stop while the socket is not open is
  dropped. The history is never loaded from the server, although `app.ts:2509` says that a refresh always rehydrates the same chat.
* `findExistingBinding` takes settings it could not read for settings without the binding (`helmSetup.ts:979`): setup then makes
  another database and binds DB to it. It does so too when the settings show DB without `database_name` or `database_id` (606-620); the deploy
  form binds it by `id` (`deployFlow.ts:991-996`), so it depends on what Cloudflare answers for such a binding. (`LooksForDB`.)
* Settings that are answered with 200 and do not parse are an empty list to `cfPatchBinding` (`helmSetup.ts:1171-1172`) and to `cloudflareAdmin.ts:259-264`: the
  patch then takes away every other binding of the Worker. /setup/r2/bind answers with an error instead (`index.ts:1149-1161`). (`ReadsBindings`.)
* A binding is patched by reading the list, merging and sending it (`helmSetup.ts:1161-1195`): of two that overlap one is lost, or a name
  that was deleted comes back, also against the mark of a self-managed Worker. (`Unseen` in `BindingsSurvive`.)
* `/setup/auto` takes over a bucket of that name and stores R2_BUCKET, so that a later helm-setup-deploy takes it for the owner's
  choice, contrary to `helmSetup.ts:567-572`. The name with a suffix that helm-setup chooses itself is not stored.
* `write-file` calls itself "atomic edit + commit + push" (header of `artifacts.ts`): two in one clone may commit each other's content; a
  push that fails after the commit is still answered with ok, and leaves a clone that may have diverged for good, since each later
  pull fails; after a lost container the push of a fresh clone is "Everything up-to-date" and reported as pushed. (`Stages`, `PushFails`.)
* sync-toml reads wrangler.toml, pulls again and writes the text it read: a commit of the owner's in between is undone (`artifacts.ts:1126`).
  (`Reads`, then `Edits`.)
* pull-upstream takes a count of commits that fails for none, and answers "Already up to date" (`artifacts.ts:1594-1603, 1624`). (`UpToDate`.)
* The deploy of a clone may ship a tree that was never pushed, though it reports that the Worker matches the source. (`Deploys`.)
* The drift is never empty when there are secrets, variables or Durable Objects, which are only noted in wrangler.toml, so that cron-sync notifies every time.
  The deploy of a single file sends no bindings, and the agent's name as compatibility date.
* "Forget" (`site/src/index.ts:892-912`) revokes the manage links first; with enforced references the DELETE is then
  refused, because the links and the push log refer to the row (`0002_cloud.sql:34,45`). The owner gets an
  error, has no link any more, and the cron goes on. (`Revokes`, `Deletes` with `enforced`.)
* A webhook event is inserted before it is dispatched (`stripe.ts:232-240`): if the dispatch fails, Stripe's retry is answered as
  a duplicate and the event is lost. (`ApplyFails` then `Looks`.) A cancellation whose UPDATE of the deployments fails is marked as processed, and the
  cron goes on pushing to a customer who has left (`stripe.ts:324-333`). (`Applies`.)
* A manage link ends after 30 days (`deployments.ts:212, 242`), on which the owner can pause, rotate and forget no more, while the cron goes on. (`LinkExpires`.)
* A deploy that comes before the webhook has entered the customer cannot insert its row, with references enforced:
  the deploy succeeds and is not kept up to date. A customer whose address is already in the table under another
  id gets no row at all (`INSERT OR IGNORE` on a unique address). (`Referred`, `Applies`.)
* `site/src/index.ts:681-682` says that a claim that is bound can never produce a second deployment; nothing reads the bound id before
  a deploy. (`ClicksTwice`.)
* The seed of a deploy may overwrite the sha of a push that came between the insert and it, and two overlapping
  pushes may be recorded in the order opposite to their uploads: the row then claims the other bundle. (`doubt`.)
* A cron that cannot read the settings of a self-managed Worker overwrites its code (`pushUpdates.ts:451-467`). The
  comment at 444-450 accepts that for a script that is missing.
* An Access app that exists is taken over without a policy; a deploy that is repeated after the policy failed reports Access as ready.
* A title the user sets during the model call of an auto-title is overwritten, although `chatSessionsApi.ts:122` says
  "only when missing". A touch after a DELETE creates the row again. Two first touches at once: one fails on the key.
* The header of the bridge (`server.mjs:11-13`) says of /stream that every response frame is sent on; with two streams open a
  notification without an id goes to neither (`server.mjs:96-101`). Late notifications of a stream that has ended go to the one
  that is open, and so do those of a call of /rpc, which are discarded according to the bridge's README (109). Two requests under one id lose one answer, and the timer of the first deletes
  the entry of the second. (`Tells`, `GivesUp`.)
* `morningBriefing.ts:14-18` says that steps retry on transient failures; a skill that answers ok: false, as notify-user does for a mail that was refused,
  is a result and not retried; so is the answer of `core/skills.ts:1596-1602` where the notifier is not enabled, which it is not by
  default (`wrangler.toml:41`): a brief then ends as sent, and nobody was told. Mail that was sent and whose record fails is sent again, and `notifier.ts:12-13` ("Every outbound notification is audit-logged") does not hold of the
  last attempt. (`StepReturns`, `Notes`.)
* A click on Reconnect in the terminal connects again after 100 ms. A close that is answered later, or a second click within that time, makes a
  second socket, and both write to one screen; the close of the older one stops the heartbeat of the newer. (`doubled`.)
* The cost rollup rewrites the rows of every provider in the gateway's log (`costTracking.ts:207-215`), also of those whose calls did not all
  pass through the gateway.
* `normalizeMode` turns "selective" into "execute", so that the hold for dangerous skills in the loops of `conductor.ts` is never taken.

Also met while reading, with no run: `docs/ROLLBACK.md` says that Helm stores the rollback hint
with the tool message, but `conductor.ts:362-379` passes none, so that hints reach a session
only by POST /messages.

## 6. Plan

Done, in this order: EventBus with TurnFeed and its proofs; StreamHub and its proofs; ChatSession;
CliAuth and its proofs; AgentSession; Helm Cloud (ledger, updates, deploys, setup and their composition); the chat page; the first five parts of the
agent's Worker, its own source among them; the bridge, the brief and the terminal; the proofs of the seven parts of AgentWorker; and those of AgentSession, of the chat and its pages, of the terminals, and of `StoreAgreesWithFeed`; and those of Helm Cloud.

Next: lemmas a reader would look for beside the theorems, such as what `mergeBindings` keeps of the bindings it is given, each in the proof module of its
component; and the parts that section 7 says are out.

## 7. What is not modelled, and why

* Plugins other than those named above, Codex OAuth (whose routes only answer how to log in by hand), authentication and
  routing: one request in, one
  result out; their state is somewhere else, and there it is a choice in the models.
* `core/*`, `rollback.ts`: tables built once and read afterwards.
* Of the scheduler: the handlers other than the brief, the cost rollup and the drift workflow, each one or two skill calls; the time of the last
  firing, which nothing reads. Of the companion: `codex-bridge-worker`, which forwards a request, and frames of a request before its answer.
* `rpcCall` of `codexRpc.ts`: one request and one answer.
* The AI gateway and the poll for strict mode of a deploy, and the encryption of tokens: nothing reads their result again.
* The push log: written after every push, read by the operator's dashboard only.
* Full-text search and fibers of AgentSession: a query, and rows that are never updated.
* Of `artifacts.ts`: the actions that only look (ls, read, history, diff, status), the deploy of a single file without a container, commits that
  are not pushed (`push: false`), and import-github, which does to an empty repository what init does.
* Of `app.ts`: all views but the chat and the terminal, and of the terminal its screen and its list of sessions; they show what one request answers. Site pages, marketplace, scripts: no state.
* Wording, formats and payloads are abstracted everywhere: an event is its kind and status, a
  message the place where it was first written, a token a model value.
