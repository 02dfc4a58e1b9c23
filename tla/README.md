# TLA+ verification of AegisPay

AegisPay is a Python/FastAPI service (`src/app`) for payment disputes, payment
lifecycle events and real-time risk decisions, with a Next.js dashboard
(`src/dashboard`). This directory holds TLA+ modules of their stateful parts,
the configurations that model-check them with TLC, and theorems about them that
TLAPS checks. Paths are relative to the repository; `src/app/` is shortened to
`app/` and `src/dashboard/` to `dashboard/`.

    tlc -workers 2 -config DisputeWorkflow_faults.cfg MCDisputeWorkflow
    tlapm DisputeWorkflow_proofs.tla

`PROJECT.json` is the index: components, runs, the source lines behind every
definition, hazards, findings, theorems, and for each checked property a mutant,
that is a plausible bug of the code that the property catches.

## 1. The system

### How the parts are executed

One server process (`app/main.py`). Routes declared `def` run on a pool of
threads, several at a time; routes declared `async def` that never await run in
one piece on the event loop. Stores are of two kinds:

* PostgreSQL tables (`app/db.py`, `app/lifecycle_repo.py`). Each call opens a
  connection and commits, so two calls of one handler are two transactions. A
  `psycopg.Error` is turned into `False`, an empty list or `None`.
* objects of the process (registry, idempotency cache, event store, audit
  snapshots, entity graph, rate limiter, deliveries), each with a lock of its
  own. They are gone after a restart. Every CLI command has its own.

The dashboard runs in one browser tab, on one thread, but not in one piece:
event handlers, the code after each `await`, React effects, observers, timers
and animation frames are separate steps that come in any order. A page's state
is made when the page is mounted; what a promise or a timer of a page that has
been left sets has no effect, unless it sets the context of the document. The
tab can be reloaded at any time.

### Inventory

| part | state | operations | talks to | hard behaviour | what makes it correct | status |
|---|---|---|---|---|---|---|
| Payment lifecycle ingestion (`api/lifecycle_routes.py`, `lifecycle_repo.py`) | tables transactions, payment_events, evidence_records | POST /webhooks/payment-event, timeline reads | the tables | concurrent duplicates, crash between commits, lost acknowledgements | an event is accepted once; evidence agrees with its event; both are append-only | `PaymentIngest` |
| Calibration registry (`calibration/registry.py`, `cli.py`) | configurations, promotion history, active version | register, promote, rollback, get_active | read by evaluate and replay | long sequences of calls, process life | every rollback target exists; rollback leaves the active version | `CalibrationRegistry` |
| V1 risk evaluation (`api/v1/risk_routes.py`, `decision/`) | none of its own | POST /v1/risk/evaluate | registry, cache, events, graph, snapshots, webhooks | retries, configuration changes, partial failure | one decision per key; every decision is recorded and replays | `RiskEvaluate` |
| Idempotency cache (`idempotency/`) | (merchant, key) -> hash and response | check, record | evaluate | retries, restart | cached answer for the same body, 409 only for another | `RiskEvaluate` over `DecisionLedger` |
| Audit and replay (`audit/`) | transaction -> snapshot | save_snapshot, replay_decision | registry | configuration changed since | replay gives the same score and action | `RiskEvaluate` |
| Behavioural firewall (`firewall/`, `api/firewall_routes.py`) | table firewall_assessments | POST /risk/evaluate-session | snapshots, table, disputes | names a configuration that it does not use | its snapshots replay | `RiskEvaluate`, `DisputeWorkflow` |
| Integration events (`events/`, `api/v1/event_routes.py`) | event_id -> event | process_integration_event | evaluate, graph | duplicates | an event is processed once | part in `RiskEvaluate` |
| Dispute workflow (`api/routes.py`, `graph/`, `db.py`) | state of each run, table disputes | POST /webhooks/dispute, the ten nodes, save_dispute | agents, engine, firewall_assessments | looping agents, failing model, concurrent deliveries, crashes, lost commits | the loop ends; a result bears out its status; what is called persisted is stored | `DisputeWorkflow` |
| Dispute agents (`agents/`) | none | classify, draft, audit, settle | language model | None and exceptions from the model | safe defaults | `DisputeWorkflow` |
| Language model client (`agents/llm.py`) | none | invoke_structured, retries, repair | the provider | rate limits | bounded number of requests | outcomes only |
| Rules and expected values (`engine/`) | none | evaluate, decide_route | workflow | dates and amounts at limits | one side per dispute | constants only |
| Entity graph (`entity_intelligence/`) | nodes, edges | record event, bounded search | evaluate, events route | limits, order of events, failed writes | envelope of times, bounded search | planned |
| API keys and rate limiter (`auth/`) | hits per merchant | authenticate, allow | V1 routes | sliding window at its limit | never more than the limit in 60 s | planned |
| Webhook dispatch (`webhooks/`) | subscriptions, deliveries | dispatch with retries | evaluate | failures, crash before the log | bounded attempts, each delivery logged | planned |
| Reconstruction (`engine/reconstruction.py`) | none | reconstruct a timeline | timeline routes | contradictory events | contradictions are found | planned |
| Currency (`currency/`) | rates | convert | evaluate | rate at its validity limit | the rate in effect is used | planned |
| Training, evaluation, drift, synthetic data | reports | offline commands | registry | floating point | | not modelled |
| Masking, errors, time, examples | none | | | | | not modelled |
| Dashboard: API client (`lib/api.ts`) | its calls, each with a timer | request, seven wrappers, fetchHealth | the backend | the timer races headers and body; errors without a readable body | a call settles once, with what the backend said | `ApiClient` over `RemoteCall` |
| Dashboard: scenario runs (`app/sandbox`, `landing/LandingPage.tsx`) | selection, stage, result | select, execute, twelve timed stages, the call | API client, audit store | clicks and navigation during a run; stale closures | one loop, the result last and of the scenario selected | `ScenarioDemo` |
| Dashboard: decision pages (`app/investigations`, `app/replay`) | the decision on display | load, replay | API client, audit store | answers of another shape; a backend that restarted | what was answered is shown | `DecisionPages` |
| Dashboard: entity canvas (`canvas/EntityGraph3DVisualizer.tsx`) | nodes, edges, selection, camera | click, expand, search, filter, reset, draw | React, animation frames | old copies of nodes, effects after frames | the graph stays a graph; the picture catches up | `EntityCanvas` |
| Dashboard: landing story (`landing/`, `canvas/`) | loader, revealed text, backdrop | scroll, observe, reveal, draw | observers, frames, timers | callbacks in any order, remounts | no text stays blurred; no frame outlives the page | `LandingStory` |
| Dashboard: console access (`lib/rbac.tsx`, `app/login`, `app/settings`, `app/security`) | role, tenant, secrets | sign in, switch, generate, copy | every page | a timer that outlives its page; secrets shown once | role and user agree; a secret never returns | `ConsoleAccess` |
| Dashboard: ledger pages (`app/transactions`, `events`, `entities`, `webhooks`, `api`, `system`, `dashboard`) | search, filter, dialog, telemetry | search, inspect, copy, load | navigation | timers and loads that end after their page | loads arrive independently; marks lapse | `LedgerPages` in `Console` |
| Dashboard: display-only components | none | | | | | not modelled |

### How the modelled parts interact

* evaluate reads the active configuration and writes the cache, the event store
  and the snapshot in one piece; `RiskEvaluate` EXTENDS `CalibrationRegistry`,
  so promotions and rollbacks come between any two requests and between a
  decision and its replay.
* evaluate-session overwrites the snapshot that evaluate wrote for the same
  transaction (`audit/repository.py`), in `RiskEvaluate`. It also inserts a row
  of firewall_assessments that a later dispute reads (`graph/workflow.py`), in
  `DisputeWorkflow`.
* The lifecycle tables and the disputes share nothing that decides anything:
  the timeline that a dispute reads is put into its result and not looked at.
* `Journey` joins scenario runs, dossier and replay: a result carries a
  transaction id by link to the other pages, which ask the backend for a
  snapshot (`AuditStore`) that exists only if the backend made the decision,
  could store it, and has not restarted since.
* `Console` joins the story, access and ledger pages by navigation: the RBAC
  context and the timer of a sign-in go from page to page, page state does not.

## 2. Modules

| module | role |
|---|---|
| `EventLog` | abstract: an append-only log whose entries get at most one acknowledgement and one trail record |
| `PaymentIngest` | the payment-event handler, call by call, on any number of threads |
| `PaymentIngest_proofs` | its theorems |
| `CalibrationRegistry` | the registry and the life of its process |
| `CalibrationRegistry_proofs` | its theorems |
| `DecisionLedger` | abstract: a slot is decided on once in a process's life, then repeated or refused |
| `RiskEvaluate` | evaluate, evaluate-session and replay over the registry |
| `RiskEvaluate_proofs` | its theorems |
| `DisputeDesk` | abstract: a request gets an admitted verdict, and is entered before it is called filed |
| `DisputeWorkflow` | the dispute webhook, node by node, on any number of threads |
| `DisputeWorkflow_proofs` | its theorems |
| `RemoteCall` | abstract: a request acts at most once and its caller is told one thing |
| `ApiClient` | the dashboard's request function against timer, network and backend |
| `ApiClient_proofs` | its theorems |
| `Browser` | the tab: one page mounted, with fresh state |
| `AuditStore` | the backend's snapshots as the dashboard meets them |
| `ScenarioDemo` | the demo of the landing page and the sandbox |
| `DecisionPages` | the dossier and the replay page |
| `Journey` | the three of them in one tab over one backend |
| `Journey_proofs` | its theorems |
| `EntityCanvas` | the entity graph: state, effects, mirror, frames |
| `EntityCanvas_proofs` | its theorems |
| `LandingStory` | the landing page's text and backdrops |
| `ConsoleAccess` | role, sign-in, secrets, copy marks |
| `LedgerPages` | lists, dialogs and telemetry pages |
| `Console` | the three of them, and navigation |
| `Console_proofs` | its theorems |
| `MC...` | instances for TLC |

`Journey` and `Console` are two views of the same tab: the pages of `Journey`
are one page without state in `Console`, and the live demo is not repeated in
`LandingStory`. No state is shared across that line but the role, which none of
the pages of `Journey` reads.

Definitions whose comment begins with "Variant" are the mutants of section 4.
They are not part of any specification.

### PaymentIngest (`app/api/lifecycle_routes.py:26-106`)

`handler[w]` is what thread w is about to do. The steps are the repository calls
in their order: `CheckDuplicate`/`CheckNew` (event_exists), `UpsertTransaction`
(save_transaction), `SaveEvent`/`Reject` (save_event, 409), `SaveEvidence`
(save_evidence and the answer). `Deliver` posts any body any number of times: a
retry and a duplicate are the same thing. Each call that commits has an outcome
of `Outcomes`: committed; failed; or committed with the acknowledgement lost,
which psycopg reports as an error too. `Crash` ends all threads. The tables are
functions from primary key to row; of the transaction row two columns stand for
the two ways a column is upserted (overwritten, and filled in by COALESCE).

### CalibrationRegistry (`app/calibration/registry.py`)

`configs`, `history` and `active` are the three attributes, each method is an
action. `announced` is what a `train` command told its operator; it survives
`Restart`, the registry does not. A configuration stands for its own hash.

### RiskEvaluate (`app/api/v1/risk_routes.py:111-361`)

`Evaluate`, `AnswerFromCache` and `RefuseConflict` are the three ways through the
route; each is one step because the coroutine never awaits. `Evaluate` creates
the event, decides with the active configuration (and with less evidence quality
when the graph raises), stores the snapshot when its validation passes and
remembers the answer under the key. `EvaluateSession` writes a snapshot by the
firewall's rules. `ReplayScore`/`ReplayAction` are replay_decision; replay
changes nothing and so is an operator that the invariants apply in every state.
Scores are percentages, one for each profile and set of weights: scoring is a
pure function of the request, so the constants range over all functions.
Of all this the ledger (`DecisionLedger`) keeps the cache, seen as a function
from (merchant, key) to payload and decision, and the answers to keyed requests.
`Evaluate` with a key is its `Decide`, `RefuseConflict` its `Refuse`, `Restart`
its `Forget`; an answer from the cache sends a letter again and is no step.

### DisputeWorkflow (`app/api/routes.py`, `app/graph/workflow.py`, `app/agents/`, `app/db.py`)

`node[w]` is the node of the graph thread w runs next, `state[w]` the AegisState
of its run. Every node is an action of the same name, with the edges of
`build_workflow` as its continuation; evaluate_rules, which only computes, is a
part of `RouteDecision`, and the static table and the classifier of
parse_dispute are `ParseListed` and `ParseUnlisted`. Whatever a node that calls the model may
get (an object, None after the retries, an exception) is a disjunct; an
exception is the route's pipeline fault, which replaces the state and parks the
dispute. `SaveDispute` is the upsert with its database faults, `SaveRaises` the
case that json.dumps raises before the upsert, `Respond` the answer.
`AssessSession` is the other route that writes firewall_assessments. The claims
worth fighting over (rules, win probability and amounts of `app/engine/`) are a
constant function of the contents and the claim type.

### ApiClient (`dashboard/lib/api.ts`)

`client[c]` is a call of `request` (which of fetch and body it waits for, the
status it has, its timer, what it settled with); `server[c]` is what the backend
did with it. `Request` is the fetch with its timer; `Reply` the backend, whether
or not anybody waits; `Respond` the arrival of the headers; `ReadBody` and
`ReadErrorBody` the two bodies, which may also be no JSON; `Break` a lost
connection, `Expire` the timer. The timer runs until the finally clause, so it
also covers the body. `fetchHealth` makes a report of the outcome (`HealthOf`);
a health answer says that the database is up or down or, from a backend other
than today's, leaves it out, which counts as "up" (`Database`, api.ts:91) but not
for the audit store (`AuditOf`, 97).
RemoteCall's fate and answer are functions of both variables.

### ScenarioDemo, DecisionPages, Journey

`runs` are the loops of twelve stages of the mounted page, each a closure with
the scenario selected at its click; `inFlight` the calls that the backend has
yet to serve, which it does also for a page that has gone. `StageElapses`,
`CallEnds` and `Finish` are the steps between two awaits. The scenarios that
SCENARIO_MAPPING does not know are evaluated on the sample `device_reuse_ring_0`
(`RingScenarios`), and the landing page shows canned data instead. Of an answer
`DecisionPages` keeps the set of its fields, taken from the routes
(`app/api/v1/risk_routes.py:380-393`, `488-497`), and of a page the fields that
it reads; reading a field of a missing object throws, with no error boundary.

### EntityCanvas (`dashboard/components/canvas/EntityGraph3DVisualizer.tsx`)

React state (`nodes`, `edges`, `hovered`, `selected`, `filter`), its mirror
`viewRef` that an effect fills, and the loops of frames, closures over the graph
of the render that began them. `Refresh` is the effects after a commit, `Frame`
one frame of a loop; the pointer is tested against the nodes of the last frame
(`projected`), and handlers hold copies (`hovered`, `selected`) that may be
older than the graph. A leaf's id is its parent and three digits of the clock.

### LandingStory, ConsoleAccess, LedgerPages, Console

`local` is the state of the mounted page. `LandingStory` has an action for each
callback of the browser: scroll, the effect of the backdrop, the observers of
headline and section, double frame, failsafe, loader. `ConsoleAccess` has the
RBAC context (`session`), the queue of sign-in timers (`signIns`, oldest first;
they all wait 400 ms), and the secrets that were generated (`issued`).
`LedgerPages` has search, filters, dialogs, copy marks and the two telemetry
loads. `Console` adds navigation; `trail` is as much of the history as the back
button needs.

## 3. Runs

| run | question | result | what it shows |
|---|---|---|---|
| `PaymentIngest_faults` | Do the guarantees hold with 3 threads, 4 bodies for 2 events and 2 transactions, crashes, failing commits and lost acknowledgements, and do the answers mean what they say of the event that meets no fault? | pass | types, accepted once, exclusive evidence, 409 means stored and "accepted" means evidence for that event, orphaned events that stay so, device kept, refinement of `EventLog` (agreeing evidence in append-only tables) |
| `RiskEvaluate_safety` | One decision per key, answers that `DecisionLedger` allows, replay, registered rollback targets, whatever is promoted, rolled back or restarted between? | pass | all of them hold, with 3 requests and histories of 3 |
| `RiskEvaluate_hold` | Is every decision recorded? | violated | MANUAL_HOLD is no RecommendedAction |
| `DisputeWorkflow_faults` | Breaker, results, one side, persistence, termination, bounded runs and refinement of `DisputeDesk`, with 2 threads, a failing model, 4 database faults and crashes | pass | all of them hold; about 197 000 states |
| `DisputeWorkflow_assessed` | Is an HTTP 500 impossible? | violated | an assessed transaction is not serialisable |
| `ApiClient_faults` | Does every call settle, once, with what the backend said, and does the client refine `RemoteCall`? | pass | 2 calls, 2 refusals, every cut of an answer, health answers that leave the database out; about 2 600 states |
| `Journey_demo` | One loop, result last and of the selected scenario, runs and replays that end | pass | 3 runs, 4 scenarios, a backend that fails and restarts; about 38 000 states |
| `Journey_dossier` | Does the dossier of a known transaction render? | violated | the answer has no `audit`, which the banner reads |
| `Journey_replay` | Is a replay that was answered shown? | violated | the answer has no `original_decision`; the exception is swallowed |
| `EntityCanvas_clicks` | Does the graph stay a graph and the picture catch up, with clicks on old copies, resets and unmounts? | pass | 2 nodes besides the root, 2 leaves; about 292 000 states |
| `Console_pages` | Do sign-ins, secrets, copy marks, loads, reveals and frames survive any navigation? | pass | types, one loop per canvas, reveals that arrive and stay (`RevealsArrive`), secrets shown once, sign-ins that arrive as they were submitted, marks and loads that end (`NothingStaysPending`); about 109 000 states |
| `Console_hero` | Can the opening headline be read in the end if observers need not report what is in view from the start? | violated | words sharp, loader gone, and the section around them still hidden: it has an observer only |

The violated runs are disagreements between the code and what its own
documentation or type declarations say; each is a finding in `PROJECT.json` with
the line quoted.

Five more disagreements can be seen with the same instances:

* put in place of `EveryDecisionRecorded` in `RiskEvaluate_hold.cfg`:
  `RetryIsCached` (a repeated body without a timestamp is another payload, since
  the default timestamp is hashed, `app/api/v1/risk_routes.py:63`),
  `SessionsReplay` (the snapshot of a session names a calibration that its score
  was not made with, `app/firewall/engine.py:182`), `AnnouncedIsPromotable` (the
  registry of `train` is gone when `promote` starts,
  `app/calibration/registry.py:144`);
* put in place of the properties of `PaymentIngest_faults.cfg`:
  `RejectedIsIngested` (a database error or a timestamp that PostgreSQL refuses
  is answered 409, `app/lifecycle_repo.py:242`) and `AcceptedHasEvidence` (the
  evidence insert fails and its result is ignored,
  `app/api/lifecycle_routes.py:88`).

Only `ApiClient_faults` turns deadlock checking off: its calls are finite in
number and may all have settled. In every other run some action is always
enabled, since requests, clicks or navigation may go on.

### Bounds and why they are enough

* `PaymentIngest_faults`: three threads are needed for a duplicate race with a
  third delivery in flight. The events may be delivered without limit; the state
  is finite because tables only grow and answers are counted once. Two
  transactions and merchants let one event_id come with different contents. The
  requests for one event meet every fault (`Faults`), those for the other, of a
  transaction they share, none. The threads are symmetric (`Symmetry`); no
  liveness is checked under it.
* `MaxHistory` 3: rollback looks at two positions of the history, so promote,
  promote, rollback can come between a decision and its replay.
* `MaxRequests` 3 in `RiskEvaluate_safety`: decide, repeat with the same body,
  repeat with another one. Two configurations differ in weights and thresholds;
  of the profiles one is ordinary, one lacks evidence and one loses it when the
  graph raises, so that each branch of the policy is taken. Each version has one
  configuration, see section 5.
* `MaxDeliveries` 2 and two threads in `DisputeWorkflow_faults`: two deliveries
  of a dispute that are handled at the same time, or one after a crash of the
  other. `MaxIterations` is the default of 2: a first failed audit that goes
  back and a last one that does not. Of the two bodies for one dispute one is to
  be fought and one settled; the third body is for the classifier.

* `ApiClient_faults`: calls share nothing, so two are enough to see that they
  do not; one status with and one without a readable body are the same refusal
  twice. Both wrappers occur.
* `MaxRuns` 3 in `Journey_demo`: a run that is left, one after coming back, and
  one after reselecting. The scenarios are an ordinary one, the two that the
  backend evaluates on another sample (one of them only in the sandbox), and the
  one selected at first.
* `MaxLeaves` 2 in `EntityCanvas_clicks`: a leaf that a stale copy may still
  point to and another one grown after a reset. One shown node may grow, the
  other may not; two clock values let ids repeat or differ.
* `Console_pages`: two sign-ins in flight, of another role for another merchant
  each (`Picks`, what is filled in), two secrets (one closed, one new), two
  copies whose timers overlap, two rows and two searches, two chapters of which
  one is below the fold.

The theorems do not depend on any of these.

### Fairness

* `DisputeWorkflow_faults` (`EveryRunEnds`): weak fairness of each thread's
  `HandlerStep`. A thread of the pool that can run is scheduled, the calls of
  the model return (llm.py bounds the attempts) and the database answers or
  fails. Nothing is assumed of requests, assessments or crashes, nor of what the
  model says: the loop of drafter and auditor must end when every audit fails.
* `ApiClient` (`EveryCallSettles`, the refinement): the timer fires (`Expire`), nothing else. The
  backend may never answer and a body may stall.
* `Journey` (`EveryWaitEnds`: of a run and of a replay): the steps of a run and the end
  of a page's calls, which `EveryCallSettles` justifies; the outcome of a call
  is open.
* `EntityCanvas` (`PictureCatchesUp`): React runs the effects of a commit, the
  browser draws a frame that was requested. The reader owes nothing: the
  property speaks of the time after the last click.
* `Console`: timers fire, effects and scroll handlers run, loads end, and the
  observers of chapters below the fold report, since nothing else reveals them.
  For what is in view from the start the observers are not trusted, as the code
  does not trust them (`ScrollytellingSection.tsx:50-54`). Double frame and
  failsafe must do, and they do for the words of the opening headline
  (`HeadlineSharpens`, a part of `RevealsArrive`); the section around it has
  neither, which is the finding of `Console_hero`.

The payment and risk modules assume no fairness.

## 4. Mutants

Each property of a passing run is paired with a change of the model that a
plausible bug of the code would be, and is violated by it: an upsert in place of
an insert, a duplicate check by transaction, COALESCE left out, a promotion
without lookup, a replay with today's configuration, an idempotency hash that is
not compared, a breaker with one audit too many, an audit that is not counted
when the model fails, an upsert that leaves columns alone, a lost connection
taken for a commit, an answer read back from the table; in the dashboard a timer
cleared when the headers arrive, a request sent again after its timer, an audit
store made of the database that is shown instead of the one that was answered, a
run button that is not locked, a selection that keeps the old result, a reset of
the nodes without the edges, an effect without its cleanup, a mirror without the
view, a backdrop that follows only the first scroll, a sign-in that reads the
form when its timer fires, a secret kept for the next visit, two loads made one
after the other.

## 5. Proofs

All theorems hold for every value of the constants that satisfies the named
assumptions of the module (`IngestAssumption`, `RegistryAssumption`,
`RiskAssumption`, `DisputeAssumption`, `ClientAssumption`, `DemoAssumption`,
`CanvasAssumption`, `AccessAssumption`, `LedgerAssumption`,
`ChaptersAssumption`): they say that the bodies are bodies, that "no row" is not
a row, and so on.

**PaymentIngest.** `IngestInv` is inductive. The property wanted,
`AcceptedOnce`, is not: a handler in front of save_evidence will answer
"accepted" and nothing in `AcceptedOnce` prevents a second such handler. So
`IngestInv` adds that this handler has the event for itself
(`EvidenceStepIsExclusive`, from the primary key of payment_events) and that the
event is not answered yet (`EvidenceStepIsBeforeAnswer`). `EvidenceAgrees`,
`ForeignKeysHold`, `TablesAreAppendOnly` and the refinement of `EventLog`
(`Refinement`) follow from the same invariant; `EvidenceBeforeAnswer` and
`DevicesAreKept` are consequences of it too. `HealthyRejectionsAreTrue` and
`HealthyAcceptancesAreTrue` are about an event none of whose requests meets a
fault or carries what cannot be stored (`Healthy`), whatever happens to others:
all that makes the two inserts do nothing is then excluded by the invariant.
`OrphansAreForever` is what a missing
second commit comes to: a stored event without evidence, and with no handler in
front of save_evidence for it, can only get evidence from a handler that passes
save_event, which needs the row to be absent. Rows are never deleted
(`TablesAreAppendOnly`), so no retry helps.

**CalibrationRegistry.** `RegistryInv` adds to `EveryRollbackTargetIsRegistered`
that no version follows itself in the history. That is what `RollbackMovesAway`
needs: without it a rollback could go from a version to the same version.
`ServerKeepsRegistry` shows that the server, with all its requests, is a registry
(`Spec => RegistrySpec`); the two theorems hold of it therefore
(`ServerRollbackTargets`, `ServerRollbackMovesAway`), as the run states them.

**RiskEvaluate.** `RiskInv` relates the cache to the answers of this process in
both directions (`RecordsAreAnswers`, `AnswersAreRecorded`), which gives
`OneDecisionPerKey` and `ConflictIsJustified`. `EvaluationsReplay` needs that the
configuration of a snapshot is still the one stored under its version
(`AuditedConfigKept`), which is true only if no version is registered twice with
different contents. `ReplayIsDeterministic` therefore assumes
`VersionsAreUnique`; register does not enforce it. The proof also shows that the
policy of evaluate and the policy of the firewall, which the replay applies,
agree on every decision that has a snapshot: they differ on MANUAL_HOLD only.

`AuditInv` adds what a body with a timestamp of its own parses to at every time,
that every decision answered by this process has its snapshot unless it is a
MANUAL_HOLD, and that what a snapshot says of a decision follows from the
configuration it names. From it and `RiskInv`: `StampedRetriesAgree` (the retry
that does work, beside `RetryIsCached` which does not hold of bodies without a
timestamp), `OnlyHoldsAreUnaudited` (all that the finding about MANUAL_HOLD is
about), and `OnlyReplacedConfigsDiverge`, which needs no `VersionsAreUnique`: a
replay of evaluate that differs shows that the version was registered again.
`LedgerRefinement` maps each way through the route to `Decide`, `Refuse`,
`Forget` or a stutter. The answers of an earlier process are in `letters` too,
where the ledger is empty again; that is why the cache has to be related to the
answers of this life only.

**DisputeWorkflow.** `DisputeInv` says for every node what a run holds there
(`RunOK`): before the decision nothing; from drafter to auditor failed audits
only, fewer than the limit, and a claim worth fighting over; at the end a result
that bears out its final status. `Exhausted` looks at the audits, not at the
decision, so that a dispute escalated by the rules is told from one whose
iterations ran out only because the first has no audits: that is in the
invariant too. The proof has a lemma for each node. From it follow
`BreakerHolds` (for every limit, 0 included, where one audit is made),
`ResultsAreBorneOut`, `OneSide`, `PersistedHolds`, and `Refinement`: a thread's
work is one `Open`, one `Decide` at save_dispute and one `Answer` of the desk,
whatever the nodes between do. A lost acknowledgement is a `Decide` that is
entered and not filed, an HTTP 500 a `Refuse`, a crash a `PowerCut`.

`RunsAreBounded` is termination without time: `StepsLeft`, the nodes ahead plus
two for each audit the breaker still admits, is a natural number, never above
2 * AuditLimit + 6, and falls with every step of the run, while a step of anybody
else leaves the run alone. It needs the part of `DisputeInv` that every way to
the drafter has counted its audits, also when the model gave none.
`OnlyAssessedFail` shows that the error of `DisputeWorkflow_assessed` has that
one cause; `SeenIsStored` makes it inductive.

**ApiClient.** `ClientInv` says for each phase what call and server hold: a call
that reads a body has the status of an answer the server gave, and a settled
call an outcome that matches (`CallOK`). `ImplementsRemoteSafety` maps each step
to `Ask`, `Act`, `Tell` or a stutter of `RemoteCall`; the liveness part of the
refinement (every caller is told something) is left to TLC. `TimersStay` and
`CallsAreBounded` are the two facts on which it rests: a call is pending exactly
while its timer runs, through headers and body, and every step of a call takes
it a phase further, at most three times.

**Journey.** `OneLoop` alone is not inductive: a second loop is prevented by the
flag that locks the button. `LoopIsShown` adds that the loop there is belongs to
the mounted page, is the one that `running` announces, and goes with
`currentStep`. From that `ResultsComeLast`, `ResultsAreSelected` (no other
scenario can be selected without dropping the result) and `TrackIsMonotonic`.
`LoopsAreBounded` counts what a loop has yet to do: twelve stages, two steps of
its call and the end. Each step of its own lowers the count, nobody's raises it,
and the loop keeps its scenario; if the page is left, it is gone.
`AnsweredDossiersAreBlank` and `AnsweredReplaysAreHidden` say of every state what
the two findings show in one: no answer of the backend has the fields that
dossier and replay page read, so the one goes blank and the other stays as it was.

**EntityCanvas.** `CanvasInv` joins the safety properties of the run with one
fact more, that the initial nodes are always there: a click on a copy of a
collapsed or reset leaf then finds a parent. `RevealedIsKept` is the action
property that follows. `OnlyHoverIsLate` narrows what an effect may leave behind
to the hovered node. `OneEffectOneFrame` measures how far the picture is behind
(`Lag`: an effect and a frame, a frame, nothing) and shows that no step but the
reader's raises it.

**Console.** `ConsoleInv` is type correctness page by page, with
`UserMatchesRole` and `NoFrameLeftBehind`. The weight is in the steps: any timer
may fire on any page, so each is proved against the type of the state of every
page it may find. `NothingIsForgotten` adds that what a page still owes is
pending: blurred words in view have their failsafe, a backdrop that is behind
its scroll event, a sign-in under way its timer, a mark "Copied" a timer to take
it back. The proof of each step looks at one page (`Owing`), since the timer of
another page changes nothing there. `NewestSecretOnly` follows along with it,
and `TextIsNeverBlurredAgain` is the action part of `RevealsArrive`.

**Left to TLC.** Liveness under fairness: `EveryRunEnds`, `EveryCallSettles`, the
last part of `ImplementsRemoteCall`, `EveryWaitEnds`, `PictureCatchesUp`, the
leads-to parts of `RevealsArrive`, `SignInArrives`, `NothingStaysPending`. The
prover has no rule for ENABLED, which fairness needs. For each of them the part
that does not depend on time is proved: a bound on the steps that remain
(`RunsAreBounded`, `CallsAreBounded`, `LoopsAreBounded`, `OneEffectOneFrame`) or
the callback that is pending (`TimersStay`, `NothingIsForgotten`). What TLC adds
is that a step which can be taken is taken in the end. The violated properties
are TLC's as well. For all but `HeadlineReadable`, which is about time, a theorem
says how far the violation goes (`OnlyHoldsAreUnaudited`, `OnlyAssessedFail`), or
that it is always so (`AnsweredDossiersAreBlank`, `AnsweredReplaysAreHidden`).

Some definitions have a theorem and no place in a run, because they are steps to
the properties of the runs, follow from them or bound them: the types
`ClientTypeOK`, `JourneyTypeOK`, `RegistryTypeOK`; `ParentRowExists`,
`EvidenceStepIsBeforeAnswer`, `EvidenceMatchesEvent` and `AppendOnly`;
`AuditedHasCreationEvent`, `ConflictIsJustified`, `StampedRetryIsCached`,
`DecisionsAreAudited` and `MismatchIsExplained`; `ErrorsNeedAssessments`;
`ValueIsTheAnswer`, `TimerUntilSettled` and `CallsComeNearer`;
`TrackMovesForward`, `LoopsComeNearer`, `OnlyOwnDossierRenders` and
`OwnReplayStays`; `OnlyHoverLags` and `PictureComesNearer`; `UserMatchesRole`,
`EveryWaitHasItsCallback` and `OnlyNewestShown`. TLC finds each of them true of
the instances of the runs: put it in a `.cfg` to see it.

## 6. What is not modelled

* Within the modelled parts: read-only routes (timeline, dispute status,
  reports), which change nothing; the CLI of the disputes, which runs the same
  graph and prints; the audit CLI, which starts with an empty snapshot store and
  therefore finds nothing unless it has just made it.
* What the model writes (texts of dossiers, notices and audits), wording, logs,
  masking, signatures, schemas of errors.
* The numbers: win probability, expected values, scores and features are
  constants that range over all functions. Their formulas are floating point.
* The limit that LangGraph puts on the number of nodes of a run.
* Training, evaluation, drift monitoring, synthetic data, the example client.
* Of the dashboard: drawing (camera, projection, particles), layout and wording;
  components that no page imports (`DisputeList`, `MetricsOverview`,
  `AgentReasoningView`, `DossierViewer`, `PipelineSteps`, `legacy-ui`,
  `AegisRiskCanvas`, `lib/fixtures.ts`); sections with one tab of their own and
  nothing behind it; the timeline page, which shows literals.
* Known and left alone, since no document says otherwise: the stages of the last
  run stay marked after a reselection (`LandingPage.tsx:546-552`); a stale copy
  may grow a second leaf and Collapse removes none; the end of a drag is a click
  as well; PERMISSION_MATRIX of `app/security/page.tsx:19-29` disagrees with
  ROLE_PERMISSIONS; the timeline page says "Temporal cutoff enforced" and shows
  every event; the copy mark of the API page stays when another endpoint is
  selected; the health that `system` and `dashboard` load is never shown; a
  health answer without a database is shown as "up" beside an audit store that
  is degraded (`lib/api.ts:91`, `97`).

## 7. Plan

Done, in this order: (1) `PaymentIngest` over `EventLog`; (2)
`CalibrationRegistry`; (3) `RiskEvaluate` over it; (4) `DisputeWorkflow` over
`DisputeDesk`; (5) the dashboard: `ApiClient` over `RemoteCall`, `Journey`,
`EntityCanvas`, `Console`. The order is by what a wrong step costs: evidence and
decisions first, disputes as the widest part after them, then what operators see
of both.

Next:

1. `EntityGraph` with the events route: merge of nodes and edges, events that
   come out of order, as_of reads, the search with its limits; composed with the
   idempotent event store. Properties: the envelope of times is the least one,
   the search is a subset of the full one and stays within depth, a failed write
   leaves memory ahead of the table and never behind.
2. `RateLimiter`: the sliding window with a clock. Properties: in no window of
   60 seconds more than the limit, refused hits cost nothing, refinement of a
   window counter. Theorem: the bound for every limit.
3. `WebhookDispatch`: subscriptions, attempts, the delivery log, composed with
   the end of evaluate. Properties: bounded attempts, a delivery is logged or the
   process stopped, duplicates after a retry of the request.
4. `StructuredCall`: the attempts and the repair call of llm.py; refines the
   three outcomes that `DisputeWorkflow` takes as given. Liveness: every call
   ends.
5. `CurrencyRates`, `Reconstruction`, `Ce3Rules`: pure functions as operators
   against reference definitions, at the limits of dates and rates.
6. Theorems: inductive invariants of 1 to 3, and lemmas on the operators of 5.
   Of the modules that exist: that `Expire` or the next phase is always possible
   for a pending call, stated without ENABLED by a witness step.

As modules join, runs that ask a similar question of one component are merged
before new ones are added.
