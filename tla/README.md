# Recovery agent: a TLA+ verification project

This directory models the recovery agent under `src/recovery-agent`: a FastAPI
service that diagnoses failed payments, proposes an action, passes it through
six compliance gates, executes it (in simulation or at Razorpay) and keeps an
append-only ledger in SQLite. Paths below are relative to `src/recovery-agent`.

TLC checks small instances of every model; TLAPS proves the main safety results
for every number of requests, workers, cases, links, events and faults.

## 1. The system

| Component | State it keeps | Operations | Talks to |
|---|---|---|---|
| Gates (`guard/gates.py`, `guard/context.py`) | none: pure functions of a `GuardContext` | six gates, `run_gates`, `all_passed`, fingerprints | pipeline, demos |
| Guard pipeline and stops (`guard/pipeline.py`, `guard/stops.py`) | the in-memory `CaseRow` of one session | `guard_and_maybe_execute`, `record_gate_checks`, `apply_stop` | ledger, executors |
| Executors (`execute/`) | links at the provider | `execute_with_guards`, `SimExecutor.run`, `RazorpayExecutor.run`, reconcile | Razorpay over HTTP, ledger |
| Ledger (`ledger/`) | tables `cases`, `processed_events`, `ledger_entries` in SQLite | ingest, paid link, append, replay of fingerprints | everything |
| Webhook intake (`api/routes_webhooks.py`, `ingest/`) | none of its own | verify, normalise, ingest or close a case, answer | Razorpay, ledger |
| Endpoints (`api/routes_execute.py`, `routes_guard.py`, `routes_ui.py`) | one session per request | `/execute/run`, `/guard/check`, create-link button | pipeline |
| Live demo, replay, fraud demo (`demo/`) | two sessions, a stream of steps | the scripted flows of the UI | agent, pipeline, Razorpay |
| Policy engine and agent (`policy/`, `ai/`) | the taxonomy file | `decide`, `validate_proposal`, propose / repair / fall back | LLM, memory, ledger |
| Diagnosis (`diagnose/`) | none | classify a reason, score a case | agent, eval |
| Memory (`memory/`) | a manifest file, documents at Inherent | seed, upload, poll, resume, retrieve | Inherent over HTTP |
| Offline evaluation (`eval/`, `config/`) | run files and their store in memory, process-wide cost overrides | simulate policies on a batch, cost them, compare them, search a break-even, store runs | policy engine, gates, UI |
| UI (`api/routes_ui.py`, `static/think.js`) | none on the server | views; the event stream consumer | all |

What is hard in it:

- Several handlers interleave on one database. User requests run in threads of
  their own; a webhook handler is `async def` and runs to its answer on the event
  loop. SQLite has one write lock. A handler's SELECTs before its first write see
  the latest commit, its `CaseRow` is never re-read, and a flush writes only the
  columns that changed: decisions are made on stale rows and merged by column.
- The fingerprint check is check-then-act, and so is the duplicate check of the
  webhook. The former has no constraint behind it, the latter a primary key.
- Money moves at the provider before the transaction that records it commits,
  and the answer of the call can be lost.
- The provider delivers webhooks at least once, in any order, until it gets a 2xx.
- The process can die at any step.
- The seeder keeps its record in memory until the end of a run and the provider keeps
  documents whose answers were lost; runs with and without `--resume` and `--force`
  follow each other on one file.
- Evaluations run in threads and share one dictionary of cost overrides, which each
  sets, reads key by key and clears, and a store that is built on first use.
- The price of a simulated plan is computed from counts, apart from its play.
- The live demo is a generator. It yields in the middle of a transaction, and what
  happens between two yields is up to the browser, the thread pool and the event
  loop, which a webhook handler can block.

What makes each component correct:

- Gates: a pure function of the context; no prohibited action passes.
- Pipeline: no action runs twice; nothing runs behind a stop; blocked means not run.
- Ledger: what happened is on the ledger, what is on the ledger happened; case
  rows agree with it.
- Webhooks: each event recorded once, acknowledged only after that.
- Executors: a link that exists is accounted for; counters count.
- Live demo: what was decided, judged, executed and stored is one action; a run that
  is cut off leaves a whole trail or none; every run ends.
- Agent: what it executes is what the validator accepted; it always ends in a decision.
- Memory: the manifest claims only what is stored, forgets nothing when resumed, and an
  exit code of 0 means complete; an episode is uploaded once; every run ends.
- Evaluation: what is priced is what was played; breakdowns add up; a run alone is
  scored with its own costs and leaves none behind; a break-even is one; a saved run is
  found again.

## 2. Modules

| Module | What it is |
|---|---|
| `Gates` | The six gates, the fingerprint and `run_gates` as operators |
| `CaseRows` | The case row: created, loaded, merged by column on a flush, closed |
| `Executors` | What the two adapters can return, and what the result does to the case |
| `RecoveryService` | The write path: three endpoints, pipeline, executors, webhook handler, SQLite, the provider, crashes; all properties |
| `Inbox` | Abstract: an event is recorded at most once and acknowledged only then |
| `CaseContract` | Abstract: a case is acted on only while open, each action once, closed by a stop, a recovery or a payment |
| `RecoveryPromises` | The refinement mappings from `RecoveryService` to the two above |
| `Policy` | Taxonomy, classifier, retry days, `decide` and `validate_proposal` as operators over any taxonomy |
| `Agent` | `RecoveryAgent.run`: health check, three conversations with one repair each, fallbacks; its properties |
| `Deliberation` | Abstract: one case, one legal decision, under the right name |
| `LiveFlow` | The streamed and the drained demo run, its two transactions, the lock across yields, the thread pool, the event loop, disconnects; its properties |
| `Seeding` | The seeder's runs: concurrent uploads with retries and polls, the manifest in memory and on disk, resume and force, deaths, a lost volume; its properties |
| `Simulation` | The offline evaluation as operators: hidden payer, the five policies, play, price, metrics, segments, winners, what the gates would refuse; extends `Policy` and uses `Gates` through it |
| `EvalRuns` | The evaluations of a server at the same time: overrides, lookups, break-even search, run store, restart; its properties |
| `Evaluation` | `EvalRuns` composed with `Simulation`: the properties that tie what a request reports to what is simulated |
| `Shipped` | `taxonomy.yaml`, `decline_codes.json` and `costs.json` as shipped |
| `MCRecovery`, `MCAgent`, `MCLive`, `MCSeeding`, `MCEvaluation` | Constants of the runs |
| `RecoveryTypeProofs`, `IdempotencyProofs`, `StopProofs`, `PromiseProofs`, `AgentProofs`, `LiveFlowProofs`, `SeedingProofs`, `EvalProofs` | Theorems and proofs |

Definitions named `...Apart`, `...IfOpen`, `...Newest` and the like, under a
comment that starts with "Mutant:", are not part of the model. Each is a plausible
bug in the definition that follows it and shows that a property is sensitive to it.

### State and actions of RecoveryService

`cases`, `processed` and `ledger` are the committed tables, `lock` is SQLite's
write lock. The ledger is a sequence of committed transactions, each with the set
of rows it inserted; the lock makes the `seq` numbers of one transaction
contiguous, so nothing is lost by that. `issued` are the `uuid4` case ids handed out.

A request walks through `pc`: `idle`, `loaded`, `read`, `execute`, `commit`, then
`done` or `failed`. `snap` is the row as loaded, `row` as it stands in memory,
`seen` the fingerprints it read, `rows` what it has inserted and not committed.

| Action | Code |
|---|---|
| `LoadCase` | `session.get(CaseRow, ...)` in `execute_run`, `execute_link_for_case` |
| `IngestNew` | `ingest_risk_event` for a request without a case (`execute_run`, `guard_check`); takes the lock |
| `SkipStopped`, `OptOut` | the two early returns of `guard_and_maybe_execute` |
| `ReadFingerprints` | `reader.executed_fingerprints` |
| `GateAndRecord` | `run_gates`, `record_gate_checks`, the block or reopen; takes the lock |
| `Execute`, `ExecuteStub` | `_exec` with the executor, the action row; the stub of `guard_check` |
| `Commit` | `session.commit()`: the rows appear, the changed columns merge |
| `LockTimeout` | `busy_timeout` expires |
| `DeliverDuplicate`, `DeliverFailed`, `DeliverPaid` | a webhook arrives; the reads of `ingest_risk_event`, `handle_payment_link_paid` |
| `RecordFailed`, `RecordPaid` | their writes, to the commit |
| `IntegrityError`, `HookTimeout` | the two ways the writes fail and roll back |
| `Reply`, `LoseReply` | the 2xx arrives, or does not |
| `PayLink` | the payer pays |
| `Restart` | the process dies: every open session is gone, every commit stays |

`loadedAt` and `readAt` are history variables: the length of the ledger when the
request loaded its case and when it read the fingerprints. No guard reads them.

### State and actions of Agent

`stage` is where `run()` stands, `failures` counts the failed calls of the current
conversation; the other variables are the fields of `AgentRunResult` as they are
filled in.

| Action | Code |
|---|---|
| `HealthCheck` | `LLMClient.available`; on failure `_fallback` at once |
| `CallErrs` | `chat_json` raises `LLMError`: one repair call, then the `except` branch |
| `CallRejected` | any other exception: braces that do not parse, or a schema that refuses; straight to the `except` branch |
| `GiveUp`, `Fallback` | the three `except` branches and `_fallback` |
| `AnswerDiagnosis` | the class is clamped to the taxonomy |
| `AnswerProposal` | `validate_proposal`; a message follows if the repaired verb contacts the payer |
| `AnswerMessage` | the drafted message |

`Deliberation` does not know conversations or failures. It says what the caller may
rely on: an action of the rules is the first of the rules' plan, an action of the
model is legal for the class it diagnosed (`Legal`, which is written from the
categories of `taxonomy.yaml` and not from the validator), and a message is there
exactly if the action contacts the payer, with canned copy never under the model's
name.

### State and actions of LiveFlow

Each run (`Streams`) opens a case of its own, so `cases` and `ledger` are indexed by
runs. `lock` is the holder of SQLite's write lock, `at` the point a run has reached,
`thread` whether it occupies a thread of the pool, `hook` the link whose paid event
occupies the event loop. A streamed run gives its thread back at every yield
(`Yield`) and needs the loop and a thread to go on (`Resume`); a drained run keeps it.

| Action | Code |
|---|---|
| `Request` | `think_stream` (streamed), `ui_ai_case` (drained) |
| `OpenCase` | first session of `iter_ai_demo_case`: `ingest_risk_event`, commit |
| `Think` | `agent.run`, without a session |
| `LoadCase`, `Persist` | second session: `session.get`, then `persist_agent_run`, whose first row takes the lock; the next yield keeps it |
| `Gate` | `guard_and_maybe_execute` up to the adapter |
| `Execute` | `_exec`, the action row, the test for an external id |
| `DemoLink` | `_create_demo_payment_link` |
| `Commit`, `Tell` | the yields of the gate verdicts, `session.commit()`, the result |
| `LockTimeout`, `Disconnect`, `Restart` | an exception, a closed generator, a dead process: rollback |
| `PressButton` | `execute_link_for_case` on the run's case |
| `DeliverPaid`, `RecordPaid`, `HookTimeout` | `razorpay_webhook`: it takes the loop and returns it with a 2xx or a 500 |

### State and actions of Seeding

`docs` is what the provider holds for each episode, `disk` the manifest file (missing,
torn or whole), `memory` the manifest of the run, `task` the coroutine of each episode,
which waits for the semaphore, posts, polls and ends. `clean` and `wiped` are history
variables that no guard reads: the episodes nothing went wrong for, and that the
provider lost its volume.

| Action | Code |
|---|---|
| `Start` | `_parse_args`, `MemoryManifest.load`, `init_run`, and `gather` up to the first await: what a resume skips is recorded at once |
| `StartOnTornFile`, `RemoveTornFile` | `json.loads` raises before `--force` is looked at; an operator removes the file |
| `Acquire` | `async with sem` |
| `PostAccepted`, `PostUnanswered` | `upload_document` through `_request_with_retry`: accepted, or refused, malformed, lost or busy, with what the provider may have stored |
| `Process` | the provider (external) |
| `PollCompleted`, `PollFailed` | `wait_for_document`, `record_episode` |
| `SaveOpens`, `SaveWrites` | `manifest.save`: `write_text` truncates, then writes; the exit code |
| `Die`, `Wipe` | the process is killed; the provider's volume is lost |

### State and actions of EvalRuns, and Simulation

A request is an API evaluation (in a thread), the form's evaluation (on the event loop,
which takes nothing else meanwhile) or the page of a run with its break-even search (in
a thread). `overrides` is `config.costs._overrides`, `stores` the memory of every
`EvalRunStore` that was built and `store` the global that points at one, `files` the
JSON files.

| Action | Code |
|---|---|
| `Request` | `eval_run`, `batch_run`, `batch_run_view` |
| `SetOverrides`, `Clear` | `set_cost_overrides` binds a new dict, `clear_cost_overrides` empties the one that is bound |
| `LooksUp`, `Fetch` | the test and the subscript of `get_cost` |
| `GetStore`, `Load`, `Assign`, `GotStore` | `get_store` and the constructor that reads the directory |
| `SaveOpens`, `SaveWrites`, `WriteFails` | `EvalRunStore.save` |
| `Restart` | the process dies; the files stay |

`Simulation` has no state: batch, plan, play, price and comparison are pure functions of
a case whose dice are fixed, as in the code, where a case's generator is seeded by its
key. `OursPlan` is `Policy!RulesPlan` and `CountGateBlocks` runs `Gates!RunGates`, so
the evaluation is judged with the models of the engine and the gates themselves.
`EvalRuns` takes the worth of a batch as the constant `Net`. `Evaluation` composes the
two, and `MCEvaluation` gives `Net` what `NetRecovered` of the simulation yields for the
batch of each run at every price the search can try, in steps of ten paise up to fifty
rupees.

### Abstractions

- In `Seeding`, an episode is its logical id. Waits between attempts and the order in
  which tasks take the semaphore are free. A document is processed only while
  somebody polls it, for nothing else reads it.
- In `EvalRuns`, one lookup stands for all those of one policy's batch, of the one cost
  the search turns. In `Simulation`, money is paise, a probability a percentage and a
  die a number below 100.

- In `LiveFlow`, the button and the webhook's write are single steps; their
  interleavings are the subject of `RecoveryService`. Consecutive yields without a
  state change in between are one. The timeout of the lock (60 s) can expire whenever
  somebody holds it: on a holder suspended at a yield, and on one whose two HTTP calls
  take that long (`httpx` allows 30 s for each read, not for a call). The agent thinks
  without the lock.

- `Policy` leaves out amounts, scores, notes and reason codes; the last is the
  constant `AGENT`. A plan is a set of actions: every list of days in `timing.py` is
  ascending and without duplicates.
- The agent's inputs are the reason, the code, the day of the failure and the
  credit-day hint. Days are 1 .. 28, as in the batch generator.

- `last_action`, `score`, amounts, timestamps other than the gate's clock, notes
  and external ids other than provider links are left out: no property is about
  them. The six `gate_check` rows of one pass are one row with six verdicts.
- Early returns that write nothing (404, a bad payload, a paid link of an unknown
  case) leave the state as it is and are stuttering steps.
- Nothing another handler can see happens between the first write and the commit
  of a webhook transaction, so that is one step; reading stays a step of its own.
- Links of this application always carry `notes.case_id`, so the fallback
  `find_case_id_by_plink` is never taken.
- The random draw of the simulator and the answers of Razorpay are
  nondeterministic choices over the outcomes the adapter can return.
- A case of the initial state is one that was opened earlier; its earlier ledger is
  not represented, the ledger holds the rows since the start.
- `Cases` is large enough that no run runs out of case ids.

## 3. Runs

| Run | Instance | Question |
|---|---|---|
| `concurrent` | 3 requests, 1 webhook worker, 1 case, 2 links, 1 fault | What holds when handlers interleave? |
| `serial` | 3 requests, 2 cases, 1 link, 1 failure event, 1 fault, one handler at a time | Is anything lost when they do not? |
| `delivery` | 1 request, 2 workers, 1 link, 1 failure event, 2 faults, fairness | Is delivery exactly-once, and does a payment arrive? |
| `live` | 2 runs of 4 kinds, 4 decisions, 2 links, 1 thread, 1 press, 1 restart | Is every trail whole, every link on it, the pool within its size? |
| `live_progress` | 2 runs of 2 kinds, 2 decisions, 1 link, 1 thread, 2 presses, 1 restart, fairness | Do lock, pool and loop let every run end and every payment in? |
| `agent` | the shipped taxonomy; 18 reasons x 3 codes on one day, and a missed salary on 28 days x 8 hints; one delay; fairness | Is every decision legal, and is there always one? |
| `seeding` | 2 episodes, selections of 1 and 2, 1 upload at a time, 1 retry, 3 runs, 1 fault, fairness | Do manifest, provider and exit code agree, and does every run end? |
| `evaluation` | 2 requests, 3 overrides, a search of 2 halvings, 1 fault; 8 reasons x 8 hints x 7 credit days x 4 days x 5 dice, 3 batches | Are concurrent evaluations right when alone, and is what they report what was played? |
| `stop_erased`, `attempt_cap`, `fraud_link` | 3, 4 and 1 requests | Violations, section 6 |
| `hook_locked` | 1 run, 1 link, 1 thread, 1 press | Violation, section 6 |

Why these bounds are enough for the cases that matter: the hazards need one
request that holds a stale row, one that commits in between, and one that comes
afterwards, hence three. A second worker is needed for the race on
`processed_events`; the service runs one uvicorn process, so this covers a
deployment with two. Two links let one action have a second one, which takes two
requests and either a crash or an overlap. Two faults let a lost answer follow a crash. One case is
enough for races on a case; two make cross-case leaks visible in `serial`. The
request bodies are the retry, the link, the link at night (blocked by the contact
window), the opt-out, the escalation, and the three that open a case; they reach
every action and every outcome of both adapters.
In `live`, two runs on one thread are the smallest pool that can be exhausted: one
waits for the lock on the thread its holder needs. Two links let the demo's own link
follow one whose answer was lost. The decisions are a retry, a payment link, a mandate
update and an escalation, which is every way in which the agent's action and the
demo's link can meet; the refused run fails the contact window. `live_progress`
leaves out what does not make anybody wait, and its second press of the button is the
one the idempotency gate blocks.
The agent keeps nothing between two cases, so one case at a time is enough, and the
run covers every row of the taxonomy, every reason and code of the fixture, and every
day on which a retry window can wrap. The model proposes every verb and channel with a
single delay, for no rule compares the delay with anything.
In `seeding`, three runs let a resumed run follow one that died after a first that
succeeded, and two episodes behind a semaphore of one wait for each other. In
`evaluation`, two requests are the fewest that share overrides or build two stores, and
the search meets each of its ends: no crossing, a value within the tolerance, a bracket
of the promised width. The dice always fail, always succeed, or turn after the first or
second throw, so that a longer plan and an earlier contact both make a difference.
`MaxFaults` (restarts, deaths, failed writes, wipes and lost answers), `MaxRuns` (of the seeder) and `MaxPresses` (of the button, in
`LiveFlow`) are the only bounds inside the models; the proofs hold for every value.

Symmetry (requests, workers, runs, links) is used only in runs without liveness properties.
Deadlock is not checked: requests are one-shot, and the system stops when all have
ended and every event is acknowledged.

### What the properties say

- `DurableIdempotency`: an action is executed a second time only by a request that
  had read the fingerprints before the first execution committed. This is the race
  that `docs/LIMITATIONS.md` section 4.1 admits; the property says it is the only one.
- `StopUndoneOnlyByOverlap`: an action commits behind a stop only if some request
  that was in flight at the stop has committed since.
- `ClosedIsOnLedger`: "so the trail never lies" (`ledger/models.py`): a closed case
  has the stop row of its reason.
- `CountersNeverOvercount`, `CountersExact`: counters written from a stale row may
  lose an increment but never invent one; with one handler at a time they equal
  the ledger's count.
- `ImplementsContract`: with one handler at a time every commit is a step of
  `CaseContract`.
- `ProcessedMatchesLedger`, `ImplementsInbox`: exactly-once recording over
  at-least-once delivery.
- `LinksAccountedFor`: a link at the provider has an action row of the request that
  created it, unless that request has not committed yet or died.
- `SecondLinkExplained`: the payer holds two links of one action only if a request that
  created one died before its commit, or the later had read the fingerprints before the
  earlier committed. A call that was answered with an error after Razorpay had created
  the link, or whose answer was lost, is not made again.
- `PaidIsRecorded`: every payment is recorded in the end, also one that comes before the
  case it names is committed, but for that of a link whose request died with the case it
  had opened: `LostWithItsCase` is the only way to lose one.
- `TrailIsWhole`: whatever ends a run and whoever writes beside it, its trail names one
  decision and one class, the class of the case row; the agent's action was executed
  exactly if the run was live and all gates passed; the page's own link never stands
  beside a link that was reported, a block or a simulated run; a run that showed its
  result has a trail and one that failed has none.
- `LinksOnTrail`: a link the payer can pay has an action row that says why, unless its
  run has not committed or never will.
- `RunsEnd`: lock, pool and loop do not wait for each other for ever. It is the
  database's timeout that breaks the cycle: without it the run fails.
- `PaidReachesLedger`: a paid link closes its case on the ledger, also the link of a
  run that was cut off, because the first transaction had committed the case.
- `ImplementsDeliberation`: `Agent` implements `Deliberation`, see above.
- `RepairedNotOverruled`: the validator changes neither verb nor day of a proposal
  that is legal already, and a second validation changes nothing.
- `PlanIsLegal`: the rules and the validator, two readings of one taxonomy, agree.
- `SalaryPlanHitsFunds`: with a true hint, the retries that survive the cut to
  `max_retries` include a day on which the payer model has funds; without one, those
  of a failure after the 7th reach the payers credited on the 1st to the 5th.
- `AlwaysDecides`: `run()` returns.
- `RecordedIsStored`: a row that lets a resumed run skip an episode, on disk or in
  memory, names a document of that episode that the provider had processed.
- `OneDocument`: an episode has a second document only if an answer was lost, its
  processing was not seen to end, its record died, or the operator asked for it again.
- `ProgressKept`: a resumed run forgets nothing the file had as done.
- `SuccessIsComplete`: exit code 0 means that every episode of the run is recorded and
  stored, although the code judges by counts over all rows, also those of other runs.
- `RunEnds` (of `Seeding`): attempts and waits are bounded and the semaphore is returned.
- `OverridesAreOwned`: overrides that are bound belong to a request that will clear
  them, whatever raised.
- `ScoredWithItsOwnCosts`, `BreakEvenIsTrue`: what a run or a page reports is right if
  nothing with overrides overlapped it. Those that overlap get wrong numbers, see
  section 6.
- `AnsweredRunsAreFound`: a run a client was told of is whole on disk, and in the store
  of the moment unless two threads have built one each.
- `PricedIsPlayed`: `costing.py` is given counts and reconstructs the steps; they are
  the ones that were played, for each of the five policies.
- `OursSparesThePayer`: the taxonomy and the classes the simulator judges by agree: our
  plan wastes no retry, sends no message of the wrong kind and breaches no cap.
- `BreakdownsAddUp`: segments, scenarios, seeds and the cases' nets add up to the batch.
- `OursRefusedNoMoreOften`: case by case, the gates refuse no more of our plan than of B2's.
- `DearerMessagesFavourOurs`: the lead is monotonic in the price of a message, as the
  label in `break_even.py` says and as its bisection needs.

### Fairness

Weak fairness for each request's own steps (a thread is scheduled, `httpx` has a
timeout of 30 s), for the webhook's write, and for its answer (the handler never
awaits after reading the body). Strong fairness for the delivery of each event: the
provider redelivers what is not acknowledged and the worker is free again and
again. Nobody has to send a request or to pay, and no fairness is assumed of
timeouts, crashes or lost answers.

`LiveFlow`: weak fairness of a run's steps (a thread that has work is scheduled) and of
the webhook's, whose wait ends with the lock or with the error. Strong fairness of
`Resume` or `Disconnect`: the event loop and anyio's limiter serve who waits in turn,
so a run whose client reads on gets its next thread again and again, or its client
leaves. Strong fairness of redelivery. Nobody has to press, pay, restart or connect.

`Seeding`: weak fairness of each task and of the save: the event loop runs what can run,
each request is answered or times out (`httpx` timeout), attempts are counted, and the
wait for a document has a deadline. Nobody has to start a run. `EvalRuns` has no
liveness property and no fairness.

`Agent` has weak fairness on its next step: `run()` is one thread, the health check
times out after 3 s and a chat call after 120 s, and every outcome of a call is a step.

## 4. Proofs

All theorems are of the form `Spec => ...` and use only the assumptions declared in
`RecoveryService`: identifiers of different kinds differ, `Preloaded` holds cases,
`RequestSpace` holds request bodies, `MaxFaults` is a natural number; and for the
agent those of `Policy` and `Agent`: the fixture names classes of the taxonomy, a
dead class has a link verb by default, a class whose default is a link may be
contacted, a `stop` class escalates, and a class that retries grants what its timing plans
(`RetryBudgetAssumption`: `timing.py` cuts neither the one retry of an immediate contact nor
the two of a spaced plan to `max_retries`; `SalaryWindowAssumption`: a salary window is for
silent retries and grants at least four; both are true of `taxonomy.yaml` and checked by
no code); and for the live demo those of `LiveFlow`: calls and decisions are of their
kinds, every decision carries the agent's reason code, there are finitely many runs and at
least one thread, and `None` is a value of its own; and for the seeder those of `Seeding`:
finitely many episodes, selections among them, and bounds that are natural numbers; and for the
evaluations those of `EvalRuns`: the old run is none of the requests, the search's ends
are integers whose distance can be halved as often as the search does, and are among the
costs a batch can be worth something at, as are the default and what the panel sends. TLC evaluates them on the shipped files.

1. `TypeCorrect`: `Typed` is `TypeOK` with `SessionOK` (a request in flight has a
   target, a body and a row) and `HookOK` (a busy webhook has an event; one about
   to close a case has loaded it). Without these, `Merge` and the counters could not
   be shown to stay in their types.
2. `IdempotencyIsDurable`: `DurableIdempotency` speaks of the ledger alone and is
   not inductive. `Idempotent` adds `KnowledgeOK`: a request has seen everything
   executed on its case up to `readAt`, and what it will commit is not among it;
   and `CommittedOK`: a request commits once, and a webhook executes nothing.
   `LinksAreAccountedFor`: `Accounted` follows the action row of a link from the rows of
   the request that created it to the ledger. `SecondLinksAreExplained` adds `Linked` to
   `Idempotent`: who has executed and not committed holds the lock (`Holding`), every
   link has a creator of its own, on whose case it is (`CreatorsOK`), and what a request
   committed is the action of its body (`CommittedOwn`). Two creators of links of one
   action that both committed executed one fingerprint twice, and `DurableIdempotency`
   says when; two that have not committed would both hold the lock.
   `CountersAreNeverTooHigh`: `Counted` says
   that a session's counter is at most what the ledger shows of its case, plus one for
   the run among its own rows; a flush stores that value with those rows, or leaves the
   table's. Runs are counted by cardinality: a commit adds at most one index to a finite
   set (`RanGrows`).
3. `StopsAreUndoneOnlyByOverlap`: `Stopping` adds that a case whose last stop no
   overlapping request has touched is still closed in the table (`StopsHold`), and
   that whoever loaded it later knows (`StopsKnown`).
4. `ClosedCasesAreOnLedger`: `Closing` follows status and reason through the
   column-wise merge: each value in memory is the loaded one or has its stop row
   among the uncommitted rows.
5. `InboxImplemented`, `ProcessedAgreesWithLedger`: `Recording` says that an event
   is on the ledger exactly where `processed` says, that user requests write no
   event row of the provider, and that what is being acknowledged is recorded. Every
   step is then a step of `Inbox` or a stutter.
   `CountersAreExact`, `ContractImplemented` are about `SerialSpec`, where handlers run
   one at a time (with two, `stop_erased` and the lost update of a counter refute both).
   `Serial` says what being alone buys: at most one handler is busy (`OneAtATime`); what
   a request loaded is still what the table holds, unless it is opening the case, its
   counters are those of the ledger plus its own uncommitted rows, and its reading of the
   fingerprints is up to date when it executes (`SessionCurrent`); its status is what its
   rows say (`Outcome`); and a webhook is about to close the row it loaded (`HookCurrent`).
   A commit then moves the case as `CaseContract` allows, or leaves it alone; a death
   throws away nothing the ledger has. That a ledger row has its case in the table
   (`RowsHaveACase`) is what makes a new case start at zero.
6. `DeliberationImplemented`, `ProposalsAreRepairedNotOverruled`: `Settled` says that a
   finished run has kept the promise and that a run in its last conversation holds a
   legal action that contacts the payer; the lemmas `ValidatorIsSound` (what comes out
   of `validate_proposal` is legal for the class) and `ValidatorRepairsOnce` (it is
   idempotent and leaves legal proposals alone) carry the steps.
   `AgentTypeCorrect` adds to `TypeOK` that a conversation which goes on has failed at
   most once. The rules' first action is the one of the least day, which exists because
   `<` is well founded (`LeastElement`), and every planned day is a natural number.
   `RulesPlanIsLegal`: the validator passes the plan by cases on the default verb
   (`PlanPassesTheValidator`); the budget holds because a list cut with `[:n]` has at
   most n elements (`EarliestBound`: the last one has fewer than n before it), and a plan
   has at most one action per day (`OneActionPerDay`). `SalaryRetriesHitFunds`: the day that hits
   survives the cut because at most one offset precedes it with a hint, and at most three
   without one (`KeptByTheCut`); the rest is arithmetic modulo 28 (`HintedPlanMeets`,
   `ClusterPlanMeets`).
7. `LiveTypeCorrect`: `Typed` adds to `TypeOK` what the next step of a run needs
   (`RunsTyped`: its call, its committed case, its decision, its session) and that a
   link names a committed case (`HookTyped`). The bound on the pool is a lemma about
   cardinalities, `PoolBounded`.
8. `TrailsAreWhole`: `TrailIsWhole` looks at the ledger, which changes once per run, at
   the commit; `Told` follows the uncommitted rows there (`SessionTold`): what they say
   at each point of the generator, and that the case was undiagnosed when the session
   loaded it, so that the column-wise merge stores the diagnosis. `TrailTold` is what
   the button, the webhook, a restart and the other runs leave alone.
   `LinksStayOnTrail`: `Linked` finds the row that says why a link exists on the ledger,
   or among the rows of the session that created it, or gone with a run that left no
   trail (`LinkExplained`); and before its first commit a run has no case a link could
   name (`Unopened`).
9. `SkippedIsStored`, `StoredOnce`, `ResumeKeepsProgress`, `SuccessMeansComplete`,
   `SeedingTypes`: one inductive invariant. To what the properties say of rows at rest
   it adds what a task in flight knows (`PollsOK`: it polls a document of its episode;
   `TasksOK`: which tasks there are at each step of a run), that a manifest is created
   before it has rows (`CreatedOK`), that what a resumed run found done has no task under
   way (`SettledOK`), that an ended task has left a row (`EndedOK`), and that a clean
   episode with a document is being polled or is recorded (`CleanOK`). The exit code
   counts rows: a count of zero is an empty set of failed rows.
10. `EvalTypes`, `OverridesAlwaysOwned`, `RunsScoredWithOwnCosts`, `AnsweredRunsStayFound`,
   `BreakEvensAreTrue`:
   what each step does to its thread is stated once, field by field, and cited by every
   invariant. `Placed` says where a thread can be by its kind, its lookup and its search.
   `Owned` follows who set the overrides last. `Quiet` follows a run that overlapped
   nobody with overrides: it is `Alone` with its own, for binding and clearing are the
   privilege of requests that have some (`Binding`), so what it reads at a lookup is what
   it set and what it has read is its own cost (`Scored`). `OnDisk` and `InStore` follow
   a saved run from the memory of the store its request holds to the answer; until a
   second store is assigned, every handle is that of the first.
   `Probing` follows a page that overlapped nobody with overrides: what is bound at a
   lookup is what its probe has set (`BoundAtProbe`), so both policies are scored at the
   probe's value (`Probed`), and the search knows the truth at its ends (`TrueSearch`):
   the lead at the left end, a change of sign in the bracket, and that i halvings have
   left a bracket of `Width(i)`. Narrowing keeps all three (`NarrowKeepsTheSign`).

Each inductive invariant was model-checked before it was proved.

Only model-checked: liveness (`PaidIsRecorded`, `AlwaysDecides`, `RunsEnd`,
`PaidReachesLedger`, `RunEnds`), which is outside what the prover does; and what is said
of the simulation (`PricedIsPlayed`, `OursSparesThePayer`, `BreakdownsAddUp`,
`OursRefusedNoMoreOften`, `DearerMessagesFavourOurs`): its operators fold over sequences,
and what a fold computes for every input is induction over data; and three of the five
are about the shipped rates, taxonomy and reasons, not about every one. These five are
facts about pure functions, asked of every run a client was told of; no interleaving
bears on them.

## 5. Not modelled

- The recoverability score (a float no decision reads) and prompts.
- The replay and fraud demos (scripted sequences of operations that are modelled) and
  `think.js`, which shows the stream.
- Retrieval of episodes (`memory/rag.py`, `memory/service.py`): searches without state but
  for a cached probe; episode texts and the validation searches after a seeding run.
- The command-line harness and report of the evaluation (files and formatting), its
  confidence intervals (floating point), the random draws of the batch generator (every
  case it can draw is an input instead).
- `api/ui_mock.py` (canned pages) and `api/ui_helpers.py` (formatting).
- Signature verification and payload extraction of webhooks.
- HTML pages and read-only endpoints.

## 6. Where code and documents disagree

- `stop_erased`: `guard/stops.py` says "Once stopped, never execute again". A request
  that loaded the case before an opt-out writes `blocked` (or a new status) after it;
  the next request finds a case that is not stopped and executes.
- `attempt_cap`: the cap of three is judged on `attempts_used` from the request body
  for an existing case, so four retries run in a row.
- `fraud_link`: `docs/COMPLIANCE.md` says a `risk_fraud` case is not contacted. The
  link button passes `card_expired`, its default, to the gate. That the generic
  execute endpoint does not set a class is documented; this path is not.
- `hook_locked`: `ledger/db.py` says "timeout=60 avoids "database is locked"". The live
  demo is suspended at a yield with the write lock; a webhook that arrives then blocks
  the event loop while it waits for the lock, so the demo cannot go on to release it.
  The handler fails after its whole timeout, and the provider has to send again.

Found with earlier runs of the agent, and kept here: `ai/agent.py` (line 10) says "JSON
fails twice -> rules_fallback", but only an `LLMError` is given the second try, and a
malformed object or a refused schema falls back at once; `policy/timing.py` (line 24)
says that the days without a hint cover days 1 to 7, but the list of targets is sorted
by distance and cut to four, which drops the 7th for every failure after the 6th, so a
payer credited on the 6th or 7th is never met (`SalaryPlanHitsFunds` states what holds
instead).

Seen while modelling the seeder: a resumed run records what it skips as `skipped`, so
after the `--resume` of `docs/SETUP.md` (line 178) the manifest's count of `completed`
episodes falls, though `docs/METRICS_SPRINT_PLAN.md` (line 36) calls that count the size
of the corpus; `--resume` does not restore episodes the provider has lost, as line 253 of
that plan suggests, and exits with 0; a manifest torn by a death in mid-write stops every
later start, also with `--force`; the status `retry_exhausted` is never recorded, because
the last answer of an exhausted retry is returned and fails as a plain status.

Seen while modelling the service, and the reason why two properties make an exception of
a request that died. A link is posted before the case and the action row are committed,
so a process that dies in between leaves a link the ledger knows nothing of. (1) The same
request creates a second link afterwards: `docs/COMPLIANCE.md` (line 88) says that
rebuilding the fingerprints from the ledger makes idempotency survive a process restart,
and `docs/LIMITATIONS.md` (line 308) that single-request duplication is blocked, while the
race they admit needs two concurrent requests. Only Razorpay could refuse the second
post, by the `reference_id` both carry; neither code nor documents rely on it. (2) If the
request had also opened the case, every delivery of the payment raises "case not found"
(`ledger/service.py`, line 107), though the link was, as line 102 asks, created by this
app; the docstring at line 81 says "payment_link.paid -> RECOVERED + audit row".

Seen while modelling the evaluation: while two evaluations overlap and one has overrides,
the other is scored with them for one policy or both, or fails with a `KeyError` between
the test and the subscript of `get_cost`, although `eval/run_store.py` (line 50) records
"Live assumption overrides applied for this run" and its record names none; two first requests may build two stores, and a run saved
in the one that is replaced is not found until a restart; the form's evaluation is an
`async def` that computes on the event loop; `docs/METHODOLOGY.md` (line 89) freezes the
winner as "higher `recovered_inr`", while `eval/benchmark.py` (line 377) decides by the
net; a batch's money counts actions that its own gate estimate refuses.

Seen while modelling, without a run: a live run that loaded its case before a payment
writes `open` over `recovered` if the button had left the case blocked (the lost update of
`stop_erased` on the demo's path; two presses are needed); the page's own link is
created after an allowed escalation, hence for a case diagnosed as fraud, and beside a
mandate link whose answer was lost; a message draft is an action row that stands also in
the trail of a blocked action, where the repository's `README.md` (line 135) says that
a blocked action produces no action row; `stop_reason` and `status` are separate columns
and can come from two different requests when four overlap; a payment on a case
that was stopped by an opt-out turns it into `recovered` (the contract allows it);
after a failed proposal the result names the model's class beside the
rules' action, which belongs to the rules' class; the worked example in the
repository's `README.md` (line 469) lets policy repair a `risk_fraud` proposal to
`escalate_human` and then has gate 1 block it, while gate 1 passes an escalation.

## 7. Plan

1. Retrieval with its cached probe, and the replay and fraud demos as compositions of
   `RecoveryService` operations on a case of their own.
2. Intake operators: event ids and rails of `ingest/normalise.py`.
3. Proofs: lemmas about the operators of `Simulation` that need no induction (what one play
   or one retry may do to an outcome), and about `Gates`.
