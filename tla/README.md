# Verification of the ReviewLens analysis backend

ReviewLens turns a product question into a research report: a workflow of
deterministic and agent tasks runs on Celery workers over PostgreSQL, Redis
and a paid model provider.  This directory holds TLA+ models of the parts of
the backend whose correctness depends on interleaving, failure and retry, the
TLC configurations that check them, and TLAPS proofs of what matters most
about the task runtime, admission, accounting, tools, captions, discovery,
reports, publication, sign-in, configuration, agent calls, the knowledge graph,
the catalog and the progress stream.  Paths below are relative to `src/backend/app/`.

    tlc -workers 2 -config Workflow.cfg MCRuntime.tla     # one run
    tlapm RuntimeProofs.tla                               # the proofs of one module

`PROJECT.json` lists the components, the runs, one mutant for each checked
property, the source lines of every definition, the findings, the hazards and
the theorems.

## 1. The system

| Component | State it keeps | Operations | What is hard |
|---|---|---|---|
| Task runtime (`runtime/service.py`, `runtime/contracts.py`) | runs, tasks, attempts, dependencies, run budget status | `create_run`, `execute_task_run`, completion, `retry_task`, `request_cancellation`, `recover_stale_attempts`, `repair_unfinished_runs`, `_finalize_run` | redelivery, lapsed leases, late results, races of cancel / retry / recovery |
| Workflow (`runtime/contracts.py`, `analysis/configuration.py`) | the shipped templates | order, materialise for a request | which failures a report survives |
| Runtime outbox (`runtime/outbox.py`) | outbox rows, the Redis stream | claim with lease, publish, mark | two relays on one row, crash between send and mark, stale status |
| Product clarification (`runtime/clarification.py`) | one question per run | pause, answer, expire | expiry against answer, deadline and cancellation |
| Worker and beat (`worker.py`) | none | deliver, acknowledge late, soft limit, periodic jobs | at-least-once delivery, a job killed half-way |
| Progress (`runtime/outbox.py`, `api/v2/analyses.py`, the browser's `v2.ts`, `v2-progress.tsx`) | sequence, outbox rows, Redis stream, cursor | append, publish, read with fallback, follow | Redis trims and loses entries, three reads that are not one snapshot |
| Accounting (`llmops/accounting.py`, `llmops/operations.py`) | reservations, usage events, run / evaluation / daily ledgers, account state | reserve, settle, release, reconcile, sweep | concurrent calls, settlement by whoever comes first, midnight |
| Gateway (`llmops/gateway.py`, `llmops/client.py`) | none | retry loop around a paid request | crash with a request in flight |
| Catalog (`llmops/catalog.py`, `llmops/policies.py`) | refreshes and their rows | refresh, validate and publish a policy | overlapping refreshes, staleness |
| Admission (`public/admission.py`) | submissions, Redis rate window | create analysis | several limits and an idempotency key under one decision |
| Discovery (`tools/youtube.py`, `public/intent.py`, `analysis/executor.py`) | candidates, curation | search, rank, ask, curate, share out | the product may change after the ranking |
| Tools (`tools/`) | tool invocations, slots, quota, caption cache | invoke, recover, cache | crashed holders of slots, quota around midnight, blocked routes |
| Agents (`analysis/executor.py`) | outputs of attempts | prepare, call, bind, correct | a lapsed worker beside the next attempt |
| Reporting (`analysis/`) | reviews, draft, audits, report | analyse, draft, audit, correct, publish | positions that shift between question and answer |
| Reports (`public/reports.py`, `api/v2/user_researches.py`) | publications, owners | publish, revoke, read, adopt | revocation against retries, readers and adoption |
| Knowledge (`knowledge/`) | versioned nodes and edges, Markdown files, Neo4j projection | create, link, reconcile, rebuild | files and projection are not transactional |
| Configuration (`admin/configuration.py`, `admin/agent_models.py`) | drafts, versions, the active one | edit, evaluate, publish, activate | stale rows, evaluations that overlap with edits |
| Administrative jobs (`admin/jobs.py`, `evaluation.py`) | jobs | create, run, recover | two executions of one job |
| Sessions (`services/admin_auth.py`, `services/user_auth.py`) | sessions, throttle counters, locks | sign in, touch, rotate, expire | rows that are stale when written |
| Schema (`migrations/`, `db/models.py`) | tables, references, triggers | upgrade, downgrade | walks over a database in use |
| Health, rendering, command line, most of the frontend, deployment | none, or none that matters at run time | | |

How they interact.  A public request is admitted, which creates a run with its
tasks, dependencies, budget and the outbox rows of the root tasks in one
transaction, from a snapshot of the active configuration.  A relay job, every
two seconds, sends outbox rows to the broker (task dispatches, revocations) or
to the run's Redis stream (progress).  A worker claims the attempt a delivery
names, runs the handler outside any transaction (tools, paid calls through the
gateway and its accounting, nodes of the knowledge graph), and completes the
attempt; the completion evaluates the dependents, which queues further
dispatches, and finalises the run, which publishes its report.  A recovery job
ends attempts whose lease lapsed, adds missing dispatch rows, closes tool
invocations, expires questions and finalises runs.  Users cancel, answer
questions, adopt runs and read reports; administrators retry, revoke,
configure and refresh the catalog.

What makes each part correct, in a phrase:

* runtime: no task is executed by two workers that both count, no result is
  lost or accepted twice, dependencies are respected, every run ends;
* workflow: a source that fails costs neither another one nor the report, and
  a report waits for everything that can still add to it;
* outbox: nothing queued is lost, nothing stale starts;
* progress: a reader sees every event once, in order, to the end;
* accounting: ledgers equal the reservations behind them, limits hold under
  concurrency, every reservation is settled exactly once;
* admission: one run per key, no limit exceeded by concurrent requests;
* tools: quota and slots are accounted for, a caption at hand is never missed;
* reporting: what is published rests on quotations, and nothing refused is
  published;
* publication and sessions: revocations and locks are final, whatever was read
  before them;
* knowledge, configuration, catalog, schema: a version once published does not
  change, and what is relied on is what is there.

## 2. The modules

| Module | Models |
|---|---|
| `RunContracts` | status vocabularies and the two transition tables of `runtime/contracts.py` |
| `TaskGraph` | dependency modes, evaluation of dependents, reset of skipped descendants, on sets |
| `Runtime` | one run: tasks, attempts, dispatch rows, relay, broker, workers, recovery, operators (extends `TaskGraph`) |
| `RunPromise` | what a run promises its initiator, without attempts or deliveries |
| `DependencyWalk` | the recursive database walk of the code beside `TaskGraph`, over every graph of so many tasks |
| `ShippedWorkflow` | the shipped templates, their materialisation, a run of them under the rules of `TaskGraph` |
| `ProgressStream` | progress of one run, from the row to the browser |
| `Budget` | reservations, settlement and ledgers of paid calls |
| `Admission` | `create_analysis` of public requests: locks, windows, queue, reservation, rollback |
| `ToolCalls` | invocations, slots, YouTube quota, recovery |
| `Captions` | caption cache, routes, the walk of each source slot, the age of a caption |
| `Discovery` | search, ranking, the product question, curation and the queues of the slots |
| `AgentCall` | the attempts of an agent task: prompt, cancellation check, paid call, correction |
| `Reporting` | reviews, drafts, audits, one correction, the publication gate |
| `Publication` | publication and revocation of a report, its readers, owners of a run |
| `Access` | sign-ins, throttle, lock, sessions and their expiry |
| `Knowledge` | versions, files, relations, reconciliation, Neo4j rebuild |
| `Configuration` | drafts, evaluation jobs, publication, activation, snapshots |
| `Catalog` | refreshes of models and endpoints, staleness, publication of a policy |
| `Schema` | the migrations up and down, the declared references |
| `RowRules` | what the triggers of the database let an `UPDATE` do to a row |
| `MCRuntime`, `MCStream`, `MCBudget`, `MCAdmission`, `MCTools`, `MCCaptions`, `MCReporting` | instances for one run each, or for two runs of `MCRuntime`'s kind |
| `MCComponents` | thirteen components that share no state, one after the other in one run; the rules of the triggers applied to the rows of all of them |
| `RuntimeProofs`, `AdmissionProofs`, `BudgetProofs`, `ToolCallsProofs`, `ProgressProofs`, `ConfigurationProofs` | the theorems about the module of that name |
| `ComponentProofs` | the theorems about `Publication`, `Access`, `AgentCall`, `Knowledge`, `Catalog`, `Reporting`, `Captions` and `Discovery` |
| `Selection` | the comprehension `[x for x in s if x in S]`, for `Discovery` and `Reporting` |
| `Sums` | lemmas about sums over finite sets and their largest element, for `Budget`, `ToolCalls` and `Catalog` |

**Granularity.**  One transaction is one action.  Every transaction of the
runtime that writes a task, an attempt or the run takes the row lock of the
run, and every function of `accounting.py` the row lock of the run's budget
(and of the shared ledgers), so two of them do not interleave.  Whatever the
code does *between* transactions is a state of the model: a relay pass between
its claim, its status check, its send and its mark (`relaying`), a worker
between claim and completion (`exec`), the gateway between reservation and
settlement (`gateway`), the sweep between its read and its writes (`sweep`),
the events endpoint between its three reads (`conn`), an administrator between
loading a row and writing it (`request`), a sign-in between its reads (`login`).
A transaction that raises is rolled back, so an action whose check would raise
is disabled, or is an action of its own where the caller goes on.

**Optimistic locks.**  Rows written through the ORM carry a version that the
`UPDATE` checks.  Models keep the set of requests whose copy is current
(`fresh`, `account.seen`); a write by anyone empties it, and a write from a
copy that is not in it fails.  Statements that bypass the ORM
(`adopt_anonymous_runs`, the touch of a session) neither check nor raise it.

**Names.**  Variables and actions carry the names of the tables and functions
they stand for; the comment above an action names the function when the names
differ.  An operator called `X_Slip` is not part of a model: it is `X` with a
plausible programming error, and `PROJECT.json` pairs it with the property
that notices it.

### Runtime

`task`, `attempts`, `dispatch` are the rows of `TaskRun`, `TaskAttempt` and
`RuntimeOutbox` (dispatch kind), the latter two as sequences indexed by
attempt number, which is also the idempotency key; `current_attempt` is
`Len(attempts[t])`.  `broker` is a set: a second copy of a delivery changes
nothing that `Redeliver`, which puts a delivery back, does not.  A handler is
its outcome: success, a failure that is transient or not, a timeout, a
cancellation it noticed, or, for the publisher, a committed report before any
of these.  Deadlines are the choice whether a comparison with the clock comes
out late: of the run once and for all (`runLate`), of a task each time
(`LateChoices`).  `Faults` says what else may go wrong, so that a run can
choose its adversary.

`TaskGraph.EvaluateDependents` states what `_evaluate_dependents` computes as
a set of tasks to queue and a closure of tasks to skip; the code walks rows
recursively in whatever order the database returns them.  `DependencyWalk`
runs that walk beside it.  `GraphAssumption` asks for an acyclic graph
(`topological_order` refuses another) and for fan-ins that ask for at least
one success (`contracts.py:200`).  Two properties of graphs are definitions
and not assumptions, because the code does not demand them (section 5):
`GateSeparates` and `Attainable`.

### ShippedWorkflow

`Templates` lists the seventeen templates of `_default_workflow` with what
matters here: upstreams, fan-out over the source slots, the condition on
comments, the fan-in mode.  `TemplateOrder` and `Materialized` are
`_template_order` and `materialize`; a task is a template and a slot.  A run
then executes those tasks; a task ends once, with something the next tasks can
use or with the remark that its source has nothing (`skipped` outputs count as
success for the graph).  `Concluded` is what is left of `_finalize_run`.

### ProgressStream

An event is its sequence number, since rows are append-only.  The Redis
stream is a set of numbers with its last id: `XADD` refuses an id that is not
larger than the last, trims to the maximum or (being approximate) not at all,
may be applied though the client sees an error, and may be lost with a
restart (`lost`, a ghost, remembers that).  A connection of the events endpoint reads the status, the count,
the stream and, if the page is not exactly what the count promises,
PostgreSQL, each in a step of its own.

### Budget

Reservations are named by the call and its retry number.  The model keeps the
five ledgers exactly as the code does: the run and evaluation rows, the daily
row with the smallest cap it has been opened with, and the task and agent caps
that are sums over reservations without a row.  The date a reservation is
booked on is read before the transaction that stamps `created_at`
(`BookingDays`).  Prices and token counts are small numbers; the provider may
use less or more than the estimate.

### Admission

A request is a process: it begins (which is what `created_at` will say), waits
for the lock, checks, reserves in Redis, creates and commits, or breaks off.
Session row and configuration row are locked one after the other and released
together, so they are one lock here (`holder`).  The run and the submission of
a request carry its name; `status` is the run's.  The three Redis windows are
the set `tokens` with the time the script ran (`reserved`).  A request that
lost its connection no longer holds the lock but still believes it does, until
its next statement.  Clock ticks are whole: the script counts in seconds and
PostgreSQL in microseconds, so a boundary is exact to a second in the code;
the expiry of a window's key after its last entry has expired changes nothing.

### ToolCalls and Captions

In `ToolCalls` each `session_scope()` block of `tools/runner.py` and
`tools/youtube.py` is one action of a call: authorise, wait for a slot (a slot
is a running invocation of the run and tool), begin, book a unit of quota
before every request, settle it by the answer, finish.  A call may also end
where it stands, with its unit unsettled: by its deadline (`TimeOut`), or by an
exception that only the last clause of `invoke_tool` catches (`Escapes`), which
the record calls "failed" and the model's `outcome` "internal".  `quota` keeps
the counters per bucket and day, `rows` the units each call booked on each day,
so that an answer after midnight can be told from one before.

In `Captions` a caption is the time it was fetched; a cache entry or a node
is a caption with the time it *claims*.  The executor's second lookup of the
cache is the action `Stamp`.  `offered` remembers, as a ghost, the videos of a
slot that had a caption at hand all the while.

### Discovery, AgentCall, Reporting

`Discovery` keeps the order of the code: the ranking is stored before the
question which product is meant is asked, so an answer changes what it means
(`Effective`).  `AgentCall` is one task through its attempts; the worker of an
attempt whose lease lapsed goes on beside the next one.  An output that was
refused is named by its attempt, which stands for `invalid_output_hash`, and
`past` is a ghost: who was beyond the look for a cancellation when it came.
`Reporting` sees claims, not sentences: a source proposes claims, some of
which its transcript contains; findings cite claims; an auditor answers with
positions in the lists it was sent (`prompt`).

### Publication and Access

`Publication` abstracts the run to how its tasks stand and to the report
`_finalize_run` has in hand (`final`); `late` is a ghost, whether the report
was revoked before a request began.  `Access` keeps whole ticks of one clock
for windows, locks, idle and absolute expiry.

### Knowledge, Configuration, Catalog

A Markdown file is written inside the transaction that creates its row, and is
not undone with it: `Write` and `Commit` or `RollBack` are separate.  The lock
of the workspace row is `lock`; relations are inserted without it.
`Configuration` has drafts and published versions of agents and workflows, an
administrator's request between its load and its write, and a job between the
suite and its result; `passed` is a ghost, what passed a complete suite.
`Catalog` keeps every refresh with the moment its list was received.  A policy
is validated in steps, as `validate_model_policy` reads without a lock and each
statement sees what has been committed by then: the refresh that counts for the
list of models (`BeginValidation`), whether it is stale (`Judge`), the same for
each model in turn (`FindEndpoints`, `Judge`), and the commit after all of them
(`PublishPolicy`).  Refreshes go on between any two.  The rows of the list of
models are the models that produce text, those of a model the providers that
serve it as the policy demands.  `began` and `known` of `validation` are ghosts:
when it began, and what was over by then.

### Schema

A schema is a set of objects: tables, functions, triggers, and the columns,
checks, indexes and references that a migration adds to or drops from an
existing table.  `CREATE`, `ALTER` and `DROP` are refused as PostgreSQL
refuses them (`Accepted`: missing parents, dependent objects, duplicates), and
the guards of two downgrades look at rows (`Guard`, `UndoClarification`).
Every command walks the chain of eleven revisions from where it is to any
other.  The rules the triggers put on rows are the operators of `RowRules`;
`MCComponents` and three of the proof modules apply them to the rows of the
other components.

## 3. What the runs check

| Run | Question | Instance |
|---|---|---|
| `workflow` | Are dependency modes respected, is anything left hanging when tasks fail, time out, exhaust the budget or are cancelled, is a cancellation final, and does the run implement `RunPromise`? | gate, two sources, fan-in re-audit, publisher; one source may be tried twice; one manual retry; rolled back transactions |
| `deliveries` | Can two workers hold a task, can a dispatch get lost, is a result accepted twice? | re-audit (two attempts) and publisher, two relay passes, crashes, duplicates, lapsed leases, soft limits |
| `recovery` | Does every run end, is every cancellation carried out, does every committed report surface? | gate and publisher, crashes, duplicates, all deadlines |
| `stream` | Does a follower see every event once, in order, to a connection that ends; is the mirror in order, is every event published? | three events, pages and stream of two, two faults; one relay and a browser, or two relays that crash and whose leases lapse |
| `budget_days` | Do the cap without a row and the daily cap hold, is every reservation settled? | two tasks of one agent of a public run, two days |
| `admission` | Do overlapping requests respect keys, windows, concurrency and queue, does an orderly failure give its quota back, is `retry_at` late enough? | three requests, hour of one tick and day of two, limits of one or two, one fault |
| `tools` | Is quota accounted for, do results agree with the record, does every call end? | two attempts, one slot, quota of two units, two days |
| `components` | The properties of the components below | see below |
| `rearm_race`, `partial_retry`, `caption_age`, `late_review` | findings, see section 6 | two to four tasks; one video; two sources |

`components` explores thirteen components one at a time (the variable
`scenario` is chosen once, and only its component moves), because they share
no state.  Its properties are those of the components, some of them joined:

| Property | Component and instance | What it joins |
|---|---|---|
| `WorkflowHolds` | all graphs of four tasks; the shipped workflow, three sources | `DependencyWalk!WalksAgree`, `ShippedWorkflow!WorkflowHolds` |
| `CoverageKept` | two slots over two videos, two routes, a clock of three ticks | |
| `KnowledgeHolds` | two writers, two nodes, damaged files and failing rebuilds | `BodiesAvailable`, `PublishedIsProjected` |
| `ConfigurationHolds` | two agents, two workflows, one administrator, one job worker | `PublishedIsEvaluated`, `RunsReproducible` |
| `BudgetHolds` | two calls of an evaluation run, two requests each, crashes | `LedgersAgree`, `WithinLimits` |
| `ReportHolds` | sources of one and two claims, three findings | `ReportGrounded`, `RefusalsLast` |
| `RevocationHolds` | two readers, retries and conclusions without end | |
| `SessionsSound` | two sign-ins, one request, a lock after one failure | |
| `QueuesShareOut` | four videos, two products, two slots | |
| `CallsFollowUp` | two attempts and one more by an administrator | `CorrectionsFollow`, `CallsStop` |
| `ValidatedByNewest` | one model, a scheduled and an administrative refresher, three refreshes beside a validation of five steps | |
| `PlatformHolds` | every walk along eleven revisions | `Schema!SchemaHolds` |
| `HistoryKept` | all of them | the triggers' rules on every row (`RowsAccepted`), `OwnerKept`, `PriorIsReplaced` |

**Why the bounds are enough.**  Two attempts show a lapsed one beside a live
one; a third adds a copy of the first.  Two relay passes can hold one row, or
two neighbouring ones.  The five-task workflow has each shape the default one
has: a gate before everything, siblings that may fail independently, a fan-in
of mode `all_terminal_min_success`, and a publisher below both the fan-in and
its upstreams.  For the evaluation itself no shape is left out at four tasks,
and `ShippedWorkflow` runs the default one itself, with the fewest sources a
request may ask for; sources are alike, so a fourth adds nothing that the
second and third do not show to the first.  With comments the sources are
worked on one after the other (`Freely`): all interleavings of their 29 tasks
are too many, and sources meet only in the tasks that wait for all of them.
The stream is longer than a page and than the maximum length, so
that reads span pages and trimming happens; two faults let one hit the handling
of another.  In the budget runs every limit has room for one estimate and not
for two, which is the case concurrent reservations get wrong; usage above and
below the estimate both occur.  In the admission run the hourly and daily
limits are two with three requests, so a window can be overrun by one; two
ticks let a reservation be younger than its transaction and both windows end
at different times.  In `tools` one slot and two units make both limits bite,
and one of two attempts is `Fragile`.  In `components` every component has two
of whatever races: two writers, readers, sign-ins, slots, refreshers, or an
administrator beside a job.  For `Configuration` that is one session and one
execution of a job: two activations at once, and two executions of one job, are
in its theorems only (`PriorsAreReplaced`, `PublicationsPassed`), which hold for
any number of both.  `MaxRetries`, `MaxRelays`, `MaxEvents`,
`MaxFaults`, `MaxAttempts`, `MaxManual`, `MaxTries`, `MaxTime`, `Days`,
`Lookups`, `MaxVersions`, `MaxLinks`, `MaxMessages`, `MaxRuns`, `MaxRefreshes`, `Size`,
`Fragile`, `Freely` and `LateRetry` are the only bounds.

**Deadlock** is not checked: a run that has ended, a stream that is closed, a
call that is settled, a request that is answered and a report that is
published really stop.  That nothing stops too early is what the liveness
properties and `HasWorkUntilRetried`, `NoLostDispatch` and `RunConcludes` say.

**Fairness.**  `Runtime.FairSpec`: the beat starts the relay every two seconds
and the recovery at an interval, so their steps are weakly fair; a relay claims
due rows in order of `next_attempt_at`, so no row is passed over for ever, and
a relay does not die at the same row for ever: claim, check and send of one
row are strongly fair.  A handler ends because the soft and hard time limits
end it.  Nothing is assumed of users, and no fault is ever required to happen.
`ProgressStream.FairSpec`: relay passes and the loops of the endpoint and the
browser go on, each row is claimed if it is due again and again; the browser
need not poll.  `Budget.FairSpec`: a request ends, if only by its timeout; the
sweep and the claim of pending generations run every minute, and a generation
that is asked about again and again comes of age (`SF` on `GiveUp`).
`ToolCalls.FairSpec`: a live worker goes on with its call, whose waits are
bounded; an attempt whose worker died or that is cancelled is ended by the
runtime; the recovery of invocations runs periodically.

**Action coverage.**  Between them the passing runs fire every action; the
faults of each run are chosen for its question, because a run with all of them
is too large to explore and would answer no question better.

## 4. Properties worth knowing

* `NoLostDispatch` relates the task table to the outbox and the broker: every
  queued task of a live run has a row still to be sent or a message waiting.
* `OneLiveAttempt` says an attempt runs exactly when its task is running or
  being cancelled, and that it is the latest one.
* `KeepsPromise` is refinement: under `phase <- run`, `accepted <- succeeded
  tasks`, `published <- report` every step of `Runtime` is a step of
  `RunPromise` or a stutter.
* `ReportSurfaces`: the report is committed by the publisher's tool before its
  attempt completes, so a crash between the two must not hide it.
* `SourcesStandAlone` and `ReportIsLast` (in `WorkflowHolds`): of a shipped
  workflow a task is skipped only for a failure of its own source or of a task
  of the whole run, the run fails only for the latter or when no source was
  reviewed, and the publisher starts when nothing can add to it any more.
* `NoGap` says `read_progress` never returns a page the browser would have to
  refuse, whatever Redis lost; `ClosedIsComplete` that a connection which was
  told "done" has had everything (unless a retry has reopened the run).
* `CapsHold` and `DayWithinCap` say by how much, and why only by that much, a
  limit can be exceeded: usage above the estimate, and reservations booked on
  the wrong side of midnight.
* `AdmissionWindow`: two counters guard each window, and each can be wrong.
  PostgreSQL dates a submission by the start of its transaction, which may have
  waited for the lock; Redis can lose reservations.  A window is overrun only
  by as much as *both* are wrong.
* `RetryAtIsEnough`: of several full windows in two stores the latest reset
  time counts, and then there is room in all of them.
* `QuotaAccounted`: units that nothing will ever return to the bucket are at
  most one per call, of a call that timed out, lost its worker or met an
  exception nobody handles (section 6).  Whatever a call has booked that
  succeeded, was refused or cancelled or failed with an error of its own is
  settled, over all its requests and tries.
* `ValidatedByNewest`: the lists of a policy are read one after the other while
  refreshes overlap, are stored out of order, fail and die.  Of what was over
  when the validation began, nothing is missed: a list fetched first and stored
  last does not hide the newer one, and a failure of the attempt begun last is
  seen although an older attempt ended after it.
* `PublishedIsEvaluated`: nothing is published that did not pass a complete
  suite with exactly the content it has, though edits, publications and
  evaluations of an older content overlap.
* `ReportGrounded` and `RefusalsLast`: every published finding rests on
  quotations of one source, and nothing an audit refused is published.
* `RowsAccepted` (in `HistoryKept`) joins the components with the database: no
  step of theirs changes a row in a way a trigger refuses, where the code does
  not expect it to.  What it says of each component is proved on its own
  (`SettledRowsStay`, `OverIsOver`, `PublishedVersionsStay`).

## 5. What is proved

All proofs are for every value of the constants, from the named assumptions
of the module alone, which TLC evaluates in the runs; a theorem that needs
more of them states it as its hypothesis.

`RuntimeProofs` proves for every workflow graph, every retry policy, every
number of relay passes and manual retries and every combination of faults,
from `GraphAssumption` and `RuntimeAssumption`:

| Theorem | Statement |
|---|---|
| `TypeCorrect` | `Spec => []TypeOK` |
| `NumberingHolds` | `Spec => []Numbering` |
| `SingleExecution` | `Spec => []OneLiveAttempt` |
| `AttemptsNeverRewritten` | `Spec => AttemptsImmutable` |
| `CancellationIsFinal` | `Spec => CancelIsFinal` |
| `ResultsStayAccepted` | `Spec => SuccessIsFinal` |
| `DependenciesAlwaysHold` | `Spec => []DependenciesHold` |
| `StatusesFit` | `Spec => []FlowInv` |
| `MovesAreLegal` | `Spec => LegalTransitions` |
| `ResultsAcceptedOnce` | `Spec => []OneAcceptedResult` |
| `RunsEndInOrder` | `GateSeparates => (Spec => []EndsInOrder)` |
| `DispatchesArrive` | `GateSeparates /\ "abort" \notin Faults => (Spec => [](retries = 0 => NoLostDispatch))` |
| `WorkUntilRetried` | `GateSeparates /\ Attainable => (Spec => []HasWorkUntilRetried)` |
| `PromiseKept` | `GateSeparates /\ "lease" \notin Faults => (Spec => KeepsPromise)` |

The inductive invariant is `IInv == TypeInv /\ OneLiveAttempt` with
`TypeInv == TypeOK /\ Numbering`.  `TypeOK` alone is not inductive: that
`EXCEPT ![t][n]` stays a sequence needs that `n` is a row that exists, which
is what `Numbering` says of everything in flight; `Numbering` is kept because
a claim appends exactly the attempt its delivery names and a dispatch is added
only where the next one is missing, and needs the types to say so.
`OneLiveAttempt` needs both, because the recovery ends `attempts[t][Current(t)]`
and a completion ends `attempts[t][n]` for the `n` of a message.  The lemmas
about `Skip`, `EvaluateDependents` and `ResetSkipped` (`EvaluateMoves`,
`ResetMoves`) say which statuses a task may get from an evaluation; the action
lemmas are split as `Relay`, `Worker`, `Recovery` and `Operator` are.
`SuccessIsFinal` and `CancelIsFinal` follow from the invariant and, for the
latter, from `CancelledIsIdle`: when a run is cancelled none of its tasks is
executing, so that no completion can queue anything.

The later theorems build on `FlowInv`, which adds to `IInv` what the statuses
of the run and of its tasks say of each other: a task is `cancelling` only in a
run that is, the question is open exactly when the run and one task of the gate
wait for it, and nothing executes in a queued run.  `MovesAreLegal` and
`ResultsAcceptedOnce` follow from it.  The last four need more of the graph:

* `GateSeparates`: whatever is not an ancestor of the gate is behind it, and
  what is before it needs all its upstreams.  Without it the code does
  something else: `expire_pending` fails a run beside whose gate a task
  executes, and leaves it executing, and the relay drops a dispatch while the
  run waits for the answer (section 6).  With it, a question that is open
  means that everything before the gate has succeeded and nothing behind it has
  begun (`GateAlone`), so neither has anything to leave or to drop.
* `Attainable`: no fan-in asks for more successes than it has upstreams
  (section 6 again).  Then a task that is skipped has an upstream that failed
  or was skipped, so that, the graph being acyclic, blocked tasks alone cannot
  be all that is left of a live run (`WorkInv`).

The shipped workflow has both (its gate follows tasks that need all their
upstreams and precedes all others, and its fan-ins ask for one success), and
`MCRuntime` checks both of the graphs of the runs (`InstancesAreShaped`).
That no worker transaction is aborted, that no lease lapses under a worker
which goes on, and that nobody has retried a task are hypotheses because the
code does lose a dispatch, publish a report of a failed run and strand a run
otherwise (section 6).  `PromiseKept` is step simulation: every action is one
of the steps of `RunPromise`, or none, under `phase <- run`,
`accepted <- succeeded tasks`, `published <- report`; what a worker that is
not yet done may still publish (`Manned`, `Reported`) is its part of the
invariant.

`AdmissionProofs` proves of `Admission`, for every set of requests, sessions,
addresses and keys, every policy, every length of the windows and every
combination of faults, from `AdmissionAssumption`:

| Theorem | Statement |
|---|---|
| `AdmissionTypeCorrect` | `Spec => []TypeOK` |
| `KeysNeverCollide` | `Spec => []NoKeyCollision` |
| `LimitsHold` | `Spec => []RunsWithinLimits` |
| `QuotaNeverLeaks` | `Spec => []NoLeak` |
| `WindowsHold` | `Spec => []AdmissionWindow` |
| `RetryTimeIsEnough` | `PerHour > 0 /\ PerDay > 0 => (Spec => []RetryAtIsEnough)` |

Its inductive invariant carries what a request has seen under the lock: that
its key is free (`KeyFree`) and that queue and session have room
(`RoomChecked`).  Both survive the steps of others because only a commit adds
a run (`RunsKept`), a commit gives the lock away, and there is one holder
(`LockStep`).  `RunsWithinLimits` alone is not inductive for a second reason:
a manual retry raises the count and the allowance only the first time, so the
invariant bounds the runs that were never reopened (`Admitted`).  For
`AdmissionWindow` it takes the two counters apart: Redis lets no window
overflow with reservations it remembers (`TokensFit`), PostgreSQL none with
runs it dates when they were admitted (`RowsFit`, with what the holder of the
lock has checked, `RowsChecked`), so that an excess is made of runs that each
of them misses.  `RetryTimeIsEnough` is a fact about windows: after the latest of the times at which one entry too
many leaves, each window has room.  It needs limits above zero, since a limit
of zero, which the configuration allows (`admin/configuration.py:40`), never
has room and gives no time.

`BudgetProofs` proves of `Budget`, for any finite sets of runs, calls, caps
and resources, any estimates, limits and number of days, from
`BudgetAssumption`:

| Theorem | Statement |
|---|---|
| `BooksTypes` | `Spec => []TypeOK` |
| `RowsAreSums` | `Spec => []LedgersAgree` |
| `RunsStayWithinLimits` | `Spec => []WithinLimits` |
| `CapsAreKept` | `Spec => []CapsHold` |
| `DaysStayWithinCap` | `Spec => []DayWithinCap` |
| `SettledRowsStay` | no step of `Spec` breaks `ReservationRule` or `UsageRule` |

A ledger is a sum over the reservations it stands for, so each step is shown
to change one summand (`SumChange`) and the row by the same amount
(`LedgersAgree`, with `Filled` and `Unused`: what a reservation that was never
made or never settled has used is nothing).  Then the limits follow one after
the other: a check that passed had room for the estimate, and a settlement
replaces an estimate by what was used, the excess of which is the `Overage`.
The daily cap is different, because the row is moved at the date of creation
and the estimate was booked on another: `DayInv` bounds what is open by the
row and by the estimates that were released on the wrong day (`Stray`), and
the row by the largest cap and what went past it.  A settled row stays as it
is because whoever settles (an answer, the sweep, the reconciliation) looks at
the reservation in the same transaction, and its usage event is pending as long
as the reservation is open (`UsageFits`).

`ToolCallsProofs` proves of `ToolCalls`, for any finite set of calls, any
buckets, limits and number of days, from `ToolAssumption`, whatever deadlines
and exceptions leave a unit reserved:

| Theorem | Statement |
|---|---|
| `ToolTypes` | `Spec => []TypeOK` |
| `QuotaIsAccounted` | `Spec => []QuotaAccounted` |
| `ResultsAreRecorded` | `Spec => []ResultsRecorded` |

`PoolInv` says of every bucket and day what the counters are, `OpenInv` where
an open unit comes from: of a call in flight it is on the day it was booked,
and no other day has one.  Results and slots need what a live attempt means:
its calls are recorded as running while they are under way, since recovery
closes only invocations of attempts that ended (`RecordInv`, `SlotInv`).

`Sums` has the lemmas about `SumFunctionOnSet` both use: its type, what one
changed summand changes, sums of sums, of zeros, and over parts.  The library
states induction over finite sets only with an operator as hypothesis; here it
is an argument about the least number for which a claim would fail
(`LeastExists`, `Climb`), the claim being a set of numbers.

`ComponentProofs` proves of `Publication`, for any number of requests and
users, `RevocationIsFinal` (`Spec => []RevocationHolds`) and `RunKeepsOwner`
(`Spec => OwnerKept`).  The invariant adds that a request which has found an
open publication began before the revocation (`FoundInTime`): only then may it
still be answered.

It proves of `Access`, for any number of sign-ins and requests and
any throttle and lifetimes, `SessionsAreSound` (`Spec => SessionsSound`), from
`AccessAssumption`.  Three facts are carried: a sign-in that has not finished
has its session still to open and, if its copy of the account is current, saw
no lock later than its reading (`LoginInv`); idle expiries are within the
absolute ones (`ExpiryInv`), also those a request is about to write
(`TouchInv`).

It proves of `AgentCall`, for any number of attempts and of
retries, `CorrectionsAreTrue` (`Spec => []CallsFollowUp`).  What an attempt was
told to correct stays true because an attempt that is not over is the latest
one (`OnlyLast`): the attempt before it is over, and a late worker of that one
changes nothing.

It proves of `Knowledge`, for any number of writers, nodes and versions and
every combination of faults, `BodiesStay` (`Spec => []BodiesAvailable`) and
`PublishedStays` (`Spec => []PublishedIsProjected`), from
`KnowledgeAssumption`.  A transaction that has written holds the lock of the
workspace and its versions come right after the current ones (`WritersInv`),
so that its files are not those of a committed version and a commit adds
versions without touching any (`CommitAdds`).  A rebuild holds the same lock:
what it has read is still all that is committed when it marks the outbox
(`RebuildInv`).

It proves of `Catalog`, for any number of refreshers, models and refreshes and
any limit of staleness, `PoliciesOnTheNewest` (`Spec => ValidatedByNewest`),
from `CatalogAssumption`.  The invariant has three parts.  A list counts from
the moment it was received, whenever it was stored (`CatalogInv`).  A refresh in
hand runs and is in no other hand (`InHand`), so that a refresh that is over
stays as it is (`RefreshesRecorded`).  And what a validation has read is right
for what it knew when it began (`ReadInv`): each list it has found was the
newest (`NewestRead`), each target it has judged was up to date or was
acknowledged (`RightlyJudged`); since what is known does not change, that
outlives whatever refreshes do before the commit (`ReadingStays`).  The steps of
the reads rest on two facts about orders: the newest list exists (`LatestIs`),
and a failure which nobody has followed up would be the attempt begun last
(`AttemptIs`).

It proves of `Reporting`, for any sources, claims and findings, from
`ReportingAssumption`, `ReportIsGrounded` (`Spec => []ReportGrounded`) and
`RefusalsAreLast` (`~LateRetry => (Spec => []RefusalsLast)`).  `ReportInv` says
what each output is made of: a list of reviews was read from rows that have
only grown since (`ListOf`), whatever an audit calls safe is worded as its
quotations are and cites one review of the draft (`Grounded`), a correction of
a draft that passed is the draft itself, and the gate publishes the second
audit (`GateInv`).  That suffices for the first theorem, retried reviews or
not.  The second needs that everybody read the same reviews (`SameReviews`),
because a position then means the same claim in the prompt and in the draft
and no claim stands at two positions (`ClaimsApart`); `RefusalInv` follows the
refusals to the end.  Without `~LateRetry` it is false, which is what the run
`late_review` shows.

It proves of `Captions`, for any queues, routes and lifetime of the cache and
as many slots as one lookup takes nodes, `CoverageIsKept`
(`Spec => []CoverageKept`), from `CaptionAssumption`.
`CaptionInv` says that what a slot was offered is at hand still
(`OffersStand`) and is not among the videos it has passed (`PassedNone`): a
slot passes a video only after a look that found nothing, and a caption that
disappears, or grows old, ceases to count.

It proves of `Discovery`, for any videos, products and answers of a search and
any number of slots, `QueuesAreShared` (`Spec => []QueuesShareOut`), from
`DiscoveryAssumption`.  `DiscoveryInv` is short: what is excluded was excluded
for the product that was asked for, and the queues are dealt from the curated
rest.  The work is in what the operators compute: `KeptIs` (a video the
ranking keeps is like none it kept before it, and one it refuses is unfit or
like one it kept), `BalancedIs` (an order has each allowed video once), and
that the slices `ordered[index::requested]` partition a sequence into shares
that differ by one at most (`DealtOnce`, `DealtSomewhere`, `DealtEvenly`, with
the arithmetic of `Multiples`, `Division` and `Quotient`).

`OverIsOver` is about three of them: no step of `Publication` takes a
revocation back, none of `AgentCall` changes an attempt that is over, and none
of `Catalog` a refresh that ended (`RowRules`).  The triggers would refuse it,
and the transaction would fail where no code expects it.  A late worker finds
its attempt over; a refresh in the hands of a process still runs and is in
nobody else's (`InHand`).

`ProgressProofs` proves of `ProgressStream`, for any number of relays and
browsers, any page and stream length and every combination of faults, from
`ProgressAssumption`:

| Theorem | Statement |
|---|---|
| `ReadsHaveNoGap` | `Spec => []NoGap` |
| `ClosedAfterTheLast` | `Spec => []ClosedIsComplete` |
| `StreamMirrorsProgress` | `Spec => []MirrorInOrder` |

The first two rest on `Reading`, which says nothing of Redis: what a
connection holds never runs ahead of the run, a batch follows the cursor, and
the status and sequence read from a run that had ended are still those of the
run.  `InOrderIs` shows that a page which passes the check of `read_progress`
is the sequence right after the cursor.  The third rests on `Mirror`, which
holds until Redis loses something: a relay past its check has every earlier
event published, so that what it adds comes right after the last id, and a
trimmed suffix is a suffix (`XAddKeeps`).

`ConfigurationProofs` proves of `Configuration`, for any number of
administrators, workers, versions and contents, from
`ConfigurationAssumption`:

| Theorem | Statement |
|---|---|
| `PublicationsPassed` | `Spec => []PublishedIsEvaluated` |
| `SnapshotsStay` | `Spec => []RunsReproducible` |
| `PriorsAreReplaced` | `Spec => PriorIsReplaced` |
| `PublishedVersionsStay` | no step of `Spec` breaks `VersionRule` |

A request that is still fresh sees the row as it is: a draft no one has
published since (`EditsFit`), the version that is active (`ActivationsFit`).
What an evaluation names, and what a worker is about to write, passed the
suite (`EvaluationsFit`, `VerdictFits`).  `StepsKeep` reduces every action to
what it does to the rows of agents, workflows, runs, requests and executions.

**Only model-checked.**  Liveness under fairness and everything that needs
`ENABLED` (`RunEnds`, `CancelEnds`, `ReportSurfaces`, `EventsPublished`,
`FollowedStreamCloses`, `EverySettled`, `CallsEnd`); what a recursive definition
computes (`DependencyWalk` and `Schema`, whose `RECURSIVE` operators stay out
of the modules that are proved about); `ShippedWorkflow`, which folds a literal
list of templates into one graph, while `RuntimeProofs` is about every graph;
and that this graph has `GateSeparates` and `Attainable`, which is read off
`ShippedWorkflow` and not computed.  `AgeKept` (`caption_age`), and
`RefusalsLast` with late retries, are false.

## 6. Findings and known limits

Runs that show the code departing from what it or its tests say:

* `rearm_race`: `retry_task` re-arms a dispatch row only if it is `published`.
  If a relay has claimed the row and not marked it yet, the row stays
  `processing`, is then marked `published`, and the re-queued task has neither
  a message nor a row that the repair would add.
* `partial_retry`: retrying one of two failed branches puts every skipped
  descendant back to `blocked`, also one that depends on the branch that is
  not retried.  Nothing evaluates it again, and the run stays running.
* `caption_age`: a caption served from the cache is looked up a second time to
  learn its age.  When the entry expires in between, the caption is stamped
  with the present time and is used for a whole period again.
* `late_review`: the audit names positions of the reviews that were stored
  when it was asked, and is applied to the reviews of the draft.  When an
  administrator retries a failed review in between, the positions shift: a
  claim the auditor refused is published.

Further limits met while modelling, which the runs leave out on purpose or do
not state:

* A claim transaction that the database aborts is acknowledged, and its
  dispatch row is already published: the repair finds the row and sends
  nothing.  With `"abort"` in its `Faults`, `NoLostDispatch` fails; the
  deliveries run leaves it out.
* A task *beside* the product gate whose dispatch is relayed while the run
  waits for an answer is dropped by the relay (`runtime/outbox.py:157`), and
  nothing sends it after the answer; one that executes when the answer is
  overdue stays so in the failed run (`expire_pending`).  In the shipped
  workflow everything is before or behind the gate (`GateSeparates`), and so it
  is in `MCRuntime`.
* Nothing compares the `minimum_successes` of a fan-in with the number of its
  upstreams (`contracts.py:182`, `:200`).  A fan-in that asks for more than it
  has is skipped when all of them succeeded, and with it all that follows; the
  run then stays as it is.  The graphs of the runs are `Attainable`.
* A limit of zero per hour or day is allowed and refuses every request, with a
  `retry_at` of the other window or none (`public/admission.py:170`).
* A paid call in flight when another one met a 401 or 402 reports its own
  outcome afterwards and lifts the block (`llmops/accounting.py:93`,
  `Budget.ReportSuccess`), so that paid calls go on without an operator.
* The report is written without looking at the attempt
  (`analysis/executor.py:2014`).  With `"lease"` in its `Faults` a publisher
  that lost its lease may commit a report after the run has failed; `recovery`
  leaves the fault out.
* A refused public projection rolls back the conclusion of its run
  (`runtime/service.py:1145`), and so does every later attempt.
* `compatible_request_policy` restricts a request to the union of the
  providers of all its models, although its docstring speaks of the endpoints
  that were validated (`llmops/policies.py:112`): a provider that serves one
  model may be offered for another.
* A request to YouTube that ends by an httpx error which is neither a timeout
  nor a network error (a server that disconnects, a proxy, an encoding) settles
  nothing (`tools/youtube.py:219`), and neither does a call that meets its
  deadline in a request: the unit stays reserved until the quota day ends, and
  with the first kind the call is recorded as failed (`tools/runner.py:401`).
  `QuotaAccounted` bounds it by one unit per such call.
* A refresh that is stored, or fails, after the validation of a policy has read
  its target is not seen by the publication (`llmops/policies.py:73`): the
  policy may be published on a list that has just been replaced.
  `ValidatedByNewest` is about what was over when the validation began.
* `bootstrap_caption` looks at the eight newest nodes of a video
  (`tools/caption_cache.py:112`).  When more have been made, a node that could
  still be used may be beyond them; `CaptionAssumption` has no more slots than
  that (`Lookups`).
* The alert on queued work counts from the creation of a task, not from the
  moment it was queued (`platform/alerts.py:163`): a task that was blocked for
  long raises it at once.

## 7. Not modelled, and why

* Row-lock order and deadlocks inside PostgreSQL: below the granularity of an
  action.  A victim is rolled back, which is the fault `"abort"`.
* Contents: prompts, sentences, scores, the text of a report.  A claim, a
  finding, a video or a body is a value; a handler is its outcome.
* Time: leases, back-off and deadlines are choices; only admission, captions,
  quota, sessions and the catalog need a clock, with whole ticks.
* The Redis dispatch lock of the relay: it keeps concurrent passes rare and
  is not relied on for correctness (the row lease is); `MaxRelays = 2` is the
  case in which it expired.
* Of workflow definitions: the refusal of cycles and unknown keys.
  Definitions other than the shipped one have the graphs of the runtime runs.
* Of admission: the cost estimate and the daily cap (a refusal at any time),
  an administrator's request, which skips every limit, a change of policy
  between two requests.
* Of tools: the rules that authorise a call.  Of the knowledge graph: the
  vector projection, exports and the retrieval of context.  Of administration:
  retention, retirement and cutover.  Of reports: what a projection shows.
* Of the schema: types, defaults and the checks that come with a table.
* Pure functions over text (spans, quantities, product attributes, intent):
  they keep no state and run alone; unit tests reach them.
* Health checks, alerts, rendering, command line, offline scripts, most of the
  frontend, deployment: they keep no state a property could be about.

## 8. Plan

What would add most, in this order.

1. `Publication` composed with `Runtime`: the refused projection under
   recovery and deadline, and what a superseded publisher may write.
2. The order of row locks in `retry_task`, completion and recovery as steps of
   their own, with the victim of a deadlock.
3. Retention and retirement beside runs that still refer to what they delete.
4. The spans and quantities of `analysis/` as pure algorithms.

