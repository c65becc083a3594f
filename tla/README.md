# The Orbit Kernel in TLA+

The Orbit Kernel (`src/`) is one asyncio process in front of one Postgres: every
request of every company passes through `/kernel/v1/execute`, an Intelligence
Engine runs in the same process, and an Admin Control Panel changes the same
tables from another gateway. There are no threads and no queues; what makes the
program hard is that every `await` is a place where another request, the
scheduler or an operator may run, that nearly every statement is a transaction of
its own, and that the process may stop between any two of them. The modules here
model that: one action is the code between two awaits that reach Postgres.

Parts: [inventory](#inventory), [modules](#modules), [runs](#runs),
[fairness](#fairness), [proofs](#proofs),
[where the documents and the code part](#where-the-documents-and-the-code-part),
[what is not modelled](#what-is-not-modelled), [what is left to prove](#what-is-left-to-prove).

## Inventory

| Component | State | Operations | Hard behaviour | What makes it correct |
|---|---|---|---|---|
| Blueprint versions (`company_blueprint/version_manager.py`) | `company_blueprints`, one row per company; `company_blueprint_versions`, its history | publish, restore, list, get, compare | concurrent publishes number their versions with `version + 1`, and no constraint separates them | the history is 1, 2, 3, ... and only grows, the active row is its last entry, a restore republishes what was asked for |
| Blueprint loader (`loader.py`) | `_cache`, a dictionary of the process | load, invalidate | a fetch overtaken by a publish; keys of two types; the cache is lost with the process | nothing uncommitted is ever served, and an outdated Blueprint only through a fetch that a publish overtook |
| Blueprint handlers (`workflow_engine/engine.py:205-294`) | the Blueprint's automation in `workflow_definitions`, `events`, `intelligence_status` | blueprint.create, blueprint.restore | five steps after the commit, any of which may fail or be interleaved | an activation follows its event, leftovers of a race are bounded, every request ends |
| Company resolver, onboarding (`company_resolver/`) | `users`, `companies`, `company_members` | resolve, create_company_and_owner | four reads while operators throw switches | a switch thrown before a request holds for it, nobody is refused without cause, a company has its founder |
| Permission engine (`permission_engine/engine.py`) | `company_members` | resolve | the membership changes between the choice of the company and this read | the context holds a role of this very request |
| Request router, Kernel API (`request_router/`, `kernel_api/routes.py`, `context.py`) | - | execute, identity/resolve, health | change and audit record are two commits | a write has an author who was entitled to it |
| Auth routes, Supabase client (`kernel_api/auth_routes.py`, `shared/auth/`) | Supabase identities | signup, login, refresh, logout | signup spans Supabase and Postgres | identity, account, company and membership belong together |
| Subscriptions, admin routes (`admin/subscriptions.py`, `kernel_api/admin_routes.py`) | `company_subscriptions`, `is_active` of users and companies | grant, cancel, is_blocked, set status | check and insert are two commits; periods lapse | a lapsed company is refused, one that never had a subscription is not |
| Admin auth, error log, usage (`admin/auth.py`, `error_logger.py`, `usage_tracker.py`) | `admin_users`, tokens, logs | login, verify, record | lock-outs and expiry | - |
| Connection pool, security alerts (`shared/db.py`, `admin/security_alerts.py`) | asyncpg's pool | acquire, release, record | an acquire nested in an acquire, without a timeout | no connection is lost, nobody waits for ever |
| Workflow engine, other workflows (`workflow_engine/engine.py`) | ledger, providers, integrations, mappings, schemas, endpoints, API keys, members | about forty handlers | several commits per handler, a row read in one statement and written in the next | what a failure leaves is a beginning, a test does not outlive the row it read by more than itself, a secret is shown to one request |
| Automations, Rule Engine (`workflow_engine/automation.py`, `rule_engine/engine.py`) | `workflow_definitions`, `automation_runs` | create, delete, evaluate_and_run; pure rules | a definition is deleted between its listing and its run | every matching definition runs once |
| Event bus (`event_bus/bus.py`) | `events`, the subscribers | publish, subscribe | handlers are awaited inside the publisher; an event is a statement after the change it tells | an event is stored before anyone acts on it |
| Financial graph (`financial_graph/graph.py`) | `accounts`, `ledger_transactions` | ensure_default_account, record_transaction, balances, insight queries | check then insert; an average read before the insert | one default account; balances add up |
| Intelligence manager and cycle (`intelligence_engine/`) | `intelligence_status`, `_metrics`, `_knowledge_edges`, `_notifications`, `_recommendations`, `_reports`, and `cache_manager._cache` | activate, run_cycle, generate_report, get_dashboard | cycles of one company overlap each other, new transactions and dashboard reads | duplicates are bounded, dashboards age out, every transaction is analysed |
| Intelligence scheduler (`intelligence_engine/scheduler.py`) | `intelligence_job_runs` | a tick every 60 s over companies and jobs | one exception ends the tick, a crash separates report and mark | a due job waits a bounded time, reports keep their interval |
| Blueprint validation (`company_blueprint/validator.py`) | - | validate_blueprint_input | runs again on a restored snapshot | what it returned it accepts and returns unchanged |
| Analysis, health, forecasting (`analysis_engine.py`, `health_engine.py`, `forecasting_engine.py`) | - | pure functions of seven separate reads of the ledger | the reads are of different moments, and three modules repeat the same queries | agree with each other when nothing happens in between |
| Connector generator, tester, connector intelligence (`company_blueprint/connector_*.py`, `intelligence_engine/connector_intelligence.py`) | `connector_preferences`; the file a company runs at a URL of its own | generate, test, remember, forget, gather | four generated languages, two programs that call the result and share no code; the file may be replaced between two calls, a call may be lost | a test predicts what a Compile reads, a finding rests on rows that were read |
| Mappings, schemas, API generator, security engine, encryption (`company_blueprint/`) | `data_mappings`, `event_schemas`, `event_schema_versions`, `company_endpoints` | get_or_create, rotate, apply, validate, overview | check then insert; a key that changes with a restart; an overview of several reads | one secret, revealed once; a schema keeps its versions; an overview does not contradict itself |
| SDK and document generators | - | render text | - | - |
| Provider manager and adapters, integration manager, marketplace | `provider_connections`, `business_system_connections`, `company_installed_apps` | connect, test, sync, disconnect, catalogues | the row says connected before the history is recorded; a test's result is written after the row changed | status, health and last sync agree with what happened |
| Plugin manager, country packages | tables of data loaded at start | load, get | a package that does not load | it takes no other down with it |
| Replay, insights | - | pure functions of the ledger | own copies of the same queries | agree with the forecast and the findings |
| Stubs (`service_registry`, `metrics`, `scheduler`, `feature_flags`, `enterprise`) | - | - | - | - |

How they interact. `routes.execute` asks the request router for a context, which
is the company resolver (which asks the subscriptions and may record a security
alert) followed by the permission engine; it then runs one workflow and finally
writes the audit record. A workflow that publishes a Blueprint calls the version
manager, the loader, the automations and the event bus in turn. The event bus
awaits its subscribers inside the publishing request; the only ones are the
Intelligence Engine's observers (`OBSERVED_EVENTS`, `observer.py:28-56`), which
activate the company (`blueprint.published`) or run a whole cycle (every other
observed event: a transaction recorded by hand, an import, a provider or a
business system connected or disconnected, a Blueprint restored, a workflow, a
mapping or a schema saved, a replay) and swallow what goes wrong. The scheduler
calls the same cycle from a task of its own. All of them share the pool, the
loader's cache and the dashboard cache.

## Modules

Every module is about one company where the code keys everything by company
(Blueprint, Intelligence), and about all of them where companies meet (Admission,
Scheduler).

**`Blueprint`** (proofs in `BlueprintProofs`, abstraction in `BlueprintLog`). A
request is at a stage of `_blueprint_publish` or `_blueprint_restore`: `upsert`
(waiting for or taking the row lock), `tx` (inside the transaction), `invalidate`,
`purge`, `create`, `announce`, `activate`. `Upsert` and `Commit` are the two
halves of the transaction of `VersionManager.publish`: the lock is taken by the
upsert and returned by the commit, and nobody else sees the row in between.
`BeginRestore` reads the snapshot long before its own transaction. Signup
publishes through the version manager directly and stops at its commit, as the
code does. Loading tasks are `StartLoad`, `Fetch`, `Fill`, with a cache entry per
type of key. The history variable `past` remembers the newest version whose
publish has invalidated the cache, which fills that invalidation overtook, and
whether one of them is what the cache now holds. `Fail` is a query that raises at any stage, `Restart` the process
that dies. A row is a version number and a content, and a content is what the
validator returns: a publish sends a payload through `Validator`, a restore sends
a snapshot through it again.

**`Validator`** is `validate_blueprint_input`: `Accepts` is everything it does not
raise for, `Validated` what it returns. A payload has one value per key, with
values of their own for null, for a key that is missing where that differs, and
for a value of the wrong type.

**`BlueprintLog`** is what the history promises: a log to which contents are
appended, and nothing else. `Blueprint` implements it with the contents of
`versions` as the log (`HistoryIsAppendOnly`).

**`ConnectionPool`** (`ConnectionPoolProofs`). Tasks acquire and release; a
request the resolver refuses holds its connection (`refused`) while it acquires
the alert's (`alert`). The module stands apart from `Admission` because its
question, who waits for whom, does not depend on what is read.

**`Admission`** (`AdmissionProofs`). A company is named after the user who signed
it up. Each statement of `resolve()`, `_enforce_subscription` and
`PermissionEngine.resolve` is an action of its own; three workflows stand for the
guards of the engine: one open to every member, one for owners
(`_require_owner`), and `company.add_member` (`_require_admin`), which is also the
only one that changes what the others read. `always` and `ever` are history
variables: what the tables have said at every moment, and at some moment, since a
request began. A read sees one moment, so the properties are stated between the
two.

**`Intelligence`** (`IntelligenceProofs`). The ledger is the number of its
transactions, for all statistics are functions of them; `Found` says which alerts
a ledger gives cause to, at the severity the company's preferences ask for, which
stay as they are. A cycle is `CheckActive`, `Summarise`, `Analyse`,
`Derive`, `Rebuild`, `RecordMetrics`, then per alert `CheckAlert` and
`InsertAlert`, then `Complete` and, for a scheduled report, `Reread` and
`StoreReport`: three readings of the ledger by one cycle are three actions, a
fourth is the report's. A request begins a cycle with `RecordTransaction`, or with
`Observe` for any other observed event; `ImportRow` is a row of a file or of a
provider, which is recorded without an event of its own. Alerts have ages and leave the record when their window
(6 hours, 24 hours) is over; the dashboard's entry has an age up to its 60
seconds. The history variable `past` remembers the ledger at the latest ticks.

**`Scheduler`** (`SchedulerProofs`). `_loop`, `_tick`, `_is_due` and `_run_job` as
one task: `todo` is what is left of the tick's list of companies, in an order the
query does not define, and `left` what is left of `_JOBS`. A cycle that raises
still passes the `finally` that marks the job, and then ends the tick. `age` is the
time since the mark, `fresh` since the last report, both in ticks and saturated
at the interval; `late` is how long a job has been due. A `Crash` is a statement of the scheduler's
own that fails: the task loses its place and sleeps. A `Restart` is a new process,
whose loop begins with a tick. `struck` is history: the jobs that one of the two has
cut short since they were last marked.

**`Ledger`** (`LedgerProofs`) and the pure **`Analysis`**. A writer records by hand, from a CSV
statement or from a provider's history, or defines or replaces an automation;
what it has left to record is `left`, and each row passes `Average`, `Insert`,
`PublishRow`, `ListDefinitions` and one `Run` per matching definition, which are
statements of their own. `ledger` is the table in the order of its inserts; `at` and
`by` of a row are history, for the properties. A reader makes eight reads of the
ledger, one by one, each at a moment that is kept; what it shows is computed from
those moments by `Analysis`: the totals, the windows of 30 and 60 days, the
health score, trend, spend, anomalies, forecast, insights, the findings a
Blueprint lets through and their order, recommendations, and the replay of
scenarios. Months are the unit of time, amounts are whole.

**`Gathering`** (`GatheringProofs`) and the pure **`Connector`**. A host is what answers at the
company's URL. `Render` is the generated file as the server it is: whether it starts in
its language, what its page and `_health` list, which rows break it; `Serve` what
it answers, `Discovered`, `EntityNames`, `Classify` and the summaries what the
engine makes of that, `PreviewOf` and `DirectTest` what Test Connection makes of
it. The generator writes the same server in four languages; an operator such as
`Serve`, `Refusal` or `SqlRows` stands for all four copies, with the language as a
parameter where they differ, and is mapped to one of them. In `Gathering` every HTTP
call is an action, `Deploy` may replace the file
between any two of them, and a call may be lost.

**`Workspace`** (`WorkspaceProofs`) and the pure **`Catalog`**. A request does one
of the workflows of the endpoint, the API keys, the providers, the business systems,
the mappings, the schemas, the marketplace, the notifications and the preferences.
`Handle` is the dispatch: `Refuse` for what a handler raises before its first
statement, then the statements, then `Announce`. A secret is who minted it and
under which encryption key; `Restart` is a new process with a new key, after which
old secrets do not decrypt. `stamp` counts a system row's connects and
disconnects and `seen` is the stamp that the last test had read: history, for
`HealthBehindOneTest`. `Catalog` is what is looked up: which packages load and what
they offer where, what a Blueprint recommends, the mapper and the schema engine.

The cycle of `Scheduler` is one action, `RunCycle`, and the module only keeps
whether it raised; what happens inside is `Intelligence`, in which `StartJob` in
turn stands for a due job of the scheduler. `Activate` of both is the last step of
a publish in `Blueprint`; the Blueprint that `Ledger`'s readers load is one that
`Blueprint` may hold; the connection of a provider is `Workspace`'s, and what a live one records on the way
is `Ledger`'s; the cycle awaited behind the INSERT of an observed event is
`Observe` of `Intelligence`, and `Ledger` and `Workspace` stop at the INSERT (it
writes none of their tables, and its failure does not reach the handler); a gathered report is one of the two things a Compile is
made of, the cycle of `Intelligence` the other. The modules are composed by these
steps and are not checked as one product.

Definitions whose comment begins with "Mutant" are plausible wrong versions of the
definition that follows them; no specification uses them. They are kept to show
that each property can fail: replacing the one by the other makes TLC find a
violation (`PROJECT.json`, "mutants").

## Runs

Each row is a configuration in this directory; states are distinct states.

| Run | Instance | Shows | States |
|---|---|---|---|
| `blueprint` | 2 requests, 1 loading task, 3 payloads that are accepted and 11 that are not, 3 versions, failures and restarts | TypeOK, HistoryMatchesActive, RestoreFaithful, CacheServesPublished, ActivationFollowsEvent, DuplicatesBounded, HistoryIsAppendOnly, RequestsTerminate | 154,474 |
| `pool` | 4 connections, the scheduler, one request, three that may be refused | ConnectionsConserved, NeverStuck, EveryoneIsServed, EngineNeverSleeps | 1,626 |
| `admission` | 2 users with a company each, 1 request, 1 operator, 2 changes, failures | TypeOK, AdmissionCurrent, RefusalJustified | 169,873 |
| `admission_race` | 2 users, 2 requests, 1 change | FreshContext, WritesAuthorised | 376,095 |
| `intelligence` | 1 recording, importing or otherwise observed request that may fail, the scheduler, 1 dashboard reader, 1 alert with a window of 2, time to live 1, 1 transaction | TypeOK, AlertsBounded, DashboardBounded, ReportNotOlder, TransactionsAnalysed, KnowledgeSettles | 199,106 |
| `scheduler` | 2 companies, one failing, an hourly job and a daily one with a report (5 and 6 ticks), 2 crashes or restarts | Punctual, RepeatsBounded, JobsRecur, ReportsSpaced | 394,212 |
| `ledger` | 2 writers (one may fail) with 7 jobs, 1 reader with 4 plans, 3 standing definitions, 2 requests made, 1 month that passes | TypeOK, EveryMatchRuns, FlagsHonest, ImportsArePrefixes, SyncedMeansRecorded, FindingsAgree | 521,760 |
| `connector` | 2 requests (one may fail) with 13 jobs, 8 kinds of host, a table called `_health`, 1 deployment, 1 lost call | TestPredictsCycle, FindingsBacked | 635,485 |
| `workspace` | any 2 of 50 jobs, any 3 on the endpoint, on one system or on one schema; a new company and an established one; 1 request may fail, 1 restart | TypeOK, RevealedOnce, HealthBehindOneTest, VersionsKept, OverviewConsistent | 218,580 |
| `blueprint_stale_key` | 1 request, the scheduler, 3 versions | CacheFresh is violated | |
| `pool_exhausted` | 2 connections, 2 refusals, the scheduler | EngineNeverSleeps is violated | |
| `admission_orphan` | 2 signups with failures | IdentityHasCompany is violated | |

Why the bounds are enough. Two requests make every race between two handlers, and
the third version lets a restore begin with one version committed, be overtaken by
another publish, and commit as the third, or name the older of two. The payloads that
are accepted are one that gives only what it must, one that gives everything with
blanks to strip, and one that asks for the automation; the others fail one check of
the validator each. `DuplicatesBounded` counts
against the number of requests, and two is where duplicates first appear. In
`pool` three of four connections can be held by refusals, the largest number the
guard of `NeverStuck` allows, so every connection but one may be waiting for a
second. Two users are needed for a company other than one's own, two changes for a
switch thrown and taken back during one request. In `intelligence` the two tasks
overlap in every order; the window of 2 lets rows of different ages stand beside
each other, and the time to
live of 1 lets an entry be served and refused. The scheduler's intervals, 5 and 6
ticks, are not smaller than `Patience` (one failing company with two jobs, two
crashes and one more), which `Punctual` needs and the code's shortest
interval, an hour of 60 ticks, satisfies as long as failing companies with hourly
jobs are few. Of two crashes one may strike a job and the other the same job again,
or another one.

In `ledger` the files have a line that is refused between two that are recorded,
and one the table's `amount > 0` stops; the amounts lie on both sides of the rule's factor of three; the
provider's history reaches into the month before, one line of a file is dated in the
month to come (the queries have no upper bound, and neither has the model's `Recent`), and the month that passes moves a
row from one window to the next. Two requests are one writer beside a reader, or
two writers: a definition is listed, replaced by the other and then run. In
`connector` the hosts are a file of every language, among them one that does not start,
one with more entities than `MaxEntities`, one whose rows break it, a connector of the older
kind and a page that is no object; one deployment is a replacement between any two
calls. In `workspace` two requests take every pair of workflows and three those
pairs and one more that share a row: two that generate an endpoint beside one that
rotates, a test between a disconnect and a connect, two saves of a schema and a
delete. Between them the passing runs take every action of every module.

`CHECK_DEADLOCK FALSE` is set where requests are finite and all of them have ended
(`MCLedger`, `MCGathering`, `MCWorkspace`), in `MCBlueprintStaleKey`, in
which the single request has spent its three versions, and in
`MCConnectionPoolExhausted`, in which the state where everything waits is what
the run is about.

## Fairness

`Blueprint`: weak fairness of each request's steps, because the event loop resumes
every task whose query has answered; strong fairness of `Upsert`, because Postgres
queues the waiters of a row lock and grants it in turn, so a request is not
overtaken for ever. Nothing forces requests to begin, and failures and
restarts stay possible without being required.

`ConnectionPool`: weak fairness of the steps, strong fairness of the two acquires:
asyncpg's pool hands connections to its waiters in the order in which they came,
and the event loop runs ready tasks in order, so a waiter is not passed over for
ever. `Arrive` is fair for the scheduler only, whose loop always comes back.

`Intelligence`: weak fairness of each task's cycle and of the scheduler's starting
one. Failures are not fair, so liveness may not rest on them, and they may hit
every cycle of a failing request: `TransactionsAnalysed` rests on the scheduler.
The scheduler's own cycles do not fail in that run; without it there is no answer
to who would analyse.

`Ledger`, `Gathering` and `Workspace` assume none: a handler's steps have no loop
and wait for nothing, so what could be asked of them is safety.

`Scheduler`: weak fairness of the one task. Crashes are bounded by `MaxCrashes`.

## Proofs

TLC checks the instances above, TLAPS the theorems below for every value of the
constants that satisfies the named assumptions (finite sets of tasks, a positive
pool, and the like, `ASSUME` in each module).

* `BlueprintProofs`. `ValidatedAgain`: what the validator returned it accepts and
  returns unchanged. This is what makes a restore faithful, for the content it
  publishes has been through the validator twice. `CoreInv` is `TypeOK /\ OneWriter /\ HistoryMatchesActive`, and
  it is inductive only as a whole: that the committed number is the next one
  (`HistoryMatchesActive`) rests on the transaction still holding the number it
  computed (`OneWriter`), which rests on the row lock, and that the number is
  positive (`TypeOK`) on both. From `CoreInv`: `HistoryRefines`, that every step is
  a step of `BlueprintLog` or leaves the log alone; `RestoreHolds` and `CacheHolds`,
  because a history that only grows keeps what was read from it (`CacheHolds` with
  `DroppedCommitted`, that what was invalidated is committed, and `NoneOlder`, that
  no fill which began after an invalidation is older);
  `ActivationHolds` with two more conjuncts (`CommittedJobs`: a request past its
  commit carries a version of the history; `ActivatingJobs`: one about to activate
  has stored its event); `DuplicatesHold`, by counting the requests about to create.
* `ConnectionPoolProofs`. Conservation is a sum of cardinalities; `Moving` says how
  one task's move changes them, and `NoDeadlock` follows by counting: if nothing
  were free and nobody could go on, the refused requests alone would hold the pool.
* `AdmissionProofs`. `Summary` says what each action of a request amounts to, once,
  and everything after it is proved from the summary. The invariant relates each
  request's record to `always` and `ever`, stage by stage; the four theorems about
  requests are its consequences. `FounderHolds` has an invariant of its own: no
  statement deletes an account or a membership.
* `IntelligenceProofs`. `DashInv` says that an entry of age `n` is no older than
  `past[n]`, for the cache and for every reader on its way to it; `ReportInv` that a
  cycle's later readings are not smaller than its earlier ones. `AlertInv` counts the
  tasks that have looked for an alert and not yet inserted it beside those that are
  stored: a task that looks finds what is stored, so one that is about to insert
  looked when there was nothing, and the two together are never more than the tasks.
* `SchedulerProofs`. `Marked`: a job that is being run is due, and its report is
  never younger than its mark unless it is just being marked, or `struck` says that a
  crash cut it short in between. This is what `ReportsSpaced` says. `RepeatInv` charges every
  report without a mark, but for the one the loop is about to mark, to a crash of its
  own. `PunctualInv` says who is to blame for a wait: `Blamed(c, j)` are the failing
  jobs that were marked since `(c, j)` became due, and the wait is no longer than
  those, the crashes so far and the tick in which it was passed over for being
  activated too late. That no failing job is blamed twice needs intervals that are
  not shorter than the patience, the hypothesis `Unhurried`; the code's shortest
  interval is 60 ticks.
* `WorkspaceProofs`. `Moving` types what moves with every request (its stage, what it
  holds, its reply), and `Becoming` says once that a step of one request leaves the
  others alone. On these, one invariant per theorem: `RevealedOnce` is inductive as it
  stands; `OverviewInv` adds that an endpoint that was seen is still there, because no
  statement deletes one; `HealthInv` that no test carries a stamp the row has not had
  yet, so that a write under the present stamp is about the present row; `VersionsInv`
  that no snapshot names a request that has not begun, so that a new schema's id is new.
  `TypesHold` assumes that the preferences a request may send are such that those the
  handler accepts have the columns' types (`PreferencesAssumption`).
* `LedgerProofs`. The invariant has five parts; each of the first four rests on the
  ones before it, the fifth on `Typed` only.
  `Typed` is the types and, per stage of a handler, what it holds. `Books` says for
  each writer that its rows in the ledger are what its source begins with, in that
  order, and `left` the rest, the row in hand included; this is what `ImportsHold` and
  `SyncedHolds` need, which look at the end of a request only. `Runs` says which runs
  a request in the middle of its definitions still owes, and that every run's
  definition stands and matches: definitions are only ever added in front or taken
  out with their runs, under ids that are never used again (`StandingAssumption`).
  `Flags` says of a writer between its average and its insert that the average was
  that of some ledger since its previous row, so that the flag is honest when the
  insert comes. `Moments` says of a reader that it has read as many statements as its
  stage says, each of as many rows as the one before it or more. On it rests
  `AgreementHolds`, and for the rest on what the queries return: a statement's page has
  the ledger's rows, so its sums are sums of the ledger (`Totalled`); amounts are not
  negative, so more rows have no smaller sum (`SumMore`), and the largest category of a
  page is within the outflow of a later one (`TopWithin`); health stays first through
  both selections and the sort (`PickedFirst`, `PrioritisedFrom`); and a replay in which
  every day adds the same has its closed form (`BalancesAre`). A sum is a fold over a
  set and a replay a recursive function, and induction over either is out of the
  provers' reach as a rule; what takes its place is a counterexample that is smallest,
  among the subsets of a finite set (`Smallest`) or among the days (`LeastOf`). The
  selections are by indices (`Picked`, `SubSeq`, `Latest` by how many rows are later),
  so that the provers can say what a selection holds. The assumptions
  are on what arrives (`JobsAssumption`: rows with amounts and ages that are numbers;
  `PlansAssumption`: a request for one of the handlers there are), that no keyword
  stands for the category NULL (`CategoriesAssumption`) and no number is NULL
  (`NumbersAssumption`).
* `GatheringProofs`. `Inv` says of every request's record what it has read so far and
  from which deployment: of a test that has seen no replacement, that its previews are
  those of the file that is deployed; of a compile, that its names are what that file
  lists, and that what it read of them it read from there; of a compile that has seen
  replacements, only that what it found reachable gave it its rows. The lemmas before
  it say of `Render`, `Serve`, `PreviewOf` and `Classify` what a preview that is
  reachable tells about the file, and that the loop over the names reads each one.
  `HostsAssumption` and `AnswersAssumption` state what holds of what a Python,
  JavaScript, PHP or Java server sends by construction of the generator: `_health` lists
  the keys of a dictionary, each once, and a row is never NULL. That sorting the names
  keeps each once would be induction over data, so the listing is part of a host.

Only model-checked: the liveness properties (`RequestsTerminate`,
`EveryoneIsServed`, `EngineNeverSleeps`, `TransactionsAnalysed`,
`KnowledgeSettles`, `JobsRecur`), which are beyond the prover with their fairness. What the `violation` runs refute has
theorems only for its other half (`NoDeadlock`, `CacheHolds`).

## Where the documents and the code part

Three runs expect a violation, each of one sentence in the repository:

* `blueprint_stale_key`: the scheduler loads the Blueprint with
  `str(row["company_id"])` (`scheduler.py:81`) and requests with the `UUID` that
  asyncpg returns, so the cache holds two entries and a publish pops one. The
  scheduler's cycles go on with the old Blueprint until the process restarts;
  `loader.py:10-11` says the cache is invalidated the instant a version is published.
* `pool_exhausted`: as many refused requests at once as the pool has connections
  (`database_pool_max`, 10) each hold one and wait for the alert's, without a
  timeout (`resolver.py:51`). `main.py:50-51` says the engine never sleeps; its
  next acquire does not return. `NoDeadlock` is the exact other half: with
  fewer it cannot happen.
* `admission_orphan`: Supabase's user is created before the transaction; if that
  fails the identity stays and a second signup is refused for its email.
  `onboarding.py:6-7` and `README.md:57-58` say this can never happen.

The models contain others, which have no run of their own.

Blueprints, requests and the Intelligence Engine:

* A load that fetched before a publish fills the cache after its invalidation
  (`loader.py:39`): the other way to a stale entry, which stays until the next
  publish. `CacheServesPublished` says that, for requests, it is the only one: it tells such
  a fill from the history of invalidations, and holds every other to the newest
  version that was invalidated. A publish whose COMMIT succeeded and whose answer
  is lost invalidates nothing, so nothing is held to its version.
* Two publishes at once both delete the Blueprint's automation and then both
  create it (`engine.py:275`, "keeps the Rule Engine's automation for it in sync").
  `DuplicatesBounded` is what remains true.
* Signup publishes the country's defaults without the automation they ask for and
  without the event that activates the Intelligence Engine (`auth_routes.py:114`;
  `012_intelligence.sql:10-11`, "created the instant a Blueprint is first published").
* `add_member` upserts by email whatever the role was: the only owner may be made
  a member (`engine.py:1461`; `README.md:58-59`, "a company can never end up without
  an owner").
* `grant()` checks `is_active` and inserts in two statements (`subscriptions.py:59`;
  `admin_routes.py:179-180`, "grant() itself enforces that the company is active").
* A workflow's change is committed before its audit record (`routes.py:100`;
  `logger.py:4`, "Every action the Kernel takes on behalf of a user is recorded").
* Overlapping cycles store a notification twice in its window
  (`notification_engine.py:40`, "deduped over a rolling window"). `AlertsBounded`
  is what remains true.
* A dashboard computed across an invalidation is stored after it (`cache_manager.py:32`,
  "invalidated immediately"). `DashboardBounded` is what remains true.
* `generate_report` reasons again (`manager.py:243`; `report_generator.py:5-6`, "built
  from the same ReasoningResult"). `ReportNotOlder` is what remains true.
* As many failing jobs as there are ticks in their interval, all in front of a
  company, keep the scheduler from it (`scheduler.py:84`); `Punctual` and `JobsRecur`
  are checked where there are fewer.
* The `finally` in `_run_job` marks a job whose cycle raised: its period has no report
  (`scheduler.py:102`; `report_generator.py:4-5`, "one persisted document per
  report_type per period"). It is also what keeps a failing company from starving
  the others.

The ledger and what is concluded from it:

* A statement's line with too few columns, or an amount of 0, ends the whole import
  instead of being counted (`None.strip()` is an `AttributeError`, and the table
  checks `amount > 0`; `parser.py:16-18`).
* The second of two first requests violates `UNIQUE (company_id, name)`
  (`graph.py:64`, "idempotent - safe to call on every dashboard load").
* A capability that is switched off is still what a recommendation may rest on
  (`recommendation_engine.py:85`; `reasoning_engine.py:60-63`, "never gets recommended").
* A replay's one-time scenario with the default `day_offset` of 0 changes nothing and
  is listed among `scenarios_applied` (`simulator.py:30`, `51-54`; `:8-9`).

The connector:

* A body that is a JSON list raises outside the `try` and ends the cycle
  (`connector_intelligence.py:283`; `reasoning_engine.py:55-56`, "this never blocks or
  fails the cycle").
* The Intelligence Engine sends no token, so a connector that Test Connection reads
  with one is refused to it; `TestPredictsCycle` is what holds without. It has a time limit per call and none for
  the whole.
* A table the wizard calls `_health` is previewed as a reachable table without rows:
  the tester asks for it by that name and is sent the list of entities
  (`connector_tester.py:204-236`), while the generated file cleans the name to `health`
  (`connector_generator.py:59-64`), which is what a Compile reads. `TestPredictsCycle`
  leaves the name out; the proof did not go through while it did not.
* A SQLite connector never starts unless a port is given, because `None` is written into
  the file (`connector_generator.py:43`); the tester opens `database or host` where the
  file opens `host`. A JavaScript file with an entity that begins with a digit does not
  load, and `orbit-connector.java`, the default name, holds `public class OrbitConnector`.
* A line break in a row makes Java's JSON invalid, bytes that are no UTF-8 make PHP's
  `json_encode` return false, and the order of a Java `HashMap` decides which
  entities are within `_MAX_ENTITIES`.
* A report's executive summary says that no Connector URL is saved also when one is
  saved and does not answer (`pdf_compiler.py`).

The workspace:

* A test that read a system before it was disconnected or connected again writes its
  health afterwards (`engine.py:1277`). `HealthBehindOneTest` is what remains true.
* Deleting a schema and creating it again starts at version 1 and keeps the old
  versions, so the list, ordered by version, begins with the old schema
  (`010_event_schemas.sql:7-8`). `VersionsKept` is what remains true.
* `mappings.list` and `schema.list` call a method `list` that the stores do not have
  (`engine.py:295`, `357`; they are `list_mappings` and `list_schemas`), and
  answer with an error.
* `mappings.delete`, `schema.delete` and the connector preferences publish no event
  (`event_bus/bus.py`, every completed workflow does).
* If the key after a generated endpoint fails, the secret that was created has been
  shown to nobody; only a rotation helps (`engine.py:419-444`).
* The enterprise overview counts connections that were disconnected.

And outside the modules: a Blueprint threshold of "nan" passes the validator and
fails at the snapshot's jsonb (`validator.py:6-9` promises a 4xx); snapshots from
before migration 013 restore with six capabilities where the rows have five;
`compare` looks at five of the seven fields; `classify("companies.create")` is "read"
(`usage_tracker.py`); an operator's token is not checked against the operator's row
(`admin_security.py:8`, "still active"). `automation.py` needs Python 3.14, since the class
has a method called `list` above an annotation `list[dict]`; `.python-version` says 3.12.

## What is not modelled

The text of generated clients (`sdk_generator.py`; their loop of at most three
attempts with the same request id is code the Kernel does not run) and of API
documents, layout (`pdf_compiler.py`), wording and downloads; the ciphers and token verification;
the HTTP of Supabase beyond success or failure; the country packages' tables; the
superseded `company_blueprint/store.py`; and the stubs. The operators' own login is
three single statements around a library's hash, and the error log and the usage
counter are inserts whose failure is swallowed: no step of theirs meets another's.
`IntelligenceManager.deactivate` has no caller and is no action.

Rounding of amounts to cents, thresholds that are not finite, and Blueprints from before
migration 013 are left out. So are several kernel processes over one Postgres: `main.py` starts one,
and both caches are documented as per process. Members, subscriptions and
Blueprints change in `Admission` and `Blueprint` only, so a workspace or a ledger
whose company is switched off half way is covered by what those modules say of the
request, not by a product of the modules.

## What is left to prove

Every safety property of a passing run is a theorem; the liveness properties stay with
TLC. `TypesHold` of `Admission`, `Workspace` and
`Ledger` could be stated for several companies at once, which would let the modules
be composed.
