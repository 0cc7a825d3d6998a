# A verification project for the platform provider services

`src/` holds two Go services that manage *providers* (an account at an AI
vendor, reached over an API surface with a credential) of a platform on
Kubernetes. This directory models them in TLA+, checks the models with TLC and
proves with TLAPS, for every value of their constants, the safety properties the runs
check, of all eight components. Paths below are relative to
`src/packages/platform-k8s/internal/` unless they begin with `src/`.

## 1. The system

| part | state | operations | who calls it |
|---|---|---|---|
| provider registry: `providerservice/providers` over `platform/providerstate` over `platform/state/postgres` | one row per provider: JSON payload and a generation | create (upsert), rename, apply model catalog, apply probe status, delete, get, list | gRPC, connect paths, probe activities, syncer |
| catalog materialization syncer: `providerservice/providercatalogs/materialization_syncer.go`, `materializer.go` | none of its own; updates rows | `Sync(ids)` | the model-catalog probe RPC (`background_tasks.go`) |
| catalog probe executor: `providercatalogs/probe_executor.go`, `probe_lease.go` | singleflight groups per process, one Kubernetes `Lease` per provider | `ProbeModelIDs` | syncer |
| connect sessions: `providerconnect/` | a ConfigMap record per OAuth session; the OAuth session at the auth service | connect, reauthorize, get session (sync, finalize, store) | orchestration activities |
| orchestration: `providerorchestration/` | Temporal workflows and schedules; `next_allowed_at` in the rows | connect with an API key or CLI OAuth, update authentication, probe, sweep, post-connect | gRPC, Temporal |
| observability: `providerservice/providerobservability`, `platform/codeassist` | metric gauges | quota probes through vendor collectors | probe activities |
| start: `cmd/*/main.go`, `platform/state`, `platform/temporalruntime` | the schema and its record of applied migrations, two Temporal schedules | connect, migrate, ensure schedules, serve | every pod when it starts |
| static registries (`platform/providersurfaces`, `platform/vendors`, `platform/clidefinitions`), templates, transports, HTTP clients | read once from YAML, or none | lookups, conversions | everything |

How they interact. The orchestration service receives a request, stores
credentials at the auth service and runs a Temporal workflow; the workflow's
activities call the provider service; the provider service runs
database calls one by one against a table which both services write. Probes go
through the lease, then through the network, and their results come back as
writes to the same rows. Nothing spans two of these stores in a transaction.

What is hard:

* every update of a row is a read, a change in memory and a write of the whole
  payload, without a version check; the syncer keeps the network probe between
  the read and the write;
* the probe lease is stamped once, has no renewal, is re-entrant for its
  process, and is deleted without a precondition;
* a session's record is read, carried across two remote calls and written back
  over whatever is stored by then; polls overlap and are retried;
* a connect activity is retried under a new provider id while the attempt that
  was given up may still register its own, and the compensation deletes the
  credential both refer to;
* a probe task checks `next_allowed_at`, probes and records the next one in three
  separate calls, and sweeps, post-connect workflows, requests and retries of
  attempts that run on meet at one provider;
* a catalog probe works out where to ask, and what headers to ask the auth service
  for, from the provider, its surface and the operation, separately and long after
  the connect checked the base URL;
* a quota probe is several exchanges with a vendor's console, which can refuse,
  redirect, throttle or break at each, some of them best effort; its rows are
  recorded one by one, without a lock, over those of other probes;
* pods of two services and several releases start at once on one database and one
  Temporal namespace, and are killed while they do;
* every step can be cut short: a cancelled request, a timeout, a process that
  goes down.

What makes each part correct:

* **registry**: an operation is one atomic change of one field, or of
  nothing, whatever fails; only overlapping writers can lose a change; a
  deleted provider comes back only by a create;
* **probe lease**: two processes do not probe one provider at once unless a
  probe outlives its lease; a lease is taken over only after it expired; no
  caller waits for ever;
* **connect sessions**: success is stored only after the provider was
  registered, and only for a user who authorized it; a registration is not
  repeated and a connection not undone without an overlap or a break;
  no authorizable OAuth session is left without a record;
* **API-key connect**: a connect that succeeds keeps its credential, one that
  fails leaves none behind, one request makes one provider, and the workflow
  closes;
* **probe scheduling**: a provider is probed at most once in its minimum
  interval unless a user asks for more; what is recorded is not moved back; a
  new quota credential is tried out; every sweep closes;
* **model catalog**: a credential's headers are asked for exactly the URL that is
  asked, which is where the user connected the provider; the list follows the vendor's
  reply and keeps the bindings of its models;
* **observability**: success means that everything the reading rests on was read,
  a blocked credential is told from a broken vendor, the gauges show the last
  probe, computed amounts add up, and every probe ends;
* **start**: a migration is applied once, in order, as one step with the others of its
  start; a process that serves has its schema and its schedules; every pod comes to serve.

`PROJECT.json` lists every component with its state of modelling and every
hazard with its line and the properties aimed at it.

## 2. The modules

| module | models | checked with |
|---|---|---|
| `ProviderRegistry` | abstract: a table of providers, one field changed per step | refinement target |
| `ProviderStore` | the registry's code, one action per database call, and the syncer | `MCProviderStore` |
| `ProviderStoreProofs` | theorems about `ProviderStore` | TLAPS |
| `CatalogProbeLease` | singleflight, lease, probe and release | `MCCatalogProbeLease` |
| `CatalogProbeLeaseProofs` | theorems about `CatalogProbeLease` | TLAPS |
| `ConnectSession` | CLI OAuth connect sessions | `MCConnectSession` |
| `ConnectSessionProofs` | theorems about `ConnectSession` | TLAPS |
| `APIKeyConnect` | handler, workflow, activity attempts, compensation | `MCAPIKeyConnect` |
| `APIKeyConnectProofs` | theorems about `APIKeyConnect` | TLAPS |
| `ProbeScheduling` | probe tasks, sweeps, post-connect, requests, and the other writers of the row: edits, reauthorizations | `MCProbeScheduling` |
| `ProbeSchedulingProofs` | theorems about `ProbeScheduling` | TLAPS |
| `ConnectResolution` | operators: the provider a connect command is resolved to | through `ModelCatalog` |
| `ModelCatalog` | the request of a catalog probe, its authorization and exchange, the parsing of the reply and its merge into the provider; extends `ConnectResolution` | `MCModelCatalog` |
| `ModelCatalogProofs` | theorems about `ModelCatalog` | TLAPS |
| `ObservabilityRows` | operators: gauge rows, their recording, HTTP replies and their classes | through `ProviderObservability` |
| `MistralBilling`, `CerebrasQuotas`, `CodeAssistQuotas` (Gemini CLI, Antigravity), `GoogleAIStudioQuotas`, `ConsoleQuotas` (Codex, InternLM, Meituan, OpenRouter, MiniMax) | operators: the ten collectors, each a function of its state and a reply | through `ProviderObservability` |
| `ProviderObservability` | service, runner and gauges around the collectors; composes the six modules above | `MCProviderObservability` |
| `ProviderObservabilityProofs` | theorems about `ProviderObservability` | TLAPS |
| `SchemaRegistry` | abstract: the schema is what the applied migrations make, brought up to a release in one step | refinement target |
| `ServiceStartup` | pods of both services connecting, migrating, ensuring their schedules, failing, being deployed anew | `MCServiceStartup` |
| `ServiceStartupProofs` | theorems about `ServiceStartup` | TLAPS |

Two modules are shown to implement an abstract one by `INSTANCE ... WITH`:
`ProviderStore` implements `ProviderRegistry`, `ServiceStartup` implements
`SchemaRegistry`.

Each module has one action for each call that can fail or interleave: the code
between two calls is local and belongs to the action of the call that follows
or precedes it. Operators whose comment begins with *Fault:* are not part of a
specification. Each is a variant of the definition it stands before, with a
plausible bug in it; every property of every run was checked to fail with one
of them in place (`PROJECT.json`, `mutants`).

### ProviderStore

`table` and `generation` are the columns of the providers table. A payload
is a function from the five parts of a provider that are written independently
(`name`, `models`, the probe states `catalog` and `quota`, and `account`: the
surface, credential reference and endpoint that only a create writes) to
opaque values. `births` is history: it counts a row's insertions.
`req[c]` is the handler goroutine of caller `c`: `pc` the database call it
makes next, `held` the provider in its memory. A create is `Put`, `View`; a
rename, model list or probe status is `Project`, `Read`, `Write`, `View`; a
delete is `Project`, `Check`, `Erase`; a sync is `Read`, `Probe`, `Write` per
id. `Abandon` ends any of them at any point, with its last call executed or
not. `List` and `Get` requests read one statement's snapshot and change
nothing; they have no action but the reads inside the operations.

The invariants `GenerationMarksRow` and `VersionIdentifiesRow` describe what
the generation column, which the code maintains and never reads, is worth: with
the births it identifies the content of a row, alone it does not (a row inserted again starts at 1).
`AtomicUnlessStale` states the exact extent of the lost update: every step is
a step of `ProviderRegistry` or stutters, unless it is a write of a row that
was written since it was read. `OnlyCreateInserts` says that no slow writer
brings a deleted provider back. `ImplementsRegistry` is the refinement,
which holds for a caller on its own, however its calls fail.

### CatalogProbeLease

A worker is a goroutine inside `ProbeModelIDs`. `leader` is the singleflight
group of each process, `lease` the Lease objects, `now` a clock of `MaxTime`
ticks. The API server's resourceVersion is `fresh`: whether the object is still the
version this worker read. Acquiring is `Create`, then `Get` and `Update` with up to
`MaxTries` attempts; `Probe` is the HTTP exchange; the deferred release is
`ReleaseGet` and `ReleaseDelete`. `Crash` removes a process's goroutines and
leaves its leases. The holder identity is hostname and pid, which a restarted
container gets again, so a process that crashed goes on under its name.
`overran` and `shared` record the two circumstances in which exclusion
is not given: a probe or its release outlived the lease, and one process ran two
flights for one provider. The properties say that nothing else breaks it. A lease lasts
300 seconds (`catalogProbeLeaseDurationSeconds`); with `Duration` = 0 a tick stands for
more than that, and what matters is only what happens before and after the expiry.

### ConnectSession

`oauth` is the auth service's session (external), `record` the ConfigMap,
`provider` the rows, of which the module keeps the name and which rename gave it.
`Phases` are classes of `SessionPhase`: the code treats pending, awaiting-user and
processing alike, and failed, expired and cancelled alike. A target is the
`sessionTargetSnapshot`: the provider id and name as they were when the session
began; for a connect the id is new (`drawn`), for a reauthorization
both are the provider's. A poll is `Poll` (`store.get`), `Sync` (reads the OAuth
session, applies its status), `Finalize` (`CreateProvider`) when needed, and
`Put`. `store.put` retries a conflict with the same payload, so it is one
unconditional write. Renames and deletes of the providers happen at any time.
`overlapped`, `lost` and the rename counts are history.

`ConnectedInOrder` says that success is stored only with the provider registered, and
only for a user who authorized it. `RenameKeptUnlessNewer` is the exact extent to which a
registration undoes a rename: only one given after the session began.

### APIKeyConnect

`handler` is `connectAPIKeyProvider`, `workflow`, `current` and `tries` what
the Temporal service knows of the workflow, `attempt` what the worker's
goroutines do. A timeout makes Temporal go on to the next attempt while the old
one runs on; its outcome, when it comes, is dropped (`Report`). Errors are
`retryable` or `final` (`activityError` makes validation, not-found and conflict
errors non-retryable). Every attempt draws a provider id of its own, as
`EnsureResourceID` appends a random suffix. `unsure` and `broken` are
history: an attempt given up that had registered, or might still register, a provider; and a
credential that nobody is left to delete.

### ProbeScheduling

`row` is the part of a provider's row the module is about: for each kind of
probe the ticks left to `next_allowed_at`. `job` holds the activities of the
open workflows: a sweep has one for every provider, all at once; the
post-connect workflow has the catalog's, then the quota's. An attempt that
times out (`Timeout`) is given up and runs on with `live` false. `task` is what a
goroutine executes, one action per call: `Preflight`, for quotas `Auth` (the
credential's status), for catalogs `Load` (the syncer's read of the row), `Fetch`
(the probe), for catalogs `Save` (the syncer's write), `Read` and `Record` (the update
that RecordProbeStatus asks for). Timestamps are kept as the time left, in the row
and in what a task holds in memory, and `Tick` diminishes both.
The other writers of the row are in the module too. A request that renames the provider
or gives it a model list is an `Update` like those of the tasks: `Edit` reads the row,
`SaveEdit` writes the whole of it back, with the probe status as it was read. The poll that
finalizes a reauthorization upserts a provider that `connectTarget.Provider` made without a
probe status, reading nothing (`Register`), and may submit a post-connect workflow at once.
The module takes the provider as existing throughout (a delete, or a create under a new id, is in
`ProviderStore`) and its surface as one that supports both probes. The listing a sweep begins with is part of
`StartSweep`: a sweep whose listing fails is one that was not started.

`rest` (time since the last probe), `excused` and `owed` are history.
`excused` has the targets for which the code gives no guarantee: two tasks for
one target were past their checks at once, a task that had probed ended without its
record, or a row was overwritten with a state read before another write, by a task or
by an edit. A registration is not excused: it forgets the provider's last probe, so `rest` is
counted anew from it. `MinimumIntervalKept` and `NextAllowedAdvances` say that nothing else,
retries, timeouts, failed probes and edits that are not stale included, leads to a
probe too early since the registration, or but for the registration itself to a
`next_allowed_at` moved back.
`UpdatedCredentialIsProbed` is about the throttle: a blocked attempt is recorded with
a `next_allowed_at` of its own, so the probe submitted after the credential was
replaced may be throttled, and it is left to the sweep to make up for it. That works
because throttled tasks are not recorded.

### ConnectResolution and ModelCatalog

A command is a record of what `ConnectCommand` tells apart. A URL is a host and the parts of
its path, and `Field` stands for a `{field}` of a template such as Cloudflare's
account id, so that joining, trimming and matching are operations on sequences.
`Resolves` and `TargetProvider` are the resolutions of both connect methods, up to the row that
is registered. `Init` of `ModelCatalog` takes the
providers of all commands that resolve, `command` remembers which it was.

`sync` is one synchronization: `Begin` makes the request (`providerProbeRequest`),
`Policy` and `Headers` are the two calls to the auth service, `Fetch` the exchange,
`Materialize` what `modelsFromModelIDs` makes of the reply. Any of them may fail and
change nothing. Replies range over all short bodies of both response kinds an operation of the source
names (`openAIModels`, `geminiModels`); names in them are sequences of the
parts between slashes. `HasResolver` is FALSE for the service as it is assembled, see section 5; the run
takes it as TRUE, as the tests of the resolver do.

`AskedAsAuthorized` compares two computations of one URL: `operationURL` and
`catalogProbeTarget`. `AskedWhereConnected` spans the connect and the probe: what is
asked is what the user gave, filled in, though neither function sees the other's
input. `ListFollowsReply` and `BindingsStay` describe the list through any sequence of
synchronizations.

### ProviderObservability and the collectors

A collector is three operators: where it starts, which replies its next exchange can
get, and what a reply makes of it (`...Start`, `...Replies`, `...Next`). A reply is a
status class and a decoded body; bodies are small sets chosen in
`MCProviderObservability` to show every case a parser tells apart (missing fields, values that
exceed their limits, several tiers, items of several days, empty lists). A row has a
metric, labels and a value; times, prices and counts are small integers, and what Go's
map order leaves open is the order of the body's lists. `probe[t]` is one call of `ProbeProvider`:
`Find` and `Get` (two reads of the provider), `Exchange` per request, `RecordRow` per gauge. `gauges` survives the probe and
the provider. `misses`, `read`, `mixed` and `asked` are history: exchanges that did not succeed, the
rows read, whether another probe recorded at the same time or later, whether
anything was asked.

`ExecutedReadEverything` names the best-effort exchanges (`BestEffort`), and
`AuthBlockedIffDenied` the ones whose denial the code cannot tell (`Untyped`): all
others must count. What can be told is a matter of collector, exchange and status: Code Assist returns
an untyped error for 401 and 403, Cerebras goes on without usage, and OpenRouter's collector looks
for "unauthorized" or "invalid api key" in the words of the SDK's error whatever its status, so that its reply
"denied" (an error in those words) blocks the credential and its reply "unauthorized" (a 401 or 403 in others)
does not. `Told` is what remains. `ScarcestBucketShown` compares `GroupSummary`, a fold, with the minimum over every list of up to three of the
buckets. `ReadingsAddUp` says of every reading that what is left of a quota does not exceed its
limit, but for InternLM and Google AI Studio when the vendor's use is negative
(`vendor_observability_collector_internlm.go:104` and
`vendor_observability_collector_google_aistudio_metric_time_series.go:179-183` do not clamp it) and for MiniMax, which takes what is left from
the vendor. InternLM shows the negative use in a row of its own; AI Studio does not, so `CountedBelow`
asks for a series whose points are all that far below zero; and that Mistral's total is the sum of what its models cost.

### SchemaRegistry and ServiceStartup

The migrations are the list of `platform/state/migrations.go` with the tables each
creates, drops and needs; columns, indexes and data are left out. A pod is `Connect`, `Lock`
(`pg_advisory_xact_lock`), one `Migrate` per turn of the loop, `Commit`; a pod of the
orchestration service goes on with `CreateSchedule` and, where that is refused,
`UpdateSchedule`, for each of its schedules. The transaction's records and
tables live in the process until `Commit` publishes both. `Fail` is any error or kill: `must` ends the process, Postgres rolls
back and frees the lock. `Deploy` restarts a pod from another release. `overtaken` is history and names the
pods one of whose schedules another pod has written since; `collided` records that a commit met a
migration already applied, which the primary key would refuse.

## 3. The runs

| run | instance | distinct states | shows |
|---|---|---|---|
| `store` | 1 provider, 2 callers, 2 values, 4 requests, symmetry | 0.28 M | typing, versions, atomicity unless stale, no resurrection |
| `store_sequential` | 2 providers, 1 caller, 2 values, 4 requests | 0.29 M | refinement of `ProviderRegistry` |
| `lease` | 3 workers in 2 processes, 1 provider, 2 flight keys, 1 tick, 2 attempts, fair | 0.15 M | exclusion, lease in place, takeover, every call returns |
| `lease_flight` | 2 providers, 1 flight key | - | a violation, see section 5 |
| `session` | 2 sessions, 2 callers, 2 providers, 2 names, 4 polls, 1 rename, symmetry | 2.1 M | session properties |
| `apikey` | 1 request, 3 attempts, fair | 7 K | credential and provider properties, the workflow closes |
| `probe` | 1 provider, 2 goroutines, a user's sweep, post-connect, requests, interval 1, edits and registrations, 2 attempts, 1 fault, symmetry | 4.0 M | minimum interval, `next_allowed_at`, typing |
| `probe_fair` | 1 goroutine, scheduled sweep, edits and registrations, 2 attempts, 1 fault, 1 update, fair | 0.14 M | a new credential is probed, sweeps close |
| `observability` | 2 probes, all ten collectors and an unknown id, every reply at every exchange, a deletion, fair | 0.11 M | readings, outcomes, gauges, every probe ends |
| `observability_assembled` | the six ids surfaces declare, the runner as the service builds it | - | a violation, see section 5 |
| `startup` | 2 orchestration pods, 1 provider-service pod, releases with 8 and 14 migrations, 1 failure, 1 deployment, fair | 0.16 M | migrations, schedules, refinement of `SchemaRegistry`, every pod serves |
| `catalog` | all commands over 5 surfaces and an unknown one, 5 base URLs, 3 protocols, 4 model lists; bodies of up to 2 items and 1 in each other list | 0.90 M | where and how is asked, list and bindings |

Why the bounds suffice. A lost update, and every way for a version to go stale,
takes two callers at one row; four requests are enough for a create, a delete,
a second create and a slow writer across all three, the longest scenario any
property distinguishes; two values let a field change and change back. In
`lease` the process with two workers has both a sibling flight and a follower, and
the other process takes over after the tick, in which every lease taken before it
expires and every probe under way outlives its own. In `session` two callers are two overlapping polls, four polls are an
overlap and a poll before and after; two sessions can target one provider
(a reauthorization). `apikey` has the real limit of three attempts: several that
were given up and one after them; requests draw credentials of their own and do not
interfere. In `probe` two tasks are what overlaps and what overwrites, and providers have
nothing in common but the sweep, which starts all its tasks at once: one provider stands
for each; the scheduled sweep differs from the user's in its workflow id alone, and a
third visitor would add no pair. Edits and registrations need no counter: they
leave nothing behind but the row. Two attempts are the limit of the code.
`probe_fair` has one goroutine; with its one fault an activity is retried, or fails for good
at once, but does not use up its attempts (two faults take five minutes to check, and pass).
In `observability` two probes are what interleaves; the runner treats each surface on its own, so
the surface is fixed per behaviour. In `startup` two orchestration pods race for the
schedules, three for the lock; with two releases a pod meets a database that is behind, level with it or ahead
of it; a failure may strike anywhere in any start. In `catalog` one reply and
the next, of two or three names, are what reorders, repeats, adds and drops models.
The bound counters (`started`, `polls`, `renames`, `faults`, `updates`, `failures`,
`deploys`) and the clock are in the guards. The systems may come to rest, hence
`CHECK_DEADLOCK FALSE`: with its requests used up or its clock at
the end a model stops; `ProviderObservability` says when it is at rest (`Finished`), and its run checks for
deadlock.

Symmetry sets are used in runs of safety properties only.

Fairness. `CatalogProbeLease!Fairness` is weak fairness of the steps of a call that
was started: each is made under the context of the caller, whose deadline (the probe
activity's 30 seconds, the RPC's own) ends it, the release's under one of five seconds,
so it returns, with an error if need be. The HTTP clients set no limit to an exchange themselves. Starting
calls and the clock are not fair. `APIKeyConnect!Fairness` is weak fairness of what
the Temporal service does for an open workflow: it schedules the next attempt,
ends an attempt that exceeds its StartToCloseTimeout, and runs the
compensation, whose own attempts are bounded by the same policy. Neither the
handler nor any worker attempt is fair. This presumes that the service is up
and that some worker polls the task queue, which is Temporal's own contract.

`ProbeScheduling!Fairness`: time passes, the schedule fires every minute
(`temporal_schedules.go`), Temporal ends attempts that exceed their 30 seconds, and
calls that were made return. Dispatch is strongly fair: `Tasks` bounds the
goroutines that requests and activities share in the model, which no limit
in the code makes them compete for. Requests, post-connect submissions and a
user's sweeps are not fair.

`ProviderObservability!FairSpec`: a call that found its provider is carried on; a hanging
exchange ends with the activity's StartToCloseTimeout. Which reply comes is
not fair, so `EveryProbeEnds` rests on the bounds in the collectors alone. `ServiceStartup!FairSpec`:
Kubernetes restarts a pod that ended, a process that runs goes on, and Postgres gives a free lock to a pod that waits
(weak fairness is enough: starts are finite in number once the
failures are used up). Failures and deployments are not fair.

## 4. The proofs

Each component's theorems are in its `...Proofs` module. They hold for every value of the
constants that satisfies the named ASSUMEs, which TLC evaluates in the runs. Every
inductive invariant (and `ReadInv`'s `ReadingsSound`) was evaluated by TLC on the instance of the component's run
before it was proved.

### ProviderStore

For any sets of providers, values and callers and any bound on requests:

| theorem | statement |
|---|---|
| `StoreTypeOK` | `Spec => []TypeOK` |
| `StoreGenerations` | `Spec => []GenerationMarksRow` |
| `StoreVersions` | `Spec => []VersionIdentifiesRow` |
| `StoreAtomicUnlessStale` | `Spec => AtomicUnlessStale` |
| `StoreOnlyCreateInserts` | `Spec => OnlyCreateInserts` |
| `StoreImplementsRegistry` | with one caller, `Spec => Registry!Spec` |

Assumptions: `Unset` is not a value, `Absent` is not a payload, `MaxRequests`
is a natural number.

    IInv == TypeOK /\ Working /\ GenerationMarksRow /\ SeenVersions /\ VersionIdentifiesRow

`VersionIdentifiesRow` is not inductive on its own. A step that inserts or
updates a row must make every other caller's version out of date: for an
update that the generation it saw is at most the row's, for an insertion
that the births it saw are at most the row's (`SeenVersions`). A caller that holds a
provider must hold a payload and work on a real id, which `Working` says and
typing does not, as the record type has null entries. `GenerationMarksRow`
connects the two columns: a caller that saw a row saw a positive generation.

From `IInv`, `StoreAtomicUnlessStale` follows action by action: every action
but `Put`, `Write` and `Erase` leaves the table alone, `Put` is `Register` and
`Erase` is `Remove`; a `Write` that is not stale writes the row it read (that is
`VersionIdentifiesRow`) with one field assigned, which is `Set` or, for a
sync that kept the provider, a stutter. With one caller no write is stale, and
the refinement is a corollary.

### ServiceStartup

For any pods, releases, schedules and numbers of failures and deployments:

| theorem | statement |
|---|---|
| `MigrationsAppliedOnce` | `Spec => []AppliedOnce` |
| `OpenedProcessesAreMigrated` | `Spec => []OpenedMeansMigrated` (with the types) |
| `ServingSchedulesAreCurrent` | `Spec => []SchedulesCurrent` |
| `StartupImplementsRegistry` | `Spec => ImplementsSchemaRegistry` |

Assumptions: `Orchestrators` are pods, `NoPod` is none, the schedules
are a sequence of names, the bounds are natural numbers, and a release carries an initial segment
of the list of migrations.

    IInv == TypeOK /\ SchemaInv /\ SchedulesKept
    SchemaInv == Exclusive /\ LoopKeepsUp /\ Migrated /\ ~collided

None of the properties is inductive alone. That no commit meets a migration already
applied needs that what a transaction has recorded is still not committed by anyone
(`LoopKeepsUp`), which survives another pod's commit because there is none: whoever is in the
loop holds the lock (`Exclusive`). That a process with its state open has every migration needs
that the loop has left none behind on its way, committed or recorded (`LoopKeepsUp` again). The schedules need the strengthening
to a process under way: all schedules before the one it is at are its
release's while nobody overtook it (`SchedulesKept`); a call of another pod puts this one among
the overtaken, and its own call adds one schedule.

The refinement needs more: what is recorded is always the first migrations of the list
(`FirstOnes`), because releases carry initial segments and whoever commits has brought the record
up to its own; and the tables are those the record makes, in the database and in the
transaction of the pod in the loop (`TablesFollow`, which has `FirstOnes`). A commit is then one `Upgrade`, every other step a stutter.

### APIKeyConnect

For any requests and any number of attempts (`MaxAttempts` positive, the one assumption):

| theorem | statement |
|---|---|
| `SuccessHasCredential` | `Spec => []SuccessKeepsCredential` |
| `OneProviderPerRequest` | `Spec => []OneProviderUnlessUnsure` |
| `ReferencesHold` | `Spec => []NoDanglingReference` |
| `OrphansAreKnown` | `Spec => []NoOrphanCredential` |

`IInv` is typing and, for every request, `Sane`: where the handler is tells whether there is a
workflow and a credential (`HandlerInOrder`, `CredentialKept`), and unless one was given up (`unsure`) no attempt runs but the one Temporal waits
for, and the only provider is that attempt's (`OneAtWork`). The four properties speak of
the ends; what makes them hold are these facts about all that may still happen, above all that
nobody registers behind the workflow's back.

### CatalogProbeLease

For any workers, processes, keys, lease duration, clock and number of tries:

| theorem | statement |
|---|---|
| `ProbesAreBacked` | `Spec => []LeaseBacksProbe` |
| `ProbesAreExclusive` | `Spec => []ExclusiveUnlessOverrun` |
| `TakeoversWait` | `Spec => TakeoverOnlyAfterExpiry` |

Assumptions: every worker has a process, the numbers are natural, `NoWorker` and `NoLease` are
neither workers nor leases, there is a key of each kind.

    IInv == TriesLeft /\ FreshMayBeTaken /\ Noted /\ LeaseBacksProbe

An update succeeds only with a fresh version; the invariant must say that a version still fresh
is of a lease this worker may take, its own process's or an expired one
(`FreshMayBeTaken`), though it was judged at the `Get` and time has passed since. `Noted` ties
the history to what it records: two flights of one process at one lease are `shared`, a call past its
expiry is `overran`. Exclusion follows: two probes backed by one lease have one holder.

### ConnectSession

For any sessions, providers, names, callers and bounds:

| theorem | statement |
|---|---|
| `SessionsConnectInOrder` | `Spec => []ConnectedInOrder` |
| `SessionsRegisterOnce` | `Spec => []RegistersOnceUnlessDisturbed` |
| `SessionsAreWatched` | `Spec => []OpenSessionsAreWatched` |
| `ConnectionsAreKept` | `Spec => ConnectionKeptUnlessStale` |
| `RenamesAreKept` | `Spec => RenameKeptUnlessNewer` |

Assumptions: `None` is nothing else, and the bounds are natural numbers. `IInv` has typing; per caller, what it holds at
each point of a poll (`CallInOrder`) and that a session being created is nobody else's (`CreateAlone`); per session, what its record says
of the registration (`RecordInOrder`) and that it has registered once while undisturbed
(`Undisturbed`); that what is registered was authorized; and `OpenSessionsAreWatched`. A caller's
memory outlives the record it was read from, so nothing about records is inductive unless the same is
said of what callers hold and are about to store.

### ProbeScheduling

For any providers, tasks, sweeps, interval, attempts, faults and updates:

| theorem | statement |
|---|---|
| `IntervalIsKept` | `Spec => []MinimumIntervalKept` |
| `NextAllowedMovesForward` | `Spec => NextAllowedAdvances` |

Assumptions: a sweep is the schedule's or the user's, there is a provider, interval and attempts are positive,
the other bounds natural. `IInv` has typing, the attempts that are left, that a target which escapes is
excused (`ExcusesNoted`); per task, where it is and what it holds (`TaskInOrder`, `HeldIsFresh`: the row in its hands is
the stored one unless it is stale; an edit holds a row like a task does) and that it may probe (`IntervalHonoured`); and per target that the
last probe is remembered, in the row or by the task about to record it
(`ProbeRemembered`), which after a registration is said of probes made since. The interval is a fact about two probes; the invariant carries it from the
first to the second through the row.

### ModelCatalog

For any surfaces, commands, base URLs, protocols and replies:

| theorem | statement |
|---|---|
| `RequestsAreAuthorized` | `Spec => []AskedAsAuthorized` |
| `RequestsGoWhereConnected` | `Spec => []AskedWhereConnected` |
| `ListsFollowReplies` | `Spec => ListFollowsReply` |
| `BindingsAreKept` | `Spec => BindingsStay` |

Assumptions: a surface of a CLI has no API endpoints (they are one `oneof`) and another's default base URL is
one (`SurfacesAssumption`); commands have a method, a base URL and a list of models
(`CommandsAssumption`); what replies have in their arrays are lists (`RepliesAssumption`).

    IInv == ProviderOfCommand /\ SyncOfProvider /\ Typed

`ProviderOfCommand` says that the provider still is what its command resolved to, but for its
models; `SyncOfProvider` that the request under way is the one its provider makes now. The base URL asked is
thus a function of the command, compared with what the user gave by cases on the surface. The list is made by a
recursive function over the names of the reply, so `ListFollowsReply` needs an
induction for replies of every length. It is done in set form: the numbers of turns after which
the list is not the first mentions so far, were there any, would have a least one.

### ProviderObservability and the collectors

For any calls, schemas and replies of the vendors:

| theorem | statement |
|---|---|
| `SuccessRestsOnEverything` | `Spec => []ExecutedReadEverything` |
| `BlockedMeansDenied` | `Spec => []AuthBlockedIffDenied` |
| `ScarcestIsShown` | `Spec => []ScarcestBucketShown` |
| `ReadingsAlwaysAddUp` | `Spec => []ReadingsAddUp` |
| `ExecutedReadingIsShown` | `Spec => []GaugesShowLastProbe` |
| `QuotasDoNotCompete` | `Spec => []RowsDoNotCompete`, if `QuotasListedOnce` or no schema is of `Listing` |

Assumptions (`MistralAssumption`, `CerebrasAssumption`, `CodeAssistAssumption`, `StudioAssumption`,
`ConsoleAssumption`): in a body that decoded, what the Go type declares a slice is a list and what it
declares a number is one. Nothing is assumed of their lengths and values.

    IInv    == DOMAIN probe = Tasks /\ \A t : ProbeInOrder(t) /\ OutcomeOfMisses(t)
    ReadInv == schema \in Schemas /\ exists \in BOOLEAN
               /\ ReadingsSound /\ RecordingInOrder /\ GaugesAreNumbers

The first two theorems rest on `IInv`: a probe that goes on has lost only exchanges its
collector may do without, and one that ended has the outcome its misses call for (`OutcomeOfMisses`).
Each collector's verdict on each reply is a lemma of its own.

The others rest on `ReadInv`. A reading is the last of several exchanges, so `ReadingsSound` also says
what every collector has `Gathered` between them: Mistral's billing rows before its limits, Cerebras's rows of the
organizations so far, AI Studio's limits before their use. The rows are built by loops (`FlattenSeq`, sums,
indexes and `GroupSummary`, all recursive functions), and lemmas about them hold for lists of
every length: `Loop` and `Induction` do once, over sets of numbers, what an induction over each would.
`FlattenMembers` and `RowsAppended` say what a loop that appends has appended, `CostsAlongLoop` that a total kept along the
loop is the sum over the rows it appended, from which `BillingReads` has Mistral's total; `QuotaShown` is the arithmetic of one quota,
`Covered` that of AI Studio, where what is left may exceed the limit by a negative use and no further.
`RecordingInOrder` says that what a probe has still to record are the last rows of its reading and that the
gauges show the others, unless another probe recorded. `ScarcestOfList` is the comparison of `GroupSummary` with the
minimum for any list of buckets; `ScarcestBucketShown` states it of the lists TLC enumerates.

`QuotasDoNotCompete`, that a reading has one value for a gauge, has a hypothesis of its own. Codex, Gemini and InternLM
make their rows of a fixed list of windows, groups or types, and nothing has to be assumed of
their vendors. Four collectors (`Listing`) make rows for each entry the vendor lists, and no code looks for an
entry that comes twice: a second Antigravity model of the same id would put two values on one gauge. `QuotasListedOnce` says what is asked of the
vendors, entry by entry, and no more: of AI Studio only that one tier has one value, for that the limits of
several tiers are not mixed is what `SelectTier` is for; of Cerebras that an organization, and in it a model of a
region, comes once, though organizations may share models. It is not an assumption of the module: the other theorems do without it, and
`ListedOnceAssumption` in `MCProviderObservability` has TLC evaluate it on the bodies of the run. The rows of one thing carry all its
labels and show a value that depends on the metric alone (`Valued`), so rows of two things compete only if labels leave out what tells
them apart (`ValuedAgree`). `LoopAgrees` lifts this to a loop; for Cerebras `InTurn` says between its exchanges
that the organizations still to be read have no rows yet.

### Only model-checked

All liveness (`EveryCallReturns`, `WorkflowCloses`, `UpdatedCredentialIsProbed`, `SweepsClose`, `EveryProbeEnds`,
`EveryPodServes`): fairness is out of reach of the provers at hand. Every invariant and every action property
of the passing runs, and the two refinements, are stated by a theorem. No module declares a recursive operator; the loops are recursive functions and the
folds of the community modules.

## 5. What the checks found

`lease_flight`. `catalogProbeSingleflightKey`
(`providerservice/providercatalogs/probe_executor.go:142`) has the protocol, the
base URL, the surface and the operation of a request. It has neither the
provider nor the headers resolved from its credential. The test of the function says
that *"singleflight keys should remain request-specific"*
(`probe_executor_test.go:27`). In the run one provider's caller joins the flight
of another provider on the same surface and so gets the models, or the error,
of the other's credential. For vendors whose model list does not depend on the
account the results coincide.

`observability_assembled`. `assembly.go:49` builds the only runner without an
auth client, and nothing sets the base URL in a collection's input. The collectors of Mistral and
Google AI Studio need the first, that of MiniMax the second: their probes end
failed before any request, although `mistral.yaml:287`, `google.yaml:139` and
`minimax.yaml:191` declare them.

Found on the way, by reading, and modelled as the code has it, without a run of
their own:

* `assembly.go:43` gives the catalog probe no header resolver, and every operation is
  a secured one: as assembled every catalog probe fails ("auth header resolver is
  not configured"). The constant `HasResolver` is this choice;
  with FALSE `ModelCatalog` has no step. `NewEgressAuthCatalogProbeHeaderResolver` is used by tests only.
* The materializer passes an empty vendor id on: the filter for Google's models
  (`catalog_filter.go`, which has tests) drops nothing and no canonical model is ever bound; a
  model missing from one reply loses its binding for good.
* A reauthorization takes over the provider's models, but `sessionTargetSnapshot`
  does not keep them: it empties the model list. The provider it upserts has no probe status
either, so both `next_allowed_at` are gone and the post-connect probe the same poll submits is not
throttled, however recent the last probe (`Register`; `MinimumIntervalKept` counts anew from there).
* A connect to `custom.api` accepts any base URL, a template that was not filled in
  included; `AskedWhereConnected` leaves these out.
* `codeassist` returns an untyped error for 401 and 403, so the Code Assist probes fail
  where `observability_unauthorized_error.go:8-9` speaks of blocked credentials (`Untyped`).
* OpenRouter's collector tells a refused key by two phrases in the text of the SDK's error
  (`vendor_observability_collector_openrouter.go:37`): a 401 or 403 in other words ends failed, another error
  that has them ends auth_blocked.
* A Google AI Studio series whose points are all negative leaves more than the limit.
* No surface names the collectors of Codex, Gemini CLI, Antigravity and Meituan, and
  `providers/gemini/provider.go:38` names a probe id, "google-ai-studio", that no collector has.
* OpenRouter's rows carry the label "30d" and show the last item listed for a model, one day's.
* Gauges stay after a failed enrichment and after the provider is deleted; overlapping probes
  interleave their rows (`GaugesShowLastProbe` excludes them).
* The amount in a Gemini summary may come from another bucket than its percentage.
* `EnsureIntervalSchedule`'s update replaces the schedule's state, so that an operator's pause ends
  with the next start of a pod; two releases that start at once may leave one schedule of
  each (`overtaken`).
* Nothing calls `observability_surface_dispatch.go`, `retryObservabilityTransientPlatform` and
  `TemplateManagementService.Apply`.

Behaviour the properties describe rather than rule out, because nothing in the
repository promises more: the lost update on rows (`AtomicUnlessStale`), two
processes probing after an overrun (`ExclusiveUnlessOverrun`), a second registration by overlapping
polls (`RegistersOnceUnlessDisturbed`), a rename undone by a session that began before it
(`RenameKeptUnlessNewer`), duplicate or dangling providers after a
timed-out attempt (`OneProviderUnlessUnsure`, `NoDanglingReference`), probes
twice within their interval when tasks overlap, a stale edit restores an old status or a
reauthorization empties it (`MinimumIntervalKept`) and
orphaned credentials after a handler that died (`NoOrphanCredential`).

## 6. The plan

Done: the modules above. Left, in order of importance:

1. The extents of what is excused (`unsure`, `excused`, `overran`): that each is reachable, and no
   wider than it has to be, which TLC could show by runs of their own.
2. The reauthorization's effect on the model list (on the probe status it is in `ProbeScheduling`), in a composition of
   `ConnectSession` with the payloads of `ProviderStore`.
3. The two handlers that update a credential, once what the auth service does with an
   update of a credential that was deleted is part of the repository.
4. Model identity normalization, once the materializer passes a vendor on.

## 7. Not modelled, and why

* Authentication update handlers: their effect, a credential replaced and the probe submitted
  after, is in `ProbeScheduling` (`UpdateCredential`). What else they change
  is kept by the auth service, outside this repository, and their workflows only read.
* `modelservice/modelidentity`: rewriting of model names, which never takes part in a
  materialization as assembled (section 5).
* Templates: `Apply` is an upsert like a create, and no RPC calls it.
* gRPC transports and views: argument checks around the modelled operations.
* Telemetry, HTTP clients, session cookies, the runtime contract: I/O, stateless helpers and
  interfaces. JSON decoding and time formats of the collectors: a body that does not decode is
  one reply, a time a number.
* The contents of the surface, vendor and CLI registries: constant after start; their
  lookups are operators of `ConnectResolution` and `ModelCatalog`, and the runs take small ones.
* Query, body and header parameters of a catalog operation and the response kinds of
  Codex, quota buckets and Antigravity: no operation in the source has them.
* `IDPart`: what it can collide on are the characters after the 80th; the effect of a
  collision, a submission that is absorbed, is in `ProbeScheduling`.
* `api/v1alpha1`: types and generated code.
* Clock skew between processes: one clock. With skew the lease's expiry is
  only as good as the skew is small against 300 seconds.
* Flags, listeners, shutdown: after `Serving` a pod only fails.
