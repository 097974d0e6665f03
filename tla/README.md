# A TLA+ model of ModelPilot

ModelPilot is an OpenAI-compatible gateway: a request names a model, or `auto`, and the gateway
ranks the configured provider/model pairs, calls them one after another until one answers, and
keeps measurements, routing decisions and a circuit breaker per pair in SQLite. A benchmark
command measures answer quality into the same database and a dashboard reads it. This directory
models the parts of it where order, failure and concurrency decide whether the system is right.
Paths below are relative to the repository; `B` stands for `backend/src/modelpilot`.

## Inventory

| Component | State it keeps | Operations | What is hard | What makes it correct |
| --- | --- | --- | --- | --- |
| circuit breaker domain (`B/health/models.py`) | one immutable record per pair | `initial`, `advance`, `record_success`, `record_failure` | late outcomes, inclusive boundaries, time that goes back | the documented transition table |
| health manager (`B/health/manager.py`) | `provider_health` table | `update` | a failed read or write between call and record | a stored record always comes from a transition |
| probe coordinator (`B/health/probes.py`) | leases by pair, in memory | `try_acquire`, `release` | cancellation, restart, two requests at once | at most one probe; no lease outlives its call |
| gateway service (`B/service.py`) | per-request attempts, health updates | `complete` | every `await` lets other requests change circuits and leases | no candidate lost; records agree with what was executed |
| router (`B/router.py`) | none (reads stores) | `rank_with_explanation`, `evaluate_health`, the four signals | failed reads, stale rankings, thin or aged evidence | a blocked pair is never ranked, each pair once; scores stay in their unit and follow only enough evidence |
| explanation, decision (`B/metrics/models.py`) | immutable documents | `with_health_updates`, `with_served_by` | validators that raise after the answer arrived | they never raise; they tell what was executed |
| request log (`B/logging.py`) | deque of bounded length | `append`, `list` | its limit, restarts | each answered request once |
| health API (`B/health/api.py`) | none | `GET /v1/health/providers` | runs in a thread beside the event loop, one clock reading for many reads | it lists the health of one instant or answers 503 |
| metrics store and API (`B/metrics/`) | attempts, pricing, decisions | record and aggregate | reads without a transaction | snapshots that are sound, listings without gaps, totals that cover what is counted |
| pricing (`B/metrics/costs.py`, the `pricing` table) | one row per pair | `estimate_cost`, look up, overwrite | a price that changes during a call | a cost is what the upstream counted times one price, never an invented zero |
| schema (`B/sqlite_database.py`) | the `schema_version` row, tables | chain of migrations | crash, second process | all or nothing |
| benchmark runner, CLI (`B/benchmarks/`) | run results | run, save | timeouts against answers, crash before saving | every case has one result |
| benchmark store and API (`B/benchmarks/sqlite_store.py`, `api.py`) | `benchmark_runs`, `benchmark_case_results` | `save_run`, get, list | several statements of several processes | an immutable history read as of one moment |
| quality aggregation (`B/benchmarks/quality.py`) | none | `aggregate_quality` | mixed configurations | only comparable runs count |
| providers (`B/providers/`) | HTTP client | `complete` | clock, timeouts, bodies and usages of any shape | an outcome whatever the upstream does |
| dashboard (`frontend/`) | shown data, one request slot per panel | load, refresh, select, deadline | answers out of order, effects that run late, unmounts | what is shown is what was asked for last; loading ends |
| backup script (`scripts/backup-sqlite.py`) | the destination file | check, create, copy, verify, remove | writers beside it, two invocations, kills | a verified backup is a committed database; nobody else's file is touched |
| acceptance scripts (`scripts/`) | none | start servers, drive a browser | | |

One asyncio event loop runs all requests: `complete()` runs without interruption between two
awaits of `provider.complete`, and this is the grain of the models' steps. The synchronous
endpoints run in worker threads but only read. The benchmark command is another process on the
same database file, and so is the backup script. A crash loses leases, the request log and requests in flight; the tables
survive.

## Modules

| Module | Models | |
| --- | --- | --- |
| `CircuitBreaker` | `B/health/models.py`, `B/health/eligibility.py` | pure: records, transitions, eligibility |
| `CircuitContract` | the transition table a circuit promises | abstract specification |
| `HealthControl` | manager, coordinator, admission, fail-open reads | what concurrent calls do to circuits and leases |
| `HealthApi` | `B/health/api.py` | the endpoint's thread, composed with `HealthControl` |
| `Gateway` | `complete()`, explanation, decision, rows, log | composed with `HealthControl` |
| `SchemaContract` | the upgrade a store's constructor promises | abstract specification |
| `SchemaMigration` | `B/sqlite_database.py` | several openers of one file |
| `RunHistory` | the history the benchmark store promises (`B/benchmarks/store.py`) | abstract specification |
| `BenchmarkStore` | `B/benchmarks/sqlite_store.py` and its reads in `api.py` | composed with `SchemaMigration` |
| `DatabaseBackup` | `scripts/backup-sqlite.py` | composed with `BenchmarkStore` |
| `BenchmarkQuality` | `B/benchmarks/quality.py`, the validators of `results.py` | pure: runs, evidence, snapshots |
| `BenchmarkRuns` | `B/benchmarks/cli.py`, `runner.py`, `save_run` | several commands on one store |
| `RoutingSignals` | the scoring functions of `B/router.py`, the snapshot's validator | pure: confidence, blends, signals, weighted score |
| `MeasuredRouting` | `record_attempt`, the recent window, the provider listing, the ranking's order | rows, clock and a listing that interleave |
| `ProviderCalls` | the adapters' normalisation (`B/providers/`), `B/metrics/costs.py` | pure: exchange, outcome, cost |
| `CallRecords` | adapter call, pricing lookup, attempt row, `GET /v1/metrics/summary` | calls, prices and a summary that interleave |
| `DashboardReads` | `frontend/lib/api.ts`, `latest-request.ts`, `useRead`, the page's load and refresh | reads of one page |
| `HealthControlProofs`, `HealthApiProofs`, `GatewayProofs`, `DatabaseProofs`, `BenchmarkProofs`, `MeasuredRoutingProofs`, `CallRecordsProofs`, `DashboardProofs` | | theorems and proofs |
| `MCHealthControl`, `MCHealthApi`, `MCGateway`, `MCDatabaseBackup`, `MCBenchmarkRuns`, `MCMeasuredRouting`, `MCCallRecords` | | values and symmetry for TLC |

`CircuitBreaker` keeps a record of the code as a record here, field by field. A transition that
raises is the predicate `Rejects`, so that `UpdatedHealth` can say what the caller does then
(nothing: `_update_provider_health` logs a warning). The six error types that count are one value;
they are never told apart by a transition.

`HealthControl` has a clock, the table `health`, the `leases`, and for each task the pair it is
calling, how that call was admitted and when it started. `Begin` is the code from the admission
check to the await. `Settle`, `SettleAndFallBack` and `Abort` are the code from the return of that
await to the next await or the end of the request, so the health update, the release of the lease
in `finally` and the admission of the next candidate are one step, as they are on the event loop.
A request for a named model is admitted as `Explicit`: the router applies no health filter to it,
but its outcomes do reach the circuits. `StoreMayFail` makes each health read and write a choice;
`ClockMayStepBack` lets the wall clock, which is not monotonic, go back.

Mapping of the actions: `Begin` is `_invoke_candidate` up to its await, with `_admit_probe` as
`Admission` and `evaluate_health` as `EvaluateHealth`; `Returns` is the attempt's health update
(`_update_provider_health` over `ProviderHealthManager.update`); `Restart` is the process's stop
and start on the same database; `Tick` is the wall clock, external to the code, which `ClockMayStepBack`
lets go back.

`HealthApi` lets the endpoint's steps come between those of `HealthControl`: `Ask` is its one clock
reading, `ReadRecord` the read and evaluation of one pair's record, `ReadLease` the lookup of its lease,
which comes later, and `Answer` the list or the 503. `EvaluationRaises` is what makes it a 503: the read
fails, or the record is newer than the clock reading, because the loop wrote it meanwhile or the clock
was set back. The history variable `told` remembers what the table said of each pair when the clock last
showed the time asked.

`Gateway` conjoins each of those steps with the request's own bookkeeping: the ranking made at
arrival, the walk along it (`Reaches` says which candidates a step passes over, and why), the
attempt list, the attempt rows, the request log and the routing decision. The order of a ranking
depends on scores, which `Gateway` leaves to `MeasuredRouting`: here every order is possible. An explicit model's requests
walk the same loop without admission checks, as in the code.

`SchemaMigration` has the committed database, the draft the transaction in progress sees, who holds
SQLite's write lock and where each constructor call is. One step is one call `_initialize` makes
(`Begin`, `ReadVersion`, one migration, `Stamp`, `Commit`); a migration's own statements are one step
because the lock hides them and an error undoes them together. `Raises` is what the code finds wrong
(an unsupported version, a table of version 4 that is already there), `Fail` what SQLite may report
at any statement, `Close` the end or death of the opener's process. A database is its version and its
tables, without columns and indices. `SchemaContract` knows only a database and the set of open
stores.

`BenchmarkStore` goes on where the constructor has returned. The committed rows are `rows`, the writer's
`pending`, and `writer` is the lock a migration and a save compete for. `BeginSave`, `InsertRun`,
`InsertCase` and `CommitSave` are the statements of `save_run`; an exception in between leaves the
connection's context and rolls back (`Undo`). A read is `Call`, `Select`, which fixes the snapshot of its
transaction, and `Restore`, which sees that snapshot in every later SELECT. `RunHistory` knows only a growing
sequence of runs and reads that return a prefix of it: the mapping takes a read in progress to what it asked
and how long the history was then.

`DatabaseBackup` adds the script. `file` says who created the destination and what it holds, `sidecar` that
a `-wal` or `-shm` file of its name is there. The online backup is one step: SQLite restarts it when a
writer commits, so what it copies is a committed database. `RemoveDestination` is the `except` clause,
`Kill` the death that leaves everything where it is. A file under the destination's name may be there from
an earlier day.

`CallRecords` follows a call from `start_call` to its row. `Answer` is the `try` block of an adapter: the
exchange of `ProviderCalls` becomes a success, a failure, or an exception, because `failed_outcome` runs in
the `except` clause and its own validator may refuse a status beyond 599 or a clock set back. `FailInstead`
is a success that was refused and is turned into a failure by the same clause, with a clock reading of its
own. `LookUpPricing` and `RecordAttempt` are two steps although the event loop runs them together, because
an operator's change of price is another process. Nothing in the program changes a price; `UpsertPricing`
is the store's operation for it. The summary is `Summarize` (its clock reading), `CountAttempts` (its first
query) and `SumCosts` (its last); the query of decisions between them counts another table.

`BenchmarkRuns` has a clock, the saved `history`, and for each invocation of the command its phase
and the run it holds in memory. `EndCase` is one `_run_case`, whichever of answer and deadline came
first; `Conclude` builds the run and applies its validator; `Save` is the one transaction of
`save_run`; `Exit` is the exit code. `Lose` is every way of ending without a saved run.
`BenchmarkQuality` has what the gateway later makes of the history: `Ordered`, `Sources` and
`Snapshot` are `aggregate_quality`, `ConsistentSnapshot` its validators as far as they are about
counts and sources. All runs are of one target and one suite, since a run of another is refused or
never read.

`RoutingSignals` scores in integers: `Unit` stands for 1.0, a confidence is a number of samples above
the floor out of `FullConfidence`, and division rounds down where the code has floats. What is lost is
the explanation's rounding to six places; that scores stay in their unit does not depend on the grain.
The code's constants (`MIN_MEASURED_SAMPLES` and so on) are CONSTANTS.

`MeasuredRouting` has a clock, the attempt rows in the order of their ids and the one call of
`list_provider_metrics` that can be interrupted: the endpoint's, which runs in a worker thread.
`ListPairs` is its first query, `BuildNext` the query of one pair, `EndListing` the answer or the 503.
The router makes the same calls on the event loop, where nothing comes between them, so a ranking is a
function of the state: `Signal` and `Rank`. A row's finishing time may lie before the clock by up to
`Delay`, because an attempt's row is written after the attempt, and `ClockSetBack` may then put rows in the
future. `quality` is what the benchmark source says of each pair, a constant here: it does not change
between an attempt and its ranking, and `BenchmarkRuns` has its dynamics.

`DashboardReads` has the refresh counter, what the user last asked of each panel (`version`), the key
each panel's effect last ran for, the requests under way and what each slot was given. A panel is
rendered with its new key before its effect runs, so an answer to the old key may come in between;
`Visible` is what `useRead` returns then. An abort rejects its requests before the
next event, when the slot already belongs to the new read (`AfterAbort`). The check `isCurrent` and the page's sequence number turn out to
be a second line of defence: since an aborted request has already rejected and the Refresh button is
disabled while the page loads, dropping the check alone changes nothing a user can see.

## Runs

| Run | Question | Bounds |
| --- | --- | --- |
| `health_faults` | do circuits and leases stay sound under every fault, and what does the endpoint list meanwhile | 1 pair, 2 tasks, threshold 2, clock to 2 and back, store fails, restarts, the endpoint reads the pair |
| `health_normal` | does the control plane keep its promises when store and clock behave | 2 pairs, 2 tasks, threshold 2, clock to 2 |
| `gateway_requests` | do answers, logs, explanations and decisions agree with the calls made | 2 pairs, 2 requests, log of 1, circuits fresh or open at the start |
| `gateway_faults` | does one request walk its ranking right and end, under faults | 3 pairs, 1 request, store fails, clock steps back |
| `shared_database` | is an upgrade all or nothing, is the store a history, is a backup a committed database | 2 openers, 2 backups, 2 runs of 1 case, 8 databases: versions 0 to 5, an unstamped file, leftovers of version 4 |
| `benchmarks` | do commands end, do exit codes tell what was saved, does the newest attempt of each case count | 2 invocations beside no run or an older one, 2 cases, 2 configurations, clock to 1 and back |
| `measured_routing` | are snapshots, listings, scores and ranks sound for any rows arriving at any time | 2 pairs, 3 observations, windows of 3 rows out of 5, age 1, clock to 2 and back |
| `dashboard_reads` | is what the page shows what was asked for, and does loading end | 2 panels, 2 metrics resources, each asked twice |
| `recorded_calls` | do outcomes, rows and the summary tell what the upstream said | 2 calls, 6 exchanges, 2 prices, a window of 1 instant, clock to 1 and back, store fails |
| `clock_back_opens_gate` | (violated) is an open circuit blocked whatever the clock does | 1 pair, 2 tasks |
| `probe_success_lost` | (violated) does a successful probe close its circuit | 1 pair, 2 tasks |
| `priced_at_the_end` | (violated) is a call priced as of its request | 1 call, 2 prices |

`MaxTime` bounds the clock and is the only bound on an unbounded quantity in the guards; the
failure count is bounded by it in effect, because a circuit at the threshold rejects failures for
at least one instant. Clock 2 with a cooldown of 1 lets a circuit open, half-open, fail its probe,
reopen and recover. Two tasks are enough for every pairwise race of outcomes against a circuit or
a lease; a third adds interleavings of the same pairs. Three pairs are the fewest on which a
request can skip a candidate and still fall back, or revisit one. `LogLimit` 1 with two requests
overflows the log. `CHECK_DEADLOCK FALSE` stands where requests arrive once each: when all have
ended and the clock is at its bound the gateway model really stops; so do benchmark invocations,
each of which runs once.

Two openers are one that upgrades and one that waits for it, or two stores of which one reads while the
other saves; one whose constructor failed or whose process died may come back. Two
backups are the fewest that compete for a destination. One case makes a run two rows, enough for a reader
between them. Two invocations and an older run make three runs: enough for a late save between two others,
for ties in the finishing time, and for evidence from one run that survives a partial second and a
third. Run ids are 1, 2 and 3 with the older run in the middle, so that neither the order of saving
nor that of the clock is the order of ids. Two cases in two categories are the fewest for which a
refused key leaves a run partial.

The window of `measured_routing` overflows (5 rows, 3 kept), its rows age out (clock 2, age 1), and the
five rows may all be of one pair or shared. The store starts with one of six histories of three rows, of one
pair or of both, so that the run's steps are spent past the sample floor; two more rows make a window overflow
by up to two and pass the floor of any pair. `MinSamples` 1 and `FullSamples` 3 give a
confidence of none, half and full. `FailureNeverRanksBetter` compares a failure with an unpriced success of the
same latency, not with the state before it: the code's ramp makes the stronger statement false (with
six successes of six and a configured reliability of .5, one more attempt that fails raises the score,
because it also raises the confidence in the other six). The exchanges of `recorded_calls` are a client error nobody expects, a refused key, a status of 600, a usable
body with a complete usage, one with half of it and one whose usage is invalid; one price is zero, so that
a cost of zero and no cost differ. Two panels are the list of runs and the detail that needs it; the third has
the code of the first. Two resources are the fewest for which the page's read is partly answered. Two
asks give a read that replaces another and one that is replaced. The page may be left for good, hence
`CHECK_DEADLOCK FALSE`.

Symmetry is used only in runs without liveness properties.

Fairness: `FairSpec` assumes of each task, and `FairGatewaySpec` of each request, only that a call
in flight ends; `FairApiSpec` assumes the same, and nothing of the endpoint. The shared HTTP client has a timeout (`B/main.py:111`) and the adapters turn it
into a failed outcome. That a call is made again, that a request arrives or that the clock moves
is not assumed. In `SchemaMigration` a constructor that was called keeps running: its only wait is
for the lock, and the busy timeout (`B/sqlite_database.py:26`) bounds it, so it gives up or gets it. In
`BenchmarkRuns` a running invocation keeps running: every case has a deadline (`runner.py:101`). In
`DashboardReads` an effect whose key changed is run (React flushes effects after a render) and the browser's
timers fire (`frontend/lib/api.ts:226`); the server need not answer and the user need not act. No
failure, crash or retry is ever assumed to happen or to stop.

## What the code does and the documents do not say

* `clock_back_opens_gate`. A record newer than the clock makes `advance` raise; `evaluate_health`
  catches that like a failed read and lets traffic through. `docs/v0.3/CIRCUIT_BREAKER.md:6` says
  an open circuit is blocked until its deadline.
* `priced_at_the_end`. A call is priced with the row its pair has when its attempt is recorded: in the trace the
  price is set after the answer and before the lookup.
  `docs/v0.2/ARCHITECTURE.md:71` says the version selected for the request timestamp, and
  `docs/v0.2/DATA_MODEL.md:141` that a new price is a new row; the store keeps one row per pair and
  overwrites it.
* `probe_success_lost`. A call that does not hold the probe's lease may fail while a probe is in flight. It opens the
  half-open circuit again and the probe's success is rejected. `docs/v0.3/SCOPE.md:51` says successful probes
  close the circuit. In the trace the call is an automatic one, admitted when the pair's health was unknown and
  still in flight after the outage and its cooldown; an explicit model's call, which is never checked, could do
  the same.

## Proofs

All theorems hold for every value of the constants that satisfies the named assumptions: every set of
pairs, tasks, processes, rows or reads, every threshold, cooldown and bound. The assumptions that are more
than the type of a constant are said below.

`HealthControlProofs` begins with the circuit alone: a transition accepted on a sound record gives a sound
record. `RecordSound` is stronger than the code's own validator: it also puts the failure count on the
right side of the threshold and the deadline a cooldown after the opening. Without the first the
opening rule cannot be shown to keep it, and without the second nothing ties a blocked circuit to
the failure that blocked it.

The control plane's inductive invariant is `IInv`: types, sound records, and leases held by
exactly their probes. Its theorems are invariants (`TypeCorrect`, `LeaseSafety`, `RecordSafety`)
and action properties (`OpenUntouched`, `NoTimeReversal`). `PastSafety` assumes a clock that does not
step back; `OpenBlocksTraffic` also a store that answers, which is what the first violated run
shows to be necessary. `SingleFlightSafety` needs more: `FlightInv` says that of two automatic calls
that started after a circuit's deadline one would have needed the lease the other held, and it
needs a cooldown above zero, because with a zero cooldown an outage and its recovery share an
instant.

`ContractImplemented` shows that `HealthControl` implements `CircuitContract` under the mapping that
advances each stored record to the present: a call's outcome is one transition of one pair, the
passing of time is `CoolDown` of the pairs whose deadline it reaches, everything else stutters.

`HealthApiProofs` proves that the endpoint's steps leave the control plane alone (`ApiKeepsControl`), so the
theorems above hold beside it, and that each entry it lists is the health of the instant asked
(`ListsOneInstant`). `AInv` says that the history and the table agree on every record the endpoint would not
refuse. It is kept because an accepted outcome stamps its record with the present (`UpdatedIsStamped`): a
record that changes under a later clock becomes one the endpoint refuses.

`GatewayProofs` proves that `Gateway` implements `HealthControl`: each of its steps is a step of the
control plane or leaves it alone, so every theorem above holds of the gateway too. Its invariant `GInv` adds
to `IInv`, in layers of which each uses the ones before it:

* `Placed` and `WalkInv`: a request calls the candidate at its place in the ranking, and everything it
  attempted stands earlier. `AttemptsSafety` is not inductive without the place, because the next attempt is
  chosen by the walk and not by the attempts.
* `RowsInv`: a request's attempt rows are those attempts at those places (`RowsSafety`).
* `TaleInv`: what a request knows of each pair at every moment, before its end as well as after it. A pair
  that is not ranked was ineligible when the ranking was made (`TellsRanking`); every place behind the walk
  was tried or barred (`TellsWalk`); what was tried was eligible, what is marked as a probe was called, and all
  that stands before the pair tried first is barred (`TellsTried`). `CandidatesSafety`, `ExplanationSafety` and
  `DecisionSafety` are its readings at the end. The last clause is what makes `selected` the pair tried
  first, since the explanation is computed from the ranking and the bars, not from the attempts.
* `LogsInv`: the entries of the log are of different requests that were answered and report what they came to; a request
  without one finds the log full or a restart behind it (`LogsSafety`). It stays true after the end because an
  answered request never moves again (`EndedStays`).

For each layer a step is first abstracted to what it does to one request (`Arrives`, `Moves`, `Waits`, `Drops`;
`Comes`, `Continues`, `Fails`, `Serves`, `Rests`, `Quits`; `Takes`, `Cleared`, `Unlogged`), and the invariant is
shown to survive those. The proof needs a finite set of candidates, which the registry's configuration is.

`DatabaseProofs` is about the one file that constructors, saves, reads and backups share.

* `SInv`: a constructor in its transaction has the write lock, and `Transaction` says what its draft is by its
  place in the chain: the committed database and the tables of the migrations that ran. `VersionTellsTables` is
  not inductive without it, since `Commit` publishes whatever the draft has become. `MigrationIsAtomic` is the
  refinement of `SchemaContract`: `Commit` is the abstract `Open`, `Close` the abstract `Close`, everything else
  stutters. That the lock's owner is a constructor is not part of `SInv`, because a save takes the same lock;
  this is why both theorems can be stated again for the whole database (`SharedVersionSafety`,
  `SharedMigrationIsAtomic`).
* `StoreInv`: the committed rows are whole runs, the writer's rows are those and the part of the run it has
  inserted, and the snapshot of a read is an earlier state of the rows that is not older than its call. From
  it `StoreIsHistory`, the refinement of `RunHistory`: the commit of a save is the abstract append, a read
  the abstract begin and end. No read answers with an error about rows that are being committed: an answer
  outside `Activity` would be one.
* `BackupInv`: whoever is between creation and report created the file that is there, no other database's log
  is beside it, and what it copied was committed after its check (`Owner`). `DestinationSafety` is the ownership read
  off each step; `BackupSafety` adds what a copy holds.

The proofs assume that `None` is none of the runs, answers, databases or files it stands beside
(`StoreAssumption`, `BackupAssumption`).

`BenchmarkProofs` has `BInv`: the results of a run are a prefix of the suite's with a refused key only
at its end, and `PhaseTells` what each phase says of the run and of the history. `RefusedOnlyByClock`
follows because a concluded prefix satisfies every clause of the validator but the one on its times;
`ExitSafety` because an exit code is decided after the transaction that saves the run.

The aggregation is a fold over sorted runs, and its sums are folds over categories. What a fold computes is proved
without a theorem of induction: the fold is a function that satisfies its own recursion, so is the answer in
closed form, and of the sets on which they differ there would be one with the least cardinality
(`LeastNatural`), which the recursion refutes. So it is shown that any finite set of runs with different ids can
be sorted (`Sortable`) and that `Ordered` is such a sequence, that the replay leaves each case with the last run that
attempted it (`SourcesLatest`), which is the newest (`SourceIsNewest`), and that counts over the categories add up to
the count over all cases (`CategoriesAddUp`). `SnapshotIsConsistent` then goes through the validators of the snapshot; its
centre is that the newest run of all is itself the source of every case it attempted, which is why
`latest_run`'s figures never exceed the combined ones.

These lemmas need runs with different ids. `HInv` adds that to `BInv`: every run in the history passes its validator
and is the only one of its id, and an invocation that may still save is not in it. `LatestAttempts`
and `SnapshotSafety` follow; `EvidenceKept` also needs that a step leaves every saved run in the history
(`HistoryGrows`). Of an initial history it is assumed (`RunsAssumption`) that its runs pass the validator and have ids
that differ from each other and from the invocations': `run_id` is the primary key of `benchmark_runs`.

`MeasuredRoutingProofs` first proves of the pure definitions that a blend of two scores is a score
(`SignalBounded`, `FinalScoreBounded`), that a limit of at least one keeps the newest row of a window, and that any
snapshot built from any rows passes its validator (`MetricsSound`). `SnapshotSafety` and `SignalSafety` then
need only types. `ListingSafety` has the invariant `ListedHaveRows`: the pairs still to read have rows that match the
listing's own instant; it is kept because rows are only added and the instant stays the same, which is why
the code's single `as_of` matters. `IndependentEvidence` and `FloorSafety` follow from what one row does to a window.
`RankSafety` compares two tables that differ in the success of their last row only (`Differ`): their windows,
medians and sample counts are the same and the successes of one are among those of the other, so that every step of the
reliability signal (the smoothed rate, the blend, the weighted score, the rank) is shown monotone in the
number of successes, and no other signal changes. It compares rows the store need not have seen (`Thinkable`):
a success and a failure of every latency that was observed. The proofs use that `Observation` has a slowest and
a dearest member (`RoutingAssumption`), as any set of finite values has, and that there are finitely many pairs.

`CallRecordsProofs` has `RecordsInv`. `Follows` says of a call at each of its steps how its outcome fits its
exchange (`Fits`): a success of a usable answer, a failure of another, or a failure made of a usable answer under a clock
that was set back. With it `AttemptTruthful` says what the row will tell, before it is written, which gives
`EscapesSafety` and `RowsTruth`. `SummaryInv` says what the summary counted; it survives the rows added between its queries
because a row's time and cost never change and ids only grow (`SummarySafety`).

`DashboardProofs` has `DInv`. Keys are ordered; a panel shows a key that is at most its effect's, which is at
most the one asked for (`Ordered`), and a read under way is its slot's only one, is the controller's and has
shown nothing yet (`Owned`). `ReadsSafety` reads the second off directly. `ShownSafety` needs the first:
a result is visible only under its own key, and no key is reached twice, so an old result cannot become visible again.
`ResultsSafety` needs both.

Model-checked only: liveness (`LeaseComesFree`, `RequestsEnd`, `OpeningEnds`, `InvocationsEnd`, `LoadingEnds`),
which TLAPS does not prove, and the three violated runs. Every other property of a passing run is a theorem.

## Not modelled, and the plan

Done: the circuit (`CircuitBreaker`, `CircuitContract`), the control plane (`HealthControl`) and its
endpoint (`HealthApi`), the gateway (`Gateway`), the shared database (`SchemaMigration`, `BenchmarkStore`,
`DatabaseBackup` with their abstract specifications), benchmarks (`BenchmarkQuality`, `BenchmarkRuns`),
measured routing (`RoutingSignals`, `MeasuredRouting`), calls, costs and the summary (`ProviderCalls`,
`CallRecords`), the page's reads (`DashboardReads`) and the proofs above. Next, in this order:

1. The two violated safety properties under the assumption each lacks, as far as they are not yet theorems:
   `OpenBlocksTraffic` is one for the first, `CostAtRequestTime` lacks prices that stay the same during a call.
2. That a read of `BenchmarkStore`, which returns some runs of the history, gives the aggregation a history of
   which the theorems of `BenchmarkProofs` hold.

`RecordsOnlyAdvance`, `RecordsInThePast`, `RowsOfOthersIgnored`, `RoutingTypeOK` and `SchemaTypeOK` are stated and
proved (the last inside `SInv`), and no run checks them: the theorems cover every instance.

Left out for good: request payloads and error wording, the removal of secrets from messages, suite file
parsing, text evaluators and the acceptance scripts, which are pure I/O or stateless code a unit test covers;
the decision and failure listings, which are single SELECTs; the 503 of the metrics summary and the `LIMIT` of
`list_runs`; which exception a benchmark case's `TimeoutError` comes from; the mapping of errors to HTTP statuses beyond
what decides a state; rendering in the dashboard.
