# mailclear in TLA+

mailclear pre-validates lists of e-mail addresses: a list is uploaded, cut into
batches, run by a pool of workers through a pipeline of checks that ends in a DNS
lookup, and the verdicts are stored in PostgreSQL. This directory models the parts
of it in which things happen at the same time or fail half-way, checks the models
with TLC on small instances, and proves their safety with TLAPS for instances of any
size.

## The system

| Part | State it keeps | Operations | Talks to |
|---|---|---|---|
| Import and job manager (`handlers/import.go`, `jobs/manager.go`) | the request's position in its list | accept an upload, requeue, create, submit, track completion | jobs table, pool |
| Worker pool and batch handler (`workers/pool.go`, `jobs/handler.go`) | queue, task in hand | take, validate, insert rows, count progress, mark failed | pipeline, both tables |
| Repositories (`storage/jobs_repo.go`, `storage/results_repo.go`) | tables `jobs`, `emails` | one statement or transaction each | everybody above |
| Boot, signals (`app/app.go`, `cmd/*/main.go`) | process up, signal context | stale-job recovery, SIGTERM, crash | jobs table |
| Administrator (`handlers/admin.go`, `admin_ops.go`) | none | cancel, cancel all, force-fail, clear cache, reload list | tables, caches, registry |
| Pipeline and score (`internal/validation`) | the `*Email` of an address | seven stages, short circuit, score | resolver, disposable list |
| Resolver (`dns/resolver.go`, `dns/client.go`, `dns/rate.go`) | singleflight map | LookupMX, IsCached | caches, semaphore, upstream DNS |
| Caches (`internal/cache`) | LRU (L1), Redis (L2) | Get with refill, Set, expiry | resolver |
| DNS semaphore (`dns/adaptive.go`) | limit, inflight, waiters | Acquire, Release, SetLimit | resolver, controller |
| AIMD controller (`dns/adaptive.go`, `dns/stats_reader.go`) | previous counters, limit | read counters, tick | Prometheus counters, semaphore |
| Importer (`internal/importer`, `handlers/import.go`) | column of the addresses, addresses seen | read a row, skip a header, drop a duplicate | job manager |
| Exporter and paged results (`jobs/exporter.go`, `handlers/jobs.go`) | the cursor | one page after the other | table `emails` |
| Typo corrector (`validation/typo`) | the list of common domains | Suggest | pipeline |
| Disposable list (`validation/disposable`, `storage/disposable_repo.go`, `cmd/seed-disposable`) | the registry, table `disposable_domains` | boot, updater, reload, seeding | pipeline, administrator |

What is hard in it: a job's status is written by five parties without a common
lock; rows and counters are two transactions; the queue and the completion tracker
live in memory and die with the process; two processes run the same recovery; the
semaphore is a hand-made condition-variable protocol with cancellation; a flight of
singleflight runs under its leader's context; the controller reads moving counters;
a cancellation can hit the addresses of a batch in different stages; concurrent
transactions insert keys that cross, and draw ids that commit out of order while a
reader pages by id; four writers replace or extend one list of disposable domains.

## Modules

| Module | Models | State and actions |
|---|---|---|
| `JobSystem` | a job from upload to final status | One step is one SQL statement or one channel operation. `status`, `processed`, `fresh`, `rows` are the tables; `upload`, `source`, `pc`, `next` the request; `tracker`, `queue`, `hand`, `phase` the memory of the API process; `up`, `ctxDone` its life. A call to the database succeeds, fails, or takes effect and still reports an error. |
| `JobContract` | what a client that polls a job may rely on (abstract) | the request's phase and the job's list, status, counter and rows, with the eight ways in which they may change |
| `AdaptiveSemaphore` | `AdaptiveSemaphore` with `sync.Cond` spelled out | One step is one critical section. The wait list is a sequence; `Signal` takes its head, `Broadcast` all of it; a woken call competes for the mutex again. |
| `SlotLimiter` | what users of the semaphore rely on (abstract) | a set of holders and a limit: granted one by one and only below the limit, never taken back |
| `AIMD` | rate reader and controller | one step per counter read; queries finish in between, and a read may fail and give 0 |
| `Resolver` | LookupMX and IsCached over both caches | one step per cache operation, upstream query or locked section; the semaphore is used as `SlotLimiter` gives it |
| `TypoCorrector` | Damerau-Levenshtein and Suggest | operators only: `FillRow` is the inner loop, `Round` the outer one with its rotation. `Alignment` is the reference definition of the distance, `SuggestionFits` that of a suggestion |
| `Validation` | the addresses of one batch in the pipeline | one step per stage; an address is its form, domain (perhaps with a space in front) and role; LookupMX is any answer `Resolver` allows. `mode` says whether the batch belongs to a job (concurrent, then stored) or to `POST /validate/batch` (one by one, then answered). `listed` and `table` are the registry and `disposable_domains`, changed by `RunOnce`, `ReloadDisposable` and `SeedChunk`. |
| `Importer` | an upload, row by row | `line`, `emailColumn`, `seen`, `collected` are the reader and the handler; one step is one row. `IsContentOf` says what a file holds without the loop. |
| `ResultTable` | what BulkInsert promises (abstract) | the rows of a batch appear at once or not at all, one per normalised address |
| `ResultStore` | table `emails` of one job | BulkInsert row by row as PostgreSQL runs it: an id is drawn, then the row is placed, or waits for the transaction that holds its key. `reader` is ExportCSV or a client that follows `next_cursor`. |
| `DataPath` | one upload from file to export | composes `Importer` and `ResultStore` with Create, Submit, the workers and the tracker |
| `MC*` | instances for TLC | constants only |
| `*Proofs` | theorems about the module they are named after | `ResultStoreProofs` has the lemmas about the table; the theorems that rest on them are those of the composition, in `DataPathProofs` |

The modules meet at their interfaces: `Resolver` uses the semaphore through
`SlotLimiter`, which `AdaptiveSemaphore` is proved to implement; `Validation` uses
LookupMX as the set of answers that `AnswersSound` describes and as a call that
returns (`EveryLookupReturns`); `JobSystem` has the validation of a batch as one
step that ends in rows or in an abort, which is what `Validation` details. A
cancelled batch can come to the INSERT in both models: a lookup cut short makes its
address risky and returns no error. The insert step of `JobSystem` is that of
`ResultTable`, which `ResultStore` is proved to implement. `DataPath` keeps the data
that `JobSystem` abstracts (which address of which row ends where) and leaves out what
`JobSystem` has (crashes, recovery, the administrator, lost answers on table `jobs`).

Details of the code that decide the model:

* `CHECK jobs_finished_after_started` (migration 0002) rejects Submit's UPDATE for
  a job that was cancelled before; the overlap of the two statements is the state
  `starting`.
* `emails_job_email_unique_idx` and the `DISTINCT ON` of BulkInsert make one row per
  normalised address, so `rows` can be smaller than the upload; `Norm` collapses
  two of the addresses in the instances.
* `App.Shutdown` is not reached by the API: after SIGTERM the workers leave, `main`
  stays in ListenAndServe, and the process is killed (`Crash`).
* The rates of `AIMD` are compared as integers, which agrees with the
  floating-point comparison for correctly rounded division.
* `DISTINCT ON (job_id, email_normalized)` has no ORDER BY, but finding the distinct
  keys sorts the staging table, so the rows of every batch are inserted in the order of
  their keys. `Staged` depends on that, and so does `NoCircularWait`.
* The column of the addresses is chosen once, on the first row, before that row is
  recognised as a header.
* encoding/csv reports a failed read again and again, and `Each` takes every error but
  io.EOF for a line to skip; with the client still connected it never returns.
* At boot the table of disposable domains replaces the embedded list only if it has
  rows; a reload replaces the list in any case.
* An L1 entry filled from L2 has ttl 0, which means no expiry (`forever`).

## Runs

Passing runs:

| Run | Instance | Shows |
|---|---|---|
| `jobs_one` | 1 job of up to 3 addresses (two with one normalised form), 2 workers, batches of 2, every environment event | `InFlightOnce`: no address is in two batches in flight. `ProgressNeverOverstates`: the counter never runs ahead of the rows. `CompletedMeansPersisted`. `ImplementsContract`: the job is created once, runs only if it was not ended before its Submit began, gains rows and never loses them, counts only what is stored, and completes only when all is counted; the one way back from a final status is a Submit already under way. `CancelBeforeStartHolds`. |
| `jobs_live` | 2 jobs, 1 worker, queue of 1, write errors, deadline | `EveryJobTerminates`; `RequeueCopies`: a requeue stores rows of its source only |
| `sem_slots` | 4 calls, all cancellable, limits 0, 2, 3 | `InflightExact`, the refinement `ImplementsLimiter`, `CancelUnblocks`; `WakeupsCoverFreeSlots`: while calls wait, each slot has a holder, a woken call, or a failed call that took a wakeup with it. `EventuallyServed`, as long as no context ends while its call waits |
| `aimd_limit` | 6 queries, reads that fail, every zone of tick reached | `LimitInRange`; `WindowsAreReal`: a reading that falls behind the last one never becomes a huge window; `CutOnlyByNewTimeouts` |
| `resolver` | 2 calls, 2 domains, 1 slot, a retry, cancellation, timeouts, SERVFAIL, truncation, Redis errors, expiry, eviction, ClearCache | `OneLeaderPerFlight`, `AnswersSound`, `SlotsExact`; `OnlyCancelPoisons`: the caches hold definitive answers only until somebody's context is cancelled; `EveryLookupReturns`, with followers of a cancelled leader and leaders that wait for the other domain's slot |
| `validation` | 2 addresses of 12 shapes, concurrent or one by one, cancellation, the default weights; a chunk to seed, an update and a reload at any point; all pairs of words over two letters | `VerdictExplained`, `RowsAndCountersAgree`, `LookupsAreSane`, `OwnCancelNotStored`, `CommonDomainsCaught`, `EveryBatchEnds`. `DistanceIsAlignment` and `SuggestionSound`: the rotating rows, the bucket of the first letter and the pruning by length lose nothing. |
| `data_path` | 6 files, 2 batches whose keys cross, 2 workers, 2 connections, pages of 1, an export or a filtered client, failing statements, a client that leaves | `NoCircularWait`: the batches wait for each other's rows, never in a circle. `OldRowsExported`: a reader misses no row that was committed when it started and sees none twice. `JobHoldsTheFile`: no job for part of a file. `ExportIsTheUpload`: file in, file out. The refinement `ImplementsResultTable`. `EverythingSettles`. |

Runs that refute a statement of the repository's own comments and documents:

| Run | Statement | What happens |
|---|---|---|
| `jobs_tracker_race` | manager.go:114, a job marked elsewhere is left alone | a cancellation between the tracker's SELECT and its unconditional UPDATE is overwritten with completed |
| `jobs_quick_restart` | app.go:234, the next boot fails the jobs whose batches were queued | after a restart within five minutes they stay running, and recovery runs only at boot |
| `sem_stranded` | adaptive.go:45 and 87, Acquire blocks only when full and Release frees a waiter | a waiter whose context is done swallows the Signal, and the next one sleeps beside a free slot until some later Release |
| `validation_score_decides` | stages/disposable.go:11 and README.md:219, a disposable address is classified by its score | `Apply` asks for the list first: the status is `disposable`, which no score gives (the example of README.md:117 has `risky`) |
| `resolver_poisoned` | resolver.go:109, only definitive answers are cached | an A query that fails for a cancelled context (or REFUSED) is cached as no_mx |

Other observations made while modelling, without a run of their own: a boot of the
second process fails a live job whose batch takes longer than five minutes
(app.go:159); a requeue of an unfinished job loses the addresses not stored yet
(manager.go:173); one failing SELECT ends a tracker for good (manager.go:111); the
timeout counter is read twice, so the published error rate can exceed 1, and it
counts no servfail although its help text says so (stats_reader.go:38,
metrics/dns.go:52); a caller that missed the cache before a flight ended starts a
second lookup (resolver.go:131); lookups refill L1 between the two halves of
ClearCache (admin.go:254); a rejected address keeps the score of its earlier
signals, so `invalid` occurs with 40 points (scoring.go:24), which README.md:222
classifies as `risky`; `ann@ x.com` passes Syntax because ParseAddress skips the space,
but Domain keeps it (normalize.go:41, syntax.go:59): TLD finds `com`, the list of
disposable domains is asked without the space, and DNS, the cache and the list of free
providers are asked for ` x.com`, while `email_normalized` is `ann@x.com`; a counter that
cannot be read is remembered as 0, so that the next tick charges old timeouts again
(stats_reader.go:59); an
address with a display name passes Syntax and then fails TLD because Domain keeps
the closing bracket (syntax.go:59); the default weights add up to at most 75, below
the 80 of `valid`, so that no address is ever valid without other weights
(defaults.go:98); a header row `name,email` makes the first column the one that is
read, for the column is picked before the header is recognised (csv.go:54), and
isHeader does not look for `@` although its comment says so (csv.go:86); a file that
fails to read keeps the request busy until the client leaves (csv.go:47); an export of
a running job passes over rows that commit behind its cursor (exporter.go:15), and an
empty page answers `next_cursor` 0, from which a polling client starts again
(handlers/jobs.go:105); the administrator's reload of an empty table, and an update
with an empty body, leave no disposable domain at all, although updater.go:12 calls the
embedded list the base that is always there.

Deadlock checking is off: jobs, calls and addresses are finite, and a system with
nothing left to do may stop.

**Bounds.** `MaxUpload`, `MaxQueries`, and the sets `Jobs`, `Workers`, `Emails`,
`Calls`, `Callers`, `Files`, `Txs`, `Words`. Two batches, two workers and two jobs are the least at which
batches overlap, a queue fills and jobs mix; three positions with batches of two
give a short last batch. Four calls let a Signal, a Broadcast and a cancellation
meet with a slot held. In `resolver` two callers are a leader and a follower, a leader and a
latecomer, or two leaders of different domains that need the same slot; its safety
properties are proved for any number of callers and domains. `REFUSED` and network errors
are left out of the run because they poison a cache as a cancelled query does; the proofs
of `AnswersSound`, `SlotsExact` and `OneLeaderPerFlight` have every fault. One of the domains of `validation` is another one with a space in front. The
thresholds of `aimd_limit` are scaled to windows of a few queries so that all zones
of tick occur. In `data_path` two batches hold the same two keys in opposite order, the
least at which transactions wait for each other, and pages of one row put commits
between any two pages; a third batch multiplies the states beyond the time of a run.
`Words` has all words of up to four letters over two letters: a transposition needs two
rows before the current one, and a distance of more than `MaxDist` needs four letters.
What the proofs cover holds without these bounds.

**Fairness.** Goroutines that can run do run (weak fairness of every step of the
process). A sender blocked on a full channel is served in turn, since Go queues
senders first-in first-out: strong fairness of `SubmitBatch`. The tracker's
24-hour deadline passes. A DNS query ends, because the client has a timeout.
In `Resolver` the leaders of other domains hold their slots for finitely many steps, so
that weak fairness gets a call through Acquire. What the real semaphore may do beside
that is lose a wakeup when a context ends while its call waits; `EveryLookupReturns` and
`EventuallyServed` are stated for behaviours in which none does, and every other
cancellation is included. In `DataPath` the
request, each worker, the tracker and the reader run, and a statement that waits gets
its connection or its lock when the holder's transaction ends (pgxpool and PostgreSQL
both queue; weak fairness is enough, for the batches of one job are finite). Clients,
administrators, failures and SetLimit are never assumed to happen.

## Proofs

Every safety property of the passing runs has a theorem; two of the theorems have a
condition, given below. The theorems hold for every value of the constants that satisfies the
assumptions next to their declarations. In each module the
property is not inductive as it stands; what follows says what has to be known besides.

`JobSystemProofs`. The counter is trustworthy only because every batch that is still to
be counted is disjoint from what has been counted. `JobInv` says so: no position of the
list is in flight twice (`InFlightOnce`), a worker about to count has committed its rows
(`TasksSound`), and `processed` is at most the number of `Settled` positions, those
persisted and not in flight (`CountSound`). One lemma per action shows that it preserves
each conjunct; the sets Queued, Held and Settled move by whole batches, and cardinality
facts turn that into the inequality. Theorems: `JobInvariant`, `TypeCorrect`,
`HandedOverOnce`, `ProgressHonest`, `CompletedIsComplete`, `RequeueIsExact`,
`FinishedIsFinal`, `CancelledEarlyIsNeverRun`, `ContractKept`. The last but one is about all that follows a
cancellation: a finished job whose Submit was not past its UPDATE (`NeverRun`) has no
batch cut and never will, so `Settled` is empty and the counter 0. `ContractKept` is the
refinement of `JobContract`, one instance of it for each job: the phase is read off `pc`
(`RequestPhase`), the rest are the job's own columns. It takes, besides `JobInv`, that a
job leaves its traces in order (`Traced`): nothing is queued or tracked before its row is
there and its request past the UPDATE. Queueing, validating, ageing and the steps of
other jobs stutter; a crash is the contract's `GiveUp`; a sweep over many jobs is `End`
for each job it hits. `FinishedIsFinal` states `TerminalStays`, the part of the contract
about final statuses, by itself. The set `Env` is
arbitrary, so the theorems hold with every failure the model has.

`AdaptiveSemaphoreProofs`. `SemInv` ties the wait list to the calls' positions and
`inflight` to the number of holders. From it: `SemaphoreTypes`, `SlotsExact`, the
refinement `SemaphoreImplementsLimiter` (each step is a step of `SlotLimiter` or leaves
holders and limit alone), and `NoWakeupIsLost`: whenever somebody waits, holders, woken
calls and failed calls together cover the limit. With `SemInv` that is inductive: a Release
takes a holder away and wakes a waiter if there is one, a woken call that finds its
context done moves from the woken to the failed, and SetLimit wakes all.

`AIMDProofs`. `AimdInv` bounds what the reads so far can have added up to by what the
counters they read stand at now, whatever reads failed. With the guards of the reader that
gives `OnlyRealWindows` and `OnlyNewTimeoutsCut`; `LimitAlwaysInRange` follows from the
clamp for all bounds.

`ResolverProofs`. `ResInv` adds to the properties what a call relies on between two of
its steps (`HandsSound`): the A query is asked only of a name without MX, and what is
about to be cached is definitive. The slots in use are counted as the set of calls
between Acquire and Release, which every step changes by at most one call. Theorems:
`ResolverTypes`, `FlightsWellFormed`, `NoDomainMadeUp`, `SlotsGivenBack`. The run
`resolver_poisoned` shows that `CachedIsDefinitive` is false in general;
`OnlyCancellationsPoison` proves it up to the first cancellation in every instance without
refusals and network errors, with all other faults: no fourth way leads to a poisoned cache.

`ValidationProofs`. `ValInv` has for every stage what is known of an address that comes
to it (`InPlace`): nothing is decided before MX, the domain is the one of the address and
has a known TLD after TLD (a garbled one has not: no TLD has the bracket or semicolon that
it ends with, `DomainsAssumption`), and one of three ways leads to the score (`Judged`): a short circuit, no
answer, an answer. `BatchExact` counts the verdicts of a batch that is written, and
`CoreListed` says that domains common to all sources never leave the list. Theorems:
`ValidationTypes`, `VerdictsJustified`, `RowsMatchCounters`, `OnlySaneLookups`,
`CommonAlwaysCaught`, for every weight and threshold, and `CancelledNotStored`. The last
one assumes, as the run does, that a lookup fails with a context error only when the
batch's own context is done; a batch whose lookup joined the flight of another caller
can store the verdict that this caller's cancellation spoilt.

`TypoCorrectorProofs`. What a loop computes for all inputs takes induction, and the
induction theorems of the library cannot be instantiated by the provers. It is had
instead from the well-foundedness of the naturals over sets of numbers (`Induction`,
`PairInduction`), and a loop that ends is a function over its rounds (`Recursion`). With
that, the inner loop fills a row from left to right (`FillRowFacts`) and the outer one
keeps the last two rows (`RoundsFacts`). All rows together are a table in which every
entry is the least of its `Costs`, the edges included (`TableIsOptimal`); there is only
one such table (`OptimalIsUnique`), so it is that of the reference: `DistanceRight`. Two
facts about the reference justify the short cuts of Suggest: a distance is at least the
difference of the lengths (`LengthBound`), and it is zero for equal words only
(`ZeroIsEqual`). `SuggestionRight` follows for every word, list and distance. In
`ValidationProofs`, `SuggestInv` carries this over the stages: `DistancesExact`,
`SuggestionsSound`.

`ResultStoreProofs` and `DataPathProofs`. `StoreInv`: keys and ids are unique, an open
transaction goes through its keys in ascending order and each key of its batch has a row
that stays, a row of its own, or is still to come (`Covered`); what a reader has
passed it has seen. Sorting needs no induction: ranks are cardinalities, and an
injection of a finite set into its ranks meets them all. A circle of waiting transactions
would have one that waits for the greatest key, whose holder waits for a greater one.
A page ends at the greatest id it returns or at the end of the table, so nothing below
the cursor is passed over but rows that commit later. The commit of a transaction is
the insert of `ResultTable`, its rollback the failed call, and its other steps stutter. `PathInv` adds the import loop
(`ImportInv`: the list has the first rows of the file's addresses, each at the place that
its rank gives it) and the batches as slices that do not overlap (`Offsets`): when as many
places are counted as the list is long, every place is counted, so every address is stored.
Theorems: `PathInvariant`, `DataTypes`, `InsertsNeverDeadlock`, `PagingComplete`,
`BulkInsertIsAtomic`, `JobIsTheFile`, `ExportIsExact`.

Only model-checked: everything under fairness (`EveryJobTerminates`,
`EventuallyServed`, `CancelUnblocks`, `EveryLookupReturns`, `EveryBatchEnds`,
`EverythingSettles`), which is out of the prover's reach.

## Not modelled

The shutdown order and Pool.Stop: the API does not reach App.Shutdown, and the worker
process never submits, so that Stop never meets a Submit. The Batcher of the importer,
the retry and backoff helpers and the domains table (no callers). The metrics of the
pipeline; token buckets of the rate limiter and TTL jitter. The columns of an exported
line and of a result. HTTP routing, dashboard, health, statistics, log streaming and
systemd restarts (I/O without state); configuration, logging, migrations.

## Plan

1. (done) `JobSystem`, `AdaptiveSemaphore` over `SlotLimiter`, `AIMD`, `Resolver`,
   `Validation`, with runs; proofs for the first three.
2. (done) `Importer`, `ResultStore` over `ResultTable`, `DataPath`, `TypoCorrector`;
   the synchronous batch and the sources of the disposable list in `Validation`.
3. (done) Proofs of `Resolver`, `Validation`, `ResultStore` and `DataPath`, of `TypoCorrector`, and
   of `CancelBeforeStartHolds`.
4. (done) `JobContract`, which states what a client of a job may rely on, and the proof that
   `JobSystem` implements it.
