# A verification project for the Xero pipeline

This directory holds TLA+ models of the programs in this repository that move
accounting data from Xero to BigQuery, the TLC configurations that check them,
and TLAPS proofs of their most important properties. It is meant to be read
beside the code; `PROJECT.json` names, for every definition, the lines it
stands for.

1. [The system](#1-the-system)
2. [The models](#2-the-models)
3. [What the runs check](#3-what-the-runs-check)
4. [Fairness](#4-fairness)
5. [What is proved](#5-what-is-proved)
6. [What the models found](#6-what-the-models-found)
7. [What is not modelled](#7-what-is-not-modelled)
8. [Plan](#8-plan)
9. [Running it](#9-running-it)

## 1. The system

```
   xero sync  --(one SyncJob per part)-->  xero-sync  --> xero-client --> Xero
   (xero-cli)                              fan-out        limiter, retry,
      |                                      |            pagination
      |                                      v
      +---- manifest ------------------>  bucket (GCS)
                                             |  one event per sidecar
                          +------------------+------------------+
                          v                                     v
                  Cloud Function                          backfill_gcs
                  (one invocation per event)              (threads, jobs)
                          +---------> parsers + BQWriter <------+
                                             v
                                      BigQuery staging  --> Dataform
```

The uploader is a Rust command that runs and exits; the ETL is Python, once as a
Cloud Function and once as a batch program. They share nothing but the bucket.

### Components, their state and what makes them correct

| component | state | operations | correct when |
|---|---|---|---|
| `xero sync` (`xero-cli/src/sync.rs`, `resolve.rs`) | flags, entities, date chunks, parts, merged manifest | resolve the mode and the entities, cut a backfill into chunks, run a part, merge, write the manifest | a backfill fetches each date of the range once for each entity, its parts never write the same key, an explicit window is the one fetched |
| `SyncJob::run` (`xero-sync/src/lib.rs`) | units queued and in flight, outcomes | prime the pump, refill on completion, fetch and upload one unit, settle it | at most `clamp(max_concurrent, 1, 6)` units in flight, none lost or reported twice, a failing unit touches no other |
| request loop and pagination (`xero-client/src/lib.rs`) | attempt, page or offset, pages in memory | request, retry, read the body, stop or go on | an end that is called healthy means all data was fetched; retries and pages are bounded |
| `TenantRateLimiter` (`rate_limit.rs`) | in-flight counter, last seen quota, one per tenant in a process-wide registry | acquire, throttle, release on Drop, read headers | no permit is lost or leaked, the cap is respected |
| raw sink (`xero-gcs/src/sink.rs`, `key.rs`, `manifest.rs`) | objects, sidecars, manifest | put the object, then the sidecar | a sidecar never precedes its object, keys are written once, the manifest tells the truth |
| Cloud Function (`etl/cloud_function/main.py`) | one file | read the sidecar and the page, route by endpoint, run a parser | an invocation that ends well has staged all it read |
| `backfill_gcs` (`etl/backfill_gcs.py`, `gcs_reader.py`) | job queue, threads, files in completion order | scan, take a job, read, parse | every job ends; the newest version of a record wins |
| `BQWriter` (`etl/common/bq_writer.py`) | table locks, temp tables, staging tables | `merge()`: lock, schema, temp table, create the target, `MERGE`, unlock | one row per key, unless two processes insert it at the same time |
| access tokens (`xero-auth`) | one client and one cached token per tenant | return the cached token, or mint one and store it | a token is of its own tenant and lives as long as its margin says |
| configuration (`xero-common/src/config.rs`) | read once at start-up | load the blocks of credentials, the bucket, the tuning | no configured tenant is passed over in silence, raw keys stay out of the manifests |
| health check (`xero-cli/src/health.rs`) | count of failed checks | one token per tenant, the bucket | healthy means that every tenant's credentials are good |
| local sink (`xero-gcs/src/sink.rs`) | files below a root | resolve a key, write | a file lands where its key says, inside the root |
| cron layers (`deploy/crontab.example`, `xero-sync/src/mode.rs`) | none but the bucket | incremental, open-sweep and rolling-full reads that overlap | together they leave no change of a record behind |

The remaining components (Dataform models, migrations, images, the loader of
`tooling/`) are in section 7.

### How they interact, and what is hard

* **Interleavings.** Up to six units run as futures of one task and switch at
  every await; they share the limiters. Cloud Function invocations, the backfill
  and its threads merge into the same tables; the table lock covers one process
  only, and what holds between processes is what BigQuery makes of concurrent
  `MERGE` statements.
* **Atomicity.** `acquire()` tests a counter, sleeps and increments. `merge()`
  reads a schema and creates a table in separate calls. `put_raw` writes two
  objects. A parser merges two tables.
* **Partial failure and crashes.** Each of those sequences can be cut at any
  point by an error or by the end of the process. Nothing rolls back.
* **Delivery.** Bucket events arrive at least once and in no order.
* **Order.** Files of a backfill job are processed as their reads complete.
  Answers of the token endpoint are stored in the order they arrive, which need
  not be the order in which the tokens were issued.
* **Stale state.** A unit keeps its token for all of its pages. Records change,
  close and move between pages while a read is under way, and reads of different
  layers overlap and finish in any order.
* **Boundaries.** Page caps, empty and short pages, offsets that do not advance,
  months of different lengths, the last date there is.

`PROJECT.json` lists these hazards one by one, each at its line, with the
properties that would show it going wrong.

## 2. The models

| module | models | extends or uses |
|---|---|---|
| `TenantCallers` | the futures of a process and their tenants | |
| `RateLimiter` | the per-tenant limiter | `TenantCallers` |
| `SyncRun` | one run of the uploader, from the first unit to the manifest | instance of `RateLimiter`; refines `FanOut` |
| `FanOut` | abstract: what a run promises | |
| `RawFetch` | one pagination loop against the data it pages through | |
| `ParsedFetch` | the fetch functions that return parsed records | `RawFetch`, which it implements |
| `SyncCommand` | one `xero sync` command | a part stands for one `SyncRun` |
| `Startup` | configuration and key prefixes | `LocalSink` |
| `LocalSink` | the path arithmetic of the dry-run sink | |
| `TokenCache` | the access tokens | `TenantCallers` |
| `TenantAccess` | a process from its environment to its end: composition | `Startup`, `TokenCache`, `RateLimiter` |
| `SyncLayers` | overlapping reads of the cron layers and what they leave in the bucket | |
| `Staging` | the ETL, from bucket events to the staging tables | refines `StagedTables` |
| `StagedTables` | abstract: what the ETL promises of its tables | |
| `...Proofs` | theorems | the module they are about |
| `MC...` | constants for TLC | the module they instantiate |

### RateLimiter

`inFlight` and `minRemaining` are the fields of `LimiterState` that the code
reads; `phase` is where a caller is: outside, sleeping for the quota, or holding
a permit. `TakePermit` is `acquire()` without a sleep, one step because the
futures of a task switch only at awaits; `Throttle` and `WakeAndTakePermit` are
the two halves of an `acquire()` that sleeps, and the second does not repeat the
test. `DropPermit` is `Drop`; its subtraction saturates, as in the code, which
could hide a double release: `PermitAccounting` would show it. A caller that
finds the cap reached polls every 50 ms; that is stuttering. Milliseconds are
left out: a sleep may end at any moment.

### SyncRun

The composition of the fan-out, the request loop, the limiter and the sink. A
unit is an index into `units`, the list of (tenant, entity) pairs. `pc` is the
await a unit is at; each action is the code from one await to the next:

| step | action | code |
|---|---|---|
| `token` | `FetchToken`, `TokenFails` | `fetch_token_for_tenant`, `report_params` |
| `acquire` | `AwaitQuota`, `Send` | `limiter.acquire()` |
| `request` | `RespondSuccess`, `RespondRetryable`, `RespondFatal`, `RespondNotModified` | the match on the response |
| `body` | `ReadBody`, `BodyFails` | `resp.bytes()`, the end of the page loop |
| `backoff` | `BackoffEnds` | the sleep before a retry |
| `object`, `sidecar` | `PutObject`, `PutSidecar` and their failures | `put_raw` |
| | `WriteManifest`, `WriteManifestSidecar`, `WriteManifestFails` | `write_manifest` |
| | `Crash` | the process is killed |

`Settle` is the completion of a future: the outcome is appended and the next
queued unit takes the place, in the same step, as in the refill loop. A failed
upload may have reached the bucket, so both outcomes are possible. A body is
reduced to its number of records and to whether its journal numbers advance.

### FanOut

Each unit is queued, running, ok or error; units start in
order and at most `Width` run; pages of a unit become visible in order, only
while it runs, and a unit that ends ok has shown one; the manifest is published
once, after all have ended, and says how each ended. `SyncRun` implements it
under the mapping `StatusOf`, the page numbers of a unit's sidecars, and
`ReportOf`.

### RawFetch

`SyncRun` cannot tell which records were fetched. `RawFetch` can: a request is
one step and a record is its journal number. Xero is the environment. It cuts
its data into pages of any length up to the page size, adds records while the
loop runs, and gives the answers in `Faults`. `Raw` chooses between the loops
that keep bytes (used by the uploader) and the ones that parse. They differ on a
body that is not JSON (`FetchNotJson`): the first count no records, the second fail.
On JSON without the array of the entity (`FetchNoArray`) both find no records and
stop as on an empty page. `misread` is a history variable: it is set when a loop
finds no records in an answer for a page that has some.

### ParsedFetch

`fetch`, `fetch_with_extras` and `fetch_by_business_date`: each lets Xero filter
as far as the endpoint can (`Selected`; Xero may also ignore the filter), runs a
loop of `RawFetch` step by step, filters again (`Filter`) and, for Budgets and
ContactGroups, replaces each row by its detail (`ExpandRow`, where a failed
detail keeps the row). Dates and times are numbers, and a record may lack either.

### Startup, LocalSink, TokenCache, TenantAccess

`Startup` says which blocks of an environment become connections (`Connections`),
which environments are refused, and which prefix a run's keys get, with the
fallback of a dry run. Two blocks may name one tenant (`Naming`): the one with the
least number is read first and keeps it. `LocalSink` is `resolve_within_root` component by
component, with what `Path::join`, `Path::components` and `PathBuf::pop` do (`Popped`:
"/" has no parent and stays), and `Follow`, what the operating system makes of
the resulting path. The walks over a path are recursive functions of its length.

`TokenCache` has one action for each side of an await of `fetch_token`: `UseCached`,
`AskToken`, `IssueToken` (the server), `ReceiveToken`, `MintFails`. Nothing is held
between the lookup and the store, so callers of one tenant mint side by side, and
the last answer to arrive stays cached. `expires_at` counts from the arrival of
the answer and the true lifetime from the issue: the difference is the age of an
answer on the wire, which `MaxLatency` bounds.

`TenantAccess` composes them with the limiter. `xero sync` loads its configuration,
builds its sink and runs units that take a token once and then page behind
permits; `Unauthorized` is the 401 of an expired token, which is not retried. The
sink takes a body and then its sidecar (`PutRaw`); if one of the two is refused or
fails, the body may stay without it (`PutRefused`, `PutFails`).
`xero healthcheck` tries one tenant after the other and counts failures. What a
unit does in detail is in `SyncRun`.

### SyncLayers

Reads of one entity by the layers of the crontab. A read takes its stamp
(`x-synced-at`) and its filter when it starts, while the run date, which bounds the
filter of rolling-full, dates from the start of its command, up to `MaxQueue` days
before. It fetches one record per page in a fixed order (`FetchPage`), until its
loop ends (`EndFetch`), and then puts page after page into the bucket
(`UploadPage`); when it fails, what it has uploaded stays there (`ReadFails`). Xero's
users change records meanwhile: `Change` moves `UpdatedDateUTC`, `LinkedChange` does
not. A record that leaves the filter moves later ones to a page that was fetched
before, and such a read counts as disturbed; so does one whose loop ends before the
data, at the cap or at a page it misread. `bucket` is every capture uploaded so far.
`due` is the business dates a read answers for; `covered`, `swept` and `rolled`
record what each layer claims to have covered, and the properties say what that is
worth.

The properties are about the bucket: `Latest(x)`, the captures of a record with
the latest stamp, is what one knows of it who goes by `x-synced-at`, as
`_dedup_by_key` does within a batch. They do not say that the staging row is that
capture. The Cloud Function merges in the order its events happen to run, so a row
may be older than what the bucket has: that is the run `late_event`.

### SyncCommand

A command line is a record of flags. `Resolve` and `ResolveBackfill` are
`resolve_mode` and `resolve_entities` with all their refusals. `FullOnce`,
`NextChunk` and `RunChunk` are the backfill: one part in full for the entities
without a business date, then one part per chunk. Dates are numbers and month
addition is a constant of which only two things are assumed: it moves forward,
or it finds no date. `RunPart` adds a part with the time it starts at, in
seconds, because that time is in every key.

### Staging

A worker is an invocation or a thread. `ProcessGcsUpload` is the whole of
`process_gcs_upload` up to the parser, with its early returns in the order of the
code. `TakeJob` takes a job and reads the tenant's files: any subset (a failed
read is logged and skipped), in any order (reads complete in any order). The steps
of `Merge` are the calls of `BQWriter.merge`; every call may fail, and a process
may die between any two. A table is the sequence of its rows, because `MERGE` into
a table can produce copies. A `MERGE` has a start (`StartMerge`, which remembers in
`base` how many rows the table has) and a commit (`RunMerge`), and `Merged` is what the
statement makes of the rows it has seen. What happens between the two is BigQuery's
affair and is modelled as it documents it: statements that update rows of one table
conflict, and the later one is run again on the table as it is then (`Rerun`) or
fails (`CallFails`); one that only inserts conflicts with nothing. A `MERGE` may
commit and its caller not learn of it. `origin` is a history variable: who inserted
each row, in a `MERGE` that had seen how many. Files land in any order of their sync
times. A row that a parser
makes has a place: the file, the record and the line it comes from. `Dedup` is
`_dedup_by_key`, and keeps the row of each key that no other row of the batch
beats by its timestamp or, at equal timestamps, by coming later. A row keeps its
key and the sync time of its file, which stands for its other columns. NULL keys
are distinguished: Python finds them equal and SQL does not.

### StagedTables

What is left of the ETL without its locks, schemas, temp tables, queue and
processes: files land; a worker takes some of them, brings their header rows into
the header table in one step, then their child rows into the child table in one
step, and only then reports ok; it may leave at any time, and what it has brought
in remains, whether it has learnt of it or not. `Upsert` takes one row of each key
of the batch, of a header the newest (`Collapsed`), in place of the rows that had the
key. If all workers are one process (`Serial`), of all such rows; otherwise rows that
others brought in unseen may stay.

`Staging` implements it. `StageMap` gives a worker the table its next `MERGE` is for,
and moves on when the `MERGE` has returned; so `RunMerge` is `Upsert`, the end of a
parser is `Report`, an exception or a `Kill` is `Leave`, of one worker or of all of a
process, and every other call of `merge()` is a stutter. `RowMap` forgets the order of
rows and their copies; when there can be copies is `OneRowUnlessRaced`.

## 3. What the runs check

| run | instance | properties |
|---|---|---|
| `fan_out` | 3 units of different kinds (page loop, offset loop, report), 2 at a time, a limiter of 2, throttling, one retry, 2 remote pages and a cap of 2 | `ConcurrencyBound`, `OneOutcomePerUnit`, `PermitsBalanced`, `CapNeverBlocks`, `SidecarsUsable`, `ManifestBacked`, `PermitsReturned`, `AppendOnly`, the refinement `ImplementsFanOut`; `RunEnds` under fairness |
| `limiter_stale_test` | 4 callers on a limiter of 3, one on another; quotas below, at and above the threshold | `CapRespected` is violated (section 6) |
| `fetch_parsed` | 4 organisations in every cut into pages of at most 2, 35 calls, a cap of 3 pages, every fault | `HealthyUnlessMisread`, `NoRecordTwice`, `CapMeansFull`, `BusinessWindowExact`, `ModifiedWindowExact` |
| `fetch_raw` | the raw loops on 5 shapes of data | `HealthyMeansComplete` is violated (section 6) |
| `command` | all mode flags, all ranges in 8 days, chunks of 0 to 2 months in a calendar of months of 3, 2, 3 and 1 days, 5 choices of entities | `ManifestCoversRange`, `PartKeysDiffer`, `ExplicitWindowKept` |
| `access` | 18 environments with `sync --tenant` and `healthcheck`, 8 prefixes with real runs and with dry runs to 6 roots; 2 callers of one tenant and one of another, tokens that live 3 units of time, answers up to 1 old | `EveryBlockServed`, `HealthyMeansAll`, `TokenGrace`, `TokenOfOwnTenant`, `UnauthorizedIsLate`, `PermitAccounting`, `WrittenWhereNamed` |
| `dry_run` | one dry run with the default `--local-dir ./out` | `RefusedMeansEscapes` is violated (section 6) |
| `layers` | 2 records, 2 overlapping reads, 3 layers, 3 days, on each of which one read starts | `NoChangeMissed`, `SweepRepairs`, `RollingRepairs` |
| `staging_events` | 2 invocations, 5 files (two versions of an invoice, the sidecar of a manifest, two endpoints without a parser), repeated and late events, overlapping `MERGE`s | `OneRowUnlessRaced`, `OkMeansStaged` |
| `staging_backfill` | 2 threads, 2 tenants, 3 snapshots that repeat each record | `OwnSchema`, `BackfillHeadersNewest`, the refinement `ImplementsTables`; `BackfillEnds` under fairness |
| `late_event` | as `staging_events` | `HeaderNeverOlder` is violated (section 6) |
| `child_rows` | one thread, the history of `staging_backfill` | `BackfillLinesNewest` is violated (section 6) |

Each module's type invariant is checked as well. Every property of a passing run
has a mutant, a plausible bug in one definition (a dropped guard, an off-by-one,
a swapped order), under which TLC finds it violated. The mutants stand in the
modules, above the definitions they change.

### Bounds, and why they are enough

* **Units and width.** Three units at width two make every refill case happen:
  a completion with a unit waiting, one with none, and two units that compete.
  The proofs hold for any list and width.
* **Limiter.** Overshooting needs one more caller than permits, with the quota
  low: `limiter_stale_test` has that. `access` has two callers on one limiter, and
  `PermitsCounted` is proved for any number and any cap. Quotas on both sides of
  the threshold give each branch of `proactive_wait`.
* **Retries.** One retry (`MAX_ATTEMPTS` is 5 in the code) has a first attempt,
  a retry and an exhausted retry. The proofs hold for any number.
* **Pages.** A cap of two pages with two remote pages makes the loop meet an
  empty page, the cap, and an offset that stands still. In `fetch_parsed` three
  pages of at most two records leave room for short pages in every place.
* **Kinds and tenants.** `fan_out` has one tenant and no aged report (which fails
  before its request like a unit without a token); the proofs about `SyncRun`
  cover every list of tenants and entities.
* **Tokens.** A lifetime of 3 with a margin of 2 and a latency of 1 leaves one
  moment in which a cached token is used, one in which it is accepted but no
  longer handed out, and an answer that arrives after a younger one. The clock
  ends at 4, after the first token has expired. The proofs hold for any values.
* **Environments.** Up to three blocks of credentials, complete, partial, blank or
  only a name, two of which may name one tenant, and a padded number. The proofs
  about `TenantAccess` hold for any blocks, tenants, callers and pages.
* **Layers.** Two reads are the fewest that overlap and two records the fewest
  of which one can move the other. Three days let every window of one day open
  and close, and a unit may start on the day of its run or the day after. With two
  versions of a record, a linked change and an edit cannot both happen to it; an
  instance with three versions was checked once, without an error. `MaxStarts`, one
  start per day, keeps the instance small; reads still overlap, since one may last
  into the days after. The proofs hold for any number of records, reads, starts,
  versions and days, and any wait in the queue.
* **Calendar.** Clamping a day to a shorter month, a range that ends at a chunk
  boundary, one before and one after it, and a month addition that falls off the
  calendar all happen in four short months. The proofs hold for any calendar.
* **Clock.** `MaxClock` is 1: parts may start in the same second or not.
* **ETL.** Two workers are the fewest that race; two versions of an invoice the
  fewest that have an order; the second drops a line and has two lines without
  an id. Two invocations are two processes, so their `MERGE`s overlap; the two
  threads of `staging_backfill` are one. The proofs about `Staging` hold for any files, tenants, invocations and
  threads. `MaxRecord` in `RawFetch` bounds what others add during a fetch.

`CHECK_DEADLOCK FALSE` is set where the system stops: a command, a fetch, a process
that has ended, the end of the clock in `SyncLayers`, and the ETL when no event
comes. `SyncRun` has the step `Exited` instead.

## 4. Fairness

`FairSpec` of `SyncRun` has weak fairness of every unit's step and of the
manifest's. The runtime polls every future that is woken, and each await ends:
requests to Xero have a timeout of 60 seconds (`xero-client/src/lib.rs:172`),
sleeps are finite. The clients for tokens and for the bucket have no timeout;
that they answer is an assumption. A unit that waits for the limiter is only
weakly fair too, and that suffices because of `CapNeverBlocks`.

`FairStagingSpec` has weak fairness of the backfill's scan and of each thread:
calls to BigQuery and to the bucket return or raise, and the pool schedules its
threads. A thread that waits for a table lock needs no more than that, because
the holder always gets to release it and each thread merges finitely often.
Nothing is assumed of events: an event may never arrive, and no liveness
is claimed for the Cloud Function. `SyncLayers` claims none either: cron may stop,
and its properties are about what a read that finished has covered.

`Kill` and `Crash` have no fairness: they may happen and need not.

## 5. What is proved

For every value of the constants that the modules' assumptions allow.

### SyncRun (`SyncRunProofs`)

The properties of the runs are not inductive. That each unit is reported once
needs to know that units start in the order of `next` and that a unit is in
flight exactly between its start and its outcome; that the manifest is backed
needs to know what a unit has uploaded, and that this is in the bucket. `IInv` is
the conjunction of the types, that bookkeeping (`FanOutInv`), the uploads of a
unit (`UploadInv`, `LandedInv`), the order of the last steps (`StageInv`) and the
properties themselves. `Invariance` proves it by cases over the actions; units
other than the one that moves are handled once, by `OthersKeep`.

| theorem | for every list of units, concurrency, retry bound and page cap |
|---|---|
| `TypeCorrect` | `TypeOK` |
| `FanOutIsBounded` | at most the clamped concurrency is in flight |
| `EveryUnitOnce` | no unit is lost, started twice or reported twice |
| `PermitsAreRequests` | the counter is the number of requests in flight |
| `LimiterNeverBlocks` | the limiter never delays a unit and is never exceeded |
| `NoPermitLeaks` | a run that wrote its manifest has returned all permits |
| `EverySidecarUsable` | no sidecar without its object, no gap between pages |
| `ManifestIsBacked` | what the manifest reports is in the bucket |
| `WritesOnce` | no key is written twice, if no unit is listed twice |
| `RunImplementsFanOut` | the run implements `FanOut`, if no unit is listed twice |

The refinement needs one more fact, `SeenInv`: as long as a unit runs, the sidecars
the bucket shows under its keys are the pages it counts as uploaded. Then each
`PutSidecar` shows the next page of its unit and of no other, each `Settle` is an
abstract end together with the start of the next unit, and every other step
of a unit is a stutter.

Three of them need more than the code states. `LimiterNeverBlocks` rests on
`CeilingAssumption`: the fan-out is not wider than the limiter. Both constants are
6 today, in two crates (`xero-sync/src/lib.rs:51` and
`xero-client/src/rate_limit.rs:23`); if one is changed alone the stale test in
`acquire()` begins to matter. `WritesOnce` and `RunImplementsFanOut` rest on
`Distinct`, because two equal units share their keys: nothing in the command
removes repetitions from `--entity` or `--tenant` (section 6).

### SyncCommand (`SyncCommandProofs`)

`CommandInv` says that the chunks so far are in order, apart, before the cursor
and hold every earlier date (`ChunksPartition`), and that the parts are at most
one in full followed by one for each chunk that has run (`BackfillParts`). From
these:

| theorem | for every command line, calendar and chunk length |
|---|---|
| `CommandInvariance` | `CommandInv` |
| `CommandTypes` | every chunk is a non-empty range inside the backfill's |
| `BackfillCovers` | each date of the range is in exactly one window of each unit's outcomes, and entities without a business date are fetched once |
| `KeysOfPartsDiffer` | no two parts write an entity under the same date and second |
| `ExplicitWindows` | explicit dates survive being stored as a number of days |

The assumptions are `CommandAssumption` (of adding months: it moves forward or
finds no date), `RangeAssumption` (a range ends before the last date chrono can
represent; without it the loop of `backfill_chunks` does not end) and
`EntityAssumption` (the entity lists of the catalogue: reports are disjoint from
the rest).

### RawFetch and ParsedFetch (`RawFetchProofs`, `ParsedFetchProofs`)

`NoRecordTwice` and `HealthyUnlessMisread` need to know where the loop stands.
For the page loop that is `PagesFetched`: what page i brought is of Xero's page i,
and nothing that was there at first is left on it. For the offset loop it is
`OffsetFetched`: everything up to the offset has been fetched and nothing above. That
the answers of the offset loop leave no record out rests on the least-number
principle (`LeastNumber`), which comes from the library's theorem that the
order of the naturals is well-founded. `Counted` ties the page number to the
pages fetched. A fetch step is one of three shapes (`FetchShape`), so each
invariant is proved once for all kinds of answers.

| theorem | for every data and cut into pages, additions, page size, cap and fault |
|---|---|
| `FetchTypes` | `RawFetchTypeOK`, with no more pages than the cap |
| `FetchedOnce` | no record is fetched twice |
| `CapIsFull` | the cap is reported after exactly that many pages, none empty |
| `HealthyIsComplete` | `HealthyUnlessMisread`: healthy means complete, unless a page that has records was misread as empty |
| `ParsedIsFetch` | the parsed calls implement `RawFetchSpec` |
| `ParsedTypes` | `ParsedTypeOK` |
| `WindowIsExact` | a business window returns no record outside it, and all of its own unless a page was misread |
| `ModifiedIsExact` | a modified window returns no record outside it, and each of its own in one row unless a page was misread |

`RemotesAssumption` is what is asked of Xero: a record is on one page, and no
page but the one after the last is empty. That a page was misread is the only
exception the healthy end needs, and it needs it: without it the property is
`HealthyMeansComplete`, which `fetch_raw` refutes. In the raw loops a page is misread
when its body is not JSON or lacks the array of the entity, in the parsed ones only
in the second case.

### RateLimiter, TokenCache and LocalSink (`AccessPartsProofs`)

| theorem | for every finite set of callers, every cap, lifetime, margin and latency |
|---|---|
| `LimiterTypes`, `PermitsCounted` | the counter is the number of live permits, whatever overshoots |
| `TokenTypes` | `TokenTypeOK` |
| `TokensStayWithTenants` | callers and caches have tokens of their own tenant only |
| `TokensLast` | a token handed out lives for its margin, less the latency of one answer |

`TokensStayWithTenants` needs the credentials of the requests on the wire
(`AskedForOwnTenant`). `TokensLast` needs that no answer on the wire is older than
`MaxLatency` (`WireFresh`) and so no cached token claims more than that beyond its
life (`ClaimsBounded`): a slow answer that replaces a newer token shortens the
cache's use, and never the margin.

| theorem | for every root, key and working directory |
|---|---|
| `ResolvesWhereNamed` | what `resolve_within_root` accepts leads where the joined path leads, and not out of the root |
| `NamesAreTaken` | a relative key without `.` and `..` is accepted below a root without them |

The code never looks at the file system: it counts components. Why that is enough
is the content of the first theorem. A `..` is refused unless the walk is deeper
than the root has components, and that refuses the ones of the root too. So the walk
of an accepted path leaves names and nothing else (`WalkedNames`), first those of the
root (`RootKept`), and a `..` that was resolved has undone a name of the key.
Following the two paths from any directory then ends in the same place
(`ResolvedPlace`).

What a walk computes for a path of any length is an induction over the path. It is
done in set form: the sequences for which a statement holds contain the empty one
and are closed under appending a segment, so they are all of them
(`SequencesReached`, from the least-number principle). No library theorem with an
operator parameter is needed for that.

### TenantAccess (`TenantAccessProofs`)

| theorem | for every environment, finite set of tenants, number of callers, pages and units in flight |
|---|---|
| `TokensOfAccess`, `LimitersOfAccess` | a process implements the specifications of the token cache and of the limiters |
| `PartsHold` | so `PermitAccounting`, `TokenOfOwnTenant` and `TokenGrace` hold in it |
| `AccessTypes` | `AccessTypeOK`, at most one failure for each tenant and one for the bucket |
| `AllBlocksServed` | a sync without `--tenant` that writes its manifest has brought each configured tenant's units to an outcome, with credentials that name the tenant |
| `HealthyForAll` | healthy means that each configured tenant got a token |
| `ExpiryIsLate` | a token that expired under a unit was held for its margin, less the latency of one answer, or for its whole life |
| `FilesWhereNamed` | every file of a dry run is at the place its key names, inside the root |
| `NamesLoseNothing` | a dry run whose root, prefix and tenants hold no `.` and `..`, with a relative prefix, loses no unit to its sink |

The first two carry what is proved of the parts into the composition, step by step.
The others rest on `AccessInv`. `HealthyMeansAll` alone is not inductive: between the
request of a token and its answer nothing in the state it speaks of tells a
tenant that was tried from one that failed. `ChecksInv` does: each tenant tried has its
token, is being asked for, or stands behind one of the failures, and failures are
fewer than the tenants tried while an answer is out, which is the type of the
counter too. `SettledInv` says that no unit is under way once the run has come to
its manifest, and `ClientsInv` that the clients are those of the environment.
`ExpiryIsLate` follows from `TokenGrace` at the moment the token is handed out and
from the fact that a unit never takes another one. `AccessAssumption` says that
blocks name tenants, that a unit has a page, and of which segments paths are made.

`WrittenWhereNamed` speaks of the files that have been written; `SinkInv`, which the
proof of `FilesWhereNamed` carries, says that they are paths whose keys the root
takes, body and sidecar each on its own, and `ResolvesWhereNamed` does the rest.
`NamesLoseNothing` needs in addition that a unit which has started works with the
prefix of the environment (`PrefixInv`).

### SyncLayers (`SyncLayersProofs`)

| theorem | for every set of records, number of reads, window and clock |
|---|---|
| `LayersTypes` | `LayersTypeOK` |
| `IncrementalComplete` | `NoChangeMissed` |
| `SweepComplete` | `SweepRepairs` |
| `RollingComplete` | `RollingRepairs` |

The properties speak of what reads that have ended claim; the invariant has to say
what one that is under way will have brought. That is `PagesInv`: every record
that has matched the filter of an undisturbed read since its start is in the bucket
with the stamp of the read, is fetched and waits for its upload, or lies on a page
still to come (`Reaches`). A record's page is its rank among the matching
ones, and that a read which has passed the last page has passed every rank is
`RankReached`, an induction by the least-element principle. `FreshInv` says
that a capture holds every change before the stamp of its read, whatever was
fetched later; it is what makes the latest stamp the right one to go by, in
whatever order pages are uploaded. `ClaimsInv` is the claim of each layer in terms of
stamps: of every record whose change it covers the bucket has a capture with a later
stamp, and so the latest capture is that new as well (`LatestStored`). `TimesInv` and
`FilterInv` hold the clock, the versions, the filters and the dates a read answers
for together.

`LayersAssumption` is about types only. `NoReadAssumption` says that the value that
stands for no read is not one.

### Staging (`StagingProofs`)

| theorem | for every bucket, any invocations and threads, and any history of events, failures and kills |
|---|---|
| `StagingTypeCorrect` | `StagingTypeOK`; a staging table holds nothing that is not in the bucket |
| `StagingOneRowUnlessRaced` | a key without NULL has a second row only where two processes inserted it at the same time |
| `StagingOneRowPerKey` | where one process does all the merging, one row per key without NULL |
| `StagingOwnSchema` | no thread's detected types meet a table another thread created |
| `StagingOkMeansStaged` | what ended well has a row for all it read, and none of it is lost later |
| `StagingHeadersNewest` | if only the backfill runs, headers end at the newest version read |
| `StagingImplementsTables` | the ETL implements `StagedTables` |

`OneRowUnlessRaced` starts from one statement: what `Merged` adds has one row of each
key, of keys that none of the rows it has seen has (`DedupFacts`, `MergedRows`), and no
other action writes a table. So a row and a later one of the same key were
inserted by two `MERGE`s, the second of which had not seen the first row. Within
a process that cannot be: whoever is inside `merge()` holds the lock of its table
(`LockHeld`), so every row of the table that came in since its `MERGE` started was
inserted by another process (`OthersInserted`). Between two processes there is no such
thing; BigQuery's rules are not used, since the `MERGE`s at issue only insert. That the collapse of a batch leaves a row of each key needs a greatest
element of the places of a finite batch (`GreatestElement`). `OwnSchema` too rests on
`LockHeld` and says nothing of two processes, because the lock does not reach that
far.

`OkMeansStaged` and `BackfillHeadersNewest` share `StagedInv`: once a worker has merged
a table, each row it read has a row in the table that stands for it (`MergeStages`),
and no merge of anyone takes that away (`MergeKeeps`). For `BackfillHeadersNewest` to
stand for means to be no older, which another worker could undo; `FilesApart` shows
that no other thread reads the same tenant, since each job is taken once and the
tenants are all different. The theorem assumes that there are no invocations; with
them the property fails, as the run `late_event` shows.

The refinement maps every step (`StepPromise`). A `MERGE` is the upsert of its table
(`MergeUpserts`): as a set, its result is the source and the rows of the target that
nothing in the source matches (`MergedSet`), and the source is a collapse of what the
worker's files bring (`DedupCollapses`). With several processes the rows a `MERGE` has
not seen are those that `Upsert` lets stay; in one process there are none, by
`OthersInserted`, and the upsert is a true one. That is what the lock is for, besides
`OwnSchema`.

`StagingAssumption` says what the bucket and the code give: distinct tenants,
well-typed pages, header keys without NULL.

### Only model-checked

Liveness (`RunEnds`, `BackfillEnds`): the prover has no rule for fairness and cannot
reason about `ENABLED`. Every invariant and every other temporal property that a
passing run checks is a theorem as well.

## 6. What the models found

One error, and disagreements between the code and what its documents or comments
say. Each is a run that TLC finds violated.

* **`dry_run`.** `resolve_within_root` drops every `.` from the path it builds and
  compares the result with the root as it was given. With the default
  `--local-dir ./out` nothing starts with `./`, so every page and the manifest of a
  dry run are refused as if they escaped. An absolute directory works, and so does
  `out`; the tests use absolute ones. `NamesLoseNothing` proves that it takes a `.`, a
  `..` or an absolute prefix somewhere for a unit to be refused.

* **`limiter_stale_test`.** `acquire()` tests the cap, sleeps because the quota is
  low, and increments without testing again. Callers that slept together pass
  the cap that `rate_limit.rs:8` announces. The uploader cannot reach this:
  `LimiterNeverBlocks`.
* **`fetch_raw`.** `record_count_from_bytes` counts a body that is not JSON, or that
  is JSON without the array of the entity, as zero records, so the raw loops take
  it for the empty page that ends the data and report a healthy end. The
  documentation of `EndedOnEmptyPage` says everything available was fetched. The
  parsed loops do the same in the second case (`unwrap_or_default()`, `lib.rs:304-309`
  and `746-751`) and return an error in the first only.
* **`late_event`.** `MERGE` updates unconditionally; sync times are compared only
  within a batch. A late or repeated event puts an older version of a record
  back, although the documents ask for the latest across all time. What
  `SyncLayers` promises is of the latest capture in the bucket for this reason.
* **`child_rows`.** Child rows carry no sync time, so the collapse of a batch
  keeps the last one seen, and a backfill sees files in the order their reads
  complete. An older line can stand under a newer header.

Smaller divergences met while modelling; the models follow the code:

* `--full --no-window` resolves to master and `--business-from ... --no-window` to
  rolling-full, by the order of the tests at `resolve.rs:79`; README.md:39-47 and
  `main.rs:33-39` list `--no-window` above both.
* `--entity x,x` makes two units with the same keys, and the second overwrites
  the objects of the first, which README.md:19 calls append-only.
* Aged reports need a `contactId` that no flag supplies, so each such unit fails
  before its request.
* The merged manifest of a backfill has the mode and start of its first part,
  which is often the full pull labelled master.
* A command whose units all failed writes its manifest and exits with 0.
* The warning about an endpoint nobody configured (`etl/cloud_function/main.py`)
  is unreachable for the endpoints it is about: no records are extracted for
  them, and the function returns before.
* The comment above `should_stop_page_pagination` takes a 4xx past the last page
  for an end of data; the loops return an error and drop the pages they had.
* Two processes that bring the same new key at the same time, because an event was
  delivered twice or a record lies on two pages, both insert it: the lock is one
  of a process, and BigQuery lets `MERGE`s that only insert run side by side.
  `bq_writer.py:97-98` speaks of a true upsert with "exactly one current row per key";
  that is so within one process (`StagingOneRowPerKey`).
* Child rows without an id are inserted again by every merge, because NULL
  matches nothing; and child rows that are gone in Xero are never removed.
* Page-numbered fetches skip records when others leave the filter meanwhile, and
  still end healthy. `SyncLayers` has this: what such a read lost, the next
  undisturbed one of the open-sweep or rolling-full layer brings in.
* `fetch_by_business_date` asks for journals modified since the window began; a
  post-dated journal entered before that is not found.
* `fetch()` turns the page cap into an error for page loops and returns Ok for
  Journals.
* The business-date query for Bills has no `Type=="ACCPAY"` clause (`lib.rs:1332`), so
  it returns sales invoices as well. The uploader fetches Bills by another path.
* `XERO_ORG_01_...` is recognised as a block number and then looked up as
  `XERO_ORG_1_...`: its tenant is not synced and nothing says so.
* `health.rs:22` announces that the first failure ends the check; every tenant is
  tried. The health check reads no `SyncConfig`, so it passes with tuning variables
  that `xero sync` refuses.
* `rolling_full_wide_days` is read and validated and used nowhere.
* `--local-dir ""` accepts absolute keys, because every path starts with an empty
  one; and an absolute key that names a place inside the root is accepted below any
  absolute root, although `sink.rs:138-140` calls every absolute key an error.
* The manifest's own sidecar triggers the Cloud Function, which raises `KeyError`
  because it has no `x-endpoint`; the event is retried or dropped, and stages
  nothing.

## 7. What is not modelled

* **Texts in requests:** where clauses, report dates, sanitised key segments,
  metadata. Data, not control. The windows and filters they carry are in
  `SyncCommand`, `ParsedFetch` and `SyncLayers`.
* **`fetch_report` of the parsed API,** one request around one report.
* **Parser columns**, and tables that gain columns (`ALTER TABLE`).
* **Configuration values that are only handed on:** names of clients, log levels,
  URLs.
* **Dataform:** SQL run by a service, without state of its own.
* **`tooling/`:** the loader that the ETL replaced; `BQWriter` has the same shape.
* **Migrations and deprecated documents:** a former design; nothing uses them.
* **Deployment:** images and the hours of the schedule. That cron starts layers
  which overlap is in `SyncLayers`.

## 8. Plan

Done, in this order: `RateLimiter`; `SyncRun` with `FanOut`; `SyncRunProofs`;
`Staging`; `RawFetch`; `SyncCommand`; `SyncCommandProofs`; `TokenCache`, `Startup`,
`LocalSink` and their composition `TenantAccess`; `SyncLayers`; `ParsedFetch`;
`AccessPartsProofs`, `RawFetchProofs`, `ParsedFetchProofs`; the refinement of `FanOut`;
`StagingProofs`, `TenantAccessProofs` and `SyncLayersProofs`; the paths of `LocalSink`
and the refinement of `StagedTables`. The most
important behaviour came first: what a run puts into the bucket and says about
it, then what the ETL makes of it, which runs a command makes, how a process gets
at its tenants, and what the runs of several days add up to.

Left:

1. **Tables that gain columns** in `Staging`: `ALTER TABLE` before a `MERGE`.
2. **A whole backfill command over `SyncRun`:** runs one after the other on one
   registry of limiters and one bucket.
3. **Deleted lines:** if the child tables are ever to lose rows that are gone in
   Xero, `Upsert` of `StagedTables` is the place to say so first.

## 9. Running it

```
tlc -workers 2 -config SyncRun_fan_out.cfg MCSyncRun.tla    # any run of PROJECT.json
tlapm SyncRunProofs.tla                                      # any module of proofs
```

Runs named in section 6 end with a counterexample; all others end without an
error, none takes more than a few minutes on two cores.
