# A TLA+ model of metricz-exporter

metricz-exporter stands between DayZ game servers and Prometheus. A mod in the
game server pushes metrics to it, in one request or in chunks; the exporter
polls the same servers over A2S and RCon; Prometheus scrapes what it holds, and
web pages read a public extract of it. Everything is kept in memory, in one
process, behind two locks.

This directory models what several goroutines, clients and clocks do to that
memory, how a request reaches it, how the process gets there through crashes,
and the browser's end of it; it checks all of this with TLC on small instances
and proves most of the safety results with TLAPS for every instance.

## 1. The system

| Component | State | Operations | Made correct by |
|---|---|---|---|
| **Staging** `internal/storage/staging.go`, `gc.go` | `stagingStore` (transactions and their chunks), `stagingSize`, under `stagingMu` | `AppendToStaging`, `RetrieveStaging`, `cleanupStaging` on a ticker | exact byte accounting, the quota, one transaction per instance, no upload lost or published twice, buffer drains |
| **Live store** `internal/storage/storage.go` | `liveStore`: per instance the pushed and polled families, the learned scrape interval, counters; under `liveMu` | `UpdateIngested`, `UpdatePolled`, `UpdateRCon`, `GetInstanceStates` | state is created once and only grows; no series of another instance |
| **Ingest handlers** `internal/server/ingest_*.go` | the body a commit has taken and is parsing | `handleChunkIngest`, `handleCommit`, `handleSingleShot` | whole uploads, once, for the right instance |
| **Parser** `internal/parser` | none | `ParseAndValidate` | injects or checks `instance_id`, last sample wins |
| **JSON translator** `internal/server/middleware_json.go` | one `io.Pipe` and goroutine per request | `newJSONToTextReader` | ends with the request, passes on errors |
| **Collector** `internal/storage/collector.go` | none of its own (a copy of the live store per scrape) | `Collect` | counters never go back; down only when silent for too long, and then for sure |
| **Public status** `internal/server/status.go` | `publicCache`, a `sync.Map` | `serveStatusRequest` for `/status`, `/status/{id}` | fresh enough answers of the right form |
| **Pollers** `internal/poller` | a ticker per worker; `RConSession.conn` | `runA2SWorker`, `runRConWorker`, `Poll` | every poll filed with what became of it, reconnect and one retry, no connection left behind |
| **Uploading client** (not in the repository; the API it is given in `ingest_chunked.go`) | the upload it is in the middle of | chunks, commit, resends | whole uploads, once, in spite of the network and of restarts |
| **GeoIP, config files** `internal/geoip`, `internal/config` | files on disk | `downloadFile`, `writeFileAtomic`, `LoadConfig` | no part of a file in place, nothing overwritten that the operator had there when the program looked, the next start recovers |
| **Web client** `web/metricz.js` | timer, `_inFlight`, abort controller | `start`, `stop`, `_fetchData`, visibility changes | one poll loop, stopped when told |
| **Process control** `internal/entrypoint`, `internal/service`, `cmd` | where the start is; what the service manager was told | `Execute`, `serviceHandler.Execute`, the exits and panics | serves at last, with its configuration and database |
| Auth, health, index, logger, vars | none | stateless | |

How they meet: the HTTP handlers, the garbage collector, one goroutine per
server and protocol, and the scrapes all share one `Storage`. `stagingMu` and
`liveMu` are taken in this order by `AppendToStaging` and `cleanupStaging`, one
at a time by everybody else. `main.go` cancels the pollers' context only when
it returns, that is when the process is about to end, so that workers and
collector never stop while the program runs.

What is hard:

- **Interleaving.** The collector, a resent chunk, an upload that replaces
  another one and a commit can meet on one transaction in any order. A commit
  parses between its two critical sections; commits can overlap.
- **Unreliable clients.** Chunks and commits arrive late, twice or never, and
  after the deadline of their transaction.
- **Time.** A transaction's deadline depends on the scrape interval learned
  from the body pushed last; staleness depends on it too; the two users of the
  live store (collector and status) read the same ages differently.
- **The network under the pollers**: servers restart, sessions die silently,
  packets are lost, in the middle of a poll.
- **Concurrent readers** of the status cache, which is looked up and written in
  separate steps.
- **Two ends of a pipe**: with `format=json` a goroutine feeds the handler, and
  either side may stop first.
- **Crashes** between the steps that replace a file, and restarts that find what
  they left; a restart in the middle of uploads.
- **Callbacks** of the web client: the end of an aborted fetch comes after what
  aborted it.

`PROJECT.json` lists these hazards one by one, each at its line.

## 2. Modules

```
Sums ── Storage ── StorageProofs          UploadLog (Storage implements it)
          │            │
          │            ├── CollectorProofs, PublicStatusProofs,
          │            └── PollersProofs, UploadClientProofs
          ├── Collector ── Staleness
          ├── PublicStatus
          ├── Pollers
          └── UploadClient
PayloadParser ── JSONIngest ── JSONIngestProofs
Configuration ── Startup ── StartupProofs
StatusClient ── StatusClientProofs
MC...: instances for TLC, one for each module with a specification
```

**`Storage`** is the core: staging, live store and the handlers. Everything
done under one hold of a lock is one action.

| Action | Code |
|---|---|
| `ExtendTxn`, `RefuseExtend` | `AppendToStaging` for a transaction that exists and has not lapsed |
| `StartTxn`, `RefuseStart` | `AppendToStaging` for a new or lapsed one: reset, admission check, eviction, TTL, second check |
| `CommitTake`, `CommitDrop` | `RetrieveStaging` as called by `handleCommit` |
| `Publish`, `RejectCommit` | the rest of `handleCommit`: `ParseAndValidate`, `UpdateIngested` |
| `SingleShot` | `handleSingleShot`, whose only shared step is `UpdateIngested` |
| `CleanupStaging` | `cleanupStaging` |
| `UpdatePolled`, `UpdateRCon` | the two calls of the pollers |
| `Tick` | the clock |

A payload is a record of what the code tells apart: its size, its final newline
(`RetrieveStaging` adds one where it is missing, and counts it), whether it
parses, the `instance_id` its samples carry, the scrape interval it announces,
whether it has the status family. Families are represented by the body they
were parsed from. Deadlines are ticks left (`ExpiresIn`, -1 once *strictly*
passed, as `After` has it); `LastIngestUpdate` is an age (`SinceIngest`),
counted up to `AgeCap`. A chunk with the wrong instance in its URL extends a
transaction of the other instance, as in the code: only the commit's instance
counts. `stagingSize` is an `Int`: nothing but the invariant keeps it from
going negative. A request that ends before it reaches the store (a bad `seq_id`, a body over
`max_body_size`, a single-shot body that does not parse, an unknown
transaction) changes nothing and has no action.

**`UploadLog`** says what chunked ingest promises without bytes, quotas or
clocks: uploads collect chunks, only a commit in time takes one, whole and once,
and what is published is always the body of one commit or single-shot request;
an upload disappears only by its commit, after its time, or because its own
instance began another. `Storage` is shown to implement it with
`open <- LogOpen`, `taken <- commits`, `published <- LogPublished`.

**`Collector`** adds the scrape (`Collect`, one action, as it works on a copy
taken under one lock), **`Staleness`** the threshold it uses.

**`PublicStatus`** adds the status requests. `Hit` and `Miss` are the look-up,
`Snapshot` the copy of the live store, `Reply` the cache write with the answer:
between any two of them other requests, pushes and time pass. `Unencodable` are
the bodies with a NaN or Inf in a gauge that is exported: `json.Marshal` refuses
them, and with them the map of all instances. The answer is then a 500, which is
not cached.

**`Pollers`** adds the workers of `internal/poller`, step by step, and a
network that loses packets, sessions and servers; `RConSession.Poll` is the
sequence `RConCheck`, `Connect`, a send, `CloseAndRetry` into a second
`Connect` and send, `RConSubmit`. `LoginLost` is a `bercon.Open` that fails though
the server is there; it ends the poll. `hits` and `refused` remember what a poll
has met. The A2S and RCon libraries are not part of the
repository: `Outage`, `Recover`, `LoseSession` and `Notice` (the keepalive that
turns `IsAlive` false) model them as `rcon.go` and `a2s.go` use them. An `Open`
that fails is assumed to close what it had opened.

**`UploadClient`** puts game servers, a network and restarts of the process
around `Storage`. Its exporter steps are the actions of `Storage` with the
answer the handler gives: `AcceptChunk` (202), `RefuseChunk` (503),
`AcceptCommit` and `EndCommit` (200 or 400), `RefuseCommit` (404). A request
stays in `net` until it is handled, in any order; when it is, it may stay there
(it was sent twice) or its answer may be lost. `Restart` empties the store and
drops the commits in progress. The game server is not in the repository: it is
assumed to use a fresh hash per upload, to commit only after each chunk was
answered with 202, and to send again what was not answered or got a 503.

**`PayloadParser`** is `ParseAndValidate` as operators on the lines of a body:
`Decodes` (what the text format refuses: garbage, a second block of a family, a
label name given twice), `Enriched` (the `buid` label),
`Injected` and `Mismatch` (`instance_id`), and the deduplication by
`getLabelHash`, a hash without collisions. **`JSONIngest`** is one request with
`format=json` or plain text: the goroutine of `newJSONToTextReader`
(`ArrayStart` to `WriteRefused`), the pipe, which has no buffer, and the
reading handler, single-shot, chunk or commit; a chunk whose `seq_id` is no number
is refused before anything is read (`BadSeqID`). A body is a list of tokens with
an end: the bracket, a brace in its place, or a cut connection.

**`Configuration`** is what `LoadConfig` makes of a text: defaults for every
value that is zero, `validate`, and what of the result makes the start panic.
**`Startup`** is the process from `main` to its listener, one action per step
that a crash can separate:

| Action | Code |
|---|---|
| `ParseFlags`, `WriteTmp`, `TmpWritten`, `RemoveOld`, `RenameTmp`, `InitFails` | `--init-config`: `isNonEmptyFile`, `writeFileAtomic`, the exit when one of them fails |
| `Load`, `LoadRefused`, `LogFails` | `LoadConfig` and the exit code 2; the logger's fatal exit |
| `EnsureDB`, `StatFails`, `CreateTmp`, `Get`, `Copy`, `Replace`, `DownloadFails`, `OpenDB`, `OpenFails` | `NewManager`, `EnsureDB`, `downloadFile`, `geoip2.Open` |
| `StartWorkers`, `WorkerPanics`, `Listen`, `ListenFails` | the rest of `Execute` |
| `Start`, `ReportRunning`, `ServiceStop` | systemd's restart, the Windows service handler |

The operator may write the configuration at any time, also between the look that
`EnsureConfigFile` takes at the file and its rename, which then overwrites what was
written: `editsBefore` tells such an edit from one the process has seen. A version
of the database is whatever the URL gave with a 200, complete; it need not be a
database, so that `OpenFails` may refuse any file. The example is assumed to parse.
As a Windows service, the program that returns 2 leaves the service running without
it (`returned`).

**`StatusClient`** is `metricz.js`: an action is a callback of the page. `timer`
is the handle kept, `timeouts` the timers that are really set, so that one that
is no longer reachable shows. The parallel fetches of several ids count as one;
what `Promise.all` leaves running after a failure is aborted by the next fetch.

Operators introduced by `BUG:` are faulty variants of the definition that
follows them. They occur in no specification; putting one in the place of the
original makes the property named in `PROJECT.json` fail.

## 3. What the runs show

| Run | Instance and bounds | Shows |
|---|---|---|
| `storage_safety` | 2 instances, 2 hashes, 2 chunk numbers, payloads of 1 and 2 bytes under a quota of 4, an interval of one and a half seconds that is cut to one and still exceeds the TTL, 1 commit in flight, 3 uploads begun, an RCon poller, fairness | the accounting, quota, ownership and growth invariants, that the store implements `UploadLog`, and `Drains` |
| `storage_expired` | as above without commits, one payload unparsable | **fails**, see findings |
| `collector` | 2 instances, single-shot bodies with and without interval and status, 3 pushes, ages to 5, a `stale_multiplier` of 3/2, A2S on one instance | `DownOnlyWhenLate`, `ScrapesNeverGoBack`, `SilenceShown` |
| `public_status` | 2 instances, one URL id, 2 readers, one body that cannot be encoded, `cache_ttl` 2 ticks, requests of up to 1 tick | `AnswersRecent`, `AnswersMatch`, `AnswersConverge` |
| `status_all_key` | the same, with an instance id equal to the key "all" | **fails**, see findings |
| `pollers` | 2 servers, A2S on both and RCon on one, 2 faults | `OneConnection`, `OneFaultForgiven`, `PollsConverge` |
| `uploads` | 2 game servers, 2 hashes, uploads of 2 chunks under a quota of 3, 4 transactions opened, 1 fault: a restart, a duplicate, a lost answer or an upload given up | `PartOnlyIfReopened`, `PublishedOnce`, `UploadsEnd` |
| `json_ingest` | every body of up to 3 of 11 tokens with each of its ends, one that is too large, one that is no array, each to 3 handlers in both formats, and to a chunk without a number | `AcceptedWhole`, `LastWriteWins`, `HandlerEnds`, `TranslatorEnds` |
| `startup` | 4 configurations (good, duplicate id, negative interval, clashing label) and a missing or blank file, 3 crashes or failures, 1 edit, 2 database versions, ages to 2 | `ConfigFileWhole`, `InitGivesConfig`, `OperatorTextKept`, `DatabaseOnlyImproves`, `DatabaseServed`, `ServesAtLast` |
| `startup_updates` | a configuration with `max_age: 0` | **fails**, see findings |
| `status_client` | intervals of 1, 2 and 3 s learned from answers or not, any calls and tab changes | `OneLoop`, `PollsOn` |
| `status_client_stop` | the same on a page that stays visible | **fails**, see findings |

Why these bounds are enough to mean something:

- Two hashes and two instances give every relation a request can have to a
  stored transaction: its own, another one of its instance, one of another
  instance. The quota of 4 is reached both by extending and by starting, and
  exceeded by a resend that replaces a small chunk with a large one.
- Three uploads begun let a hash be used again after it was committed, evicted
  or dropped. Only *beginning* is bounded (`MaxUploads`): chunks that extend an
  open transaction, polls, collections and time are unbounded.
- The TTL is 1 tick and the learned interval 2 once cut to whole seconds, so both sides of `max` occur,
  and a transaction is open, lapsed or gone at every step of another.
- `AgeCap` exceeds every threshold (assumption `AgeCapAssumption`), so capped
  ages are stale ages. Where no property depends on ages it is 0.
- `ShownCap` exceeds `CacheTTL + MaxWork` (`StatusAssumption`), so an answer
  that is too old is not hidden by the cap. `MaxWork` bounds the time a request
  takes; without one, no bound on the age of an answer could hold.
- Two faults are what it takes to make a poll fail that one fault may not, and
  to break a second poll or a reconnect.
- In `uploads` two uploads of two chunks do not fit a quota of 3 together, so
  that each can stop the other, and four openings let each hash be opened twice.
  One fault is enough to break either claim without its exception, and one of
  each kind is tried; the proofs cover any number.
- Three tokens give every pair of equal series with a third between or after
  them, and a bad token at every place; `MaxBodyLines = 3` lets a body be exactly
  as long as it may be.
- Three faults in `startup` let a crash hit what the recovery from a crash left,
  and the download fail on top.
- `StatusClient` needs no bound but its intervals: the time since the last answer
  is only compared with the interval, so `MaxInterval` may cap it.

### Fairness

- `Tick`, `CleanupStaging`: the clock runs and the collector's ticker fires;
  its loop has no way out but the end of the process.
- `Publish(r) \/ RejectCommit(r)`: a handler that has taken a body runs on; it
  waits for nothing but a lock that is held for bounded work.
- `Collect`, readers: Prometheus and the web pages keep asking. `Snapshot` and
  `Reply` are steps of a running handler.
- Tickers and workers of the pollers: each network call ends by its deadline.
  For `bercon.Open` this is an assumption: `rcon.go` sets the deadline after it.
- `UploadClient`: a game server that is in the middle of an upload goes on, and
  its requests arrive at last. It may give up, and no fault is repaired.
- `JSONIngest`: both goroutines run, and bytes arrive or the server's
  `ReadTimeout` (`main.go:142`) ends the body.
- `Startup`: systemd starts what failed (`Restart=on-failure`; its start limit
  is not modelled), steps end, the download included, though `http.Get` has no
  timeout; a worker that panics gets to. Faults are bounded. `ServesAtLast` claims nothing for a Windows
  service.
- `StatusClient`: fetches end, timers fire. Nothing makes the user act.
- In the store, no client is assumed to send, resend or commit anything, and no
  fault is assumed to be repaired: `PollsConverge` is about whatever `reachable`
  has become once the bounded faults are over.

### Findings

1. **`storage_expired`** `metricz_ingest_transactions_expired_total` counts only
   what the garbage collector drops. A lapsed transaction that is reset by a
   late chunk, evicted by the next upload, or dropped by its own late commit is
   not counted, although METRICS.md and the metric's help say "total". With the
   default `gc_ttl` of 60 s the mod's next upload will often come first.
2. **`status_all_key`** `GET /status` and `GET /status/all` share a cache key.
   An instance called `all` is answered with the map of all instances, and
   where there is none, the 404 turns into that map.
3. **`startup_updates`** `geo_ip.max_age: 0` does not disable updates, as the
   README says: `defaults.Set` turns it into 24 h. For the same reason an empty
   `path` or `url` does not disable GeoIP.
4. **`status_client_stop`** `stop()` during a fetch does not stop the client: the
   fetch it aborts schedules the next one as it ends. A `visibilitychange` after
   `stop()` starts it again, too. The bundled page never calls `stop()`.

Also met, without a run of their own:

- The README gives an unknown scrape interval 60 s in the effective TTL
  (`README.md:138-140`); `staging.go:51-58` uses `transaction_ttl` alone for an
  instance that has not pushed yet.
- `status.go:184` shows ingested families however old, while the README says
  they are suppressed once stale; the branch with the cached status cannot be
  reached once there is one.
- A JSON body that is cut short is taken for complete (`middleware_json.go:37`):
  what arrived of it is published or staged.
- Three requests with a JSON body leave their goroutine waiting for ever: a commit,
  a chunk whose `seq_id` is no number (`ingest_chunked.go:19-28`), and a chunk that
  is too large. `TranslatorEnds` names these exceptions.
- One NaN or Inf in an exported gauge of one instance turns `GET /status` into a
  500 for all of them (`status.go:77-80`), until that instance pushes another body.
- The retry of `rcon.go:49-65` does not cover the login: a poll that has to log in
  first and loses that packet reports the server as down. `OneFaultForgiven` names
  this exception.
- `--init-config` overwrites a configuration that is saved between its look at the
  file and its rename (`cli.go:97-147`). `OperatorTextKept` names this exception.
- `stale_multiplier` is not validated: below 1 an instance is shown as down before
  the interval that it announced is over. `DownOnlyWhenLate` speaks of the product.
- A page loaded in a hidden tab polls until the first `visibilitychange`.

## 4. What is proved

The proofs hold for every value of the constants allowed by the assumptions
(`SetsAssumption` to `NoneAssumption` in `Storage`, and one or two named ones in
every other module): finite sets of instances, hashes, chunk numbers; quotas,
TTLs, intervals, fault and edit bounds any naturals; any payloads and
configuration texts. `None` is assumed to be none of the values it stands beside.
Of what the code can be configured to, the assumptions leave out negative sizes, TTLs
and announced intervals, a stale multiplier that is NaN or infinite, and products of
intervals that overflow. The multiplier is any fraction, `MinStaleAge` any integer.
Two theorems have a hypothesis of their own: `AnswersMatchCorrect`, that no
instance is asked for under the cache key of the full status (finding 2), and
`InTimeIsUp`, that the multiplier is at least 1.

| Module | Theorems | Property |
|---|---|---|
| `StorageProofs` | `TypeCorrect`, `AccountingCorrect`, `QuotaCorrect`, `NonEmptyCorrect`, `OneTxnCorrect`, `NoForeignSeriesCorrect`, `StatsOnlyGrowCorrect`, `UploadLogImplemented`; `DeadlinesStandCorrect` | `TypeOK`, `StagingAccounting`, `QuotaRespected`, `StagedNonEmpty`, `OneTxnPerInstance`, `NoForeignSeries`, `StatsOnlyGrow`, `ImplementsUploadLog` |
| `CollectorProofs` | `CollectorTypeCorrect`, `DownOnlyWhenLateCorrect`, `ScrapesNeverGoBackCorrect`; `InTimeIsUp` | `CollectorTypeOK`, `DownOnlyWhenLate`, `ScrapesNeverGoBack` |
| `PublicStatusProofs` | `StatusTypeCorrect`, `AnswersRecentCorrect`, `AnswersMatchCorrect` | `StatusTypeOK`, `AnswersRecent`, `AnswersMatch` |
| `PollersProofs` | `PollersTypeCorrect`, `OneConnectionCorrect`, `OneFaultForgivenCorrect` | `PollersTypeOK`, `OneConnection`, `OneFaultForgiven` |
| `UploadClientProofs` | `UploadTypeCorrect`, `PartOnlyIfReopenedCorrect`, `PublishedOnceCorrect`; `StoreSurvivesRestarts` | `UploadTypeOK`, `PartOnlyIfReopened`, `PublishedOnce` |
| `JSONIngestProofs` | `AcceptedWholeCorrect`, `LastWriteWinsCorrect`; `NoDeadlockCorrect`, `StepsRunOutCorrect` | `AcceptedWhole`, `LastWriteWins` |
| `StatusClientProofs` | `OneLoopCorrect` | `OneLoop` |
| `StartupProofs` | `StartupTypeCorrect`, `ConfigFileWholeCorrect`, `InitGivesConfigCorrect`, `OperatorTextKeptCorrect`, `DatabaseOnlyImprovesCorrect`, `DatabaseServedCorrect` | `StartupTypeOK`, `ConfigFileWhole`, `InitGivesConfig`, `OperatorTextKept`, `DatabaseOnlyImproves`, `DatabaseServed` |

With them every invariant and every action property that a run checks is proved.
The theorems after a semicolon state something no run checks: what is left of a
liveness property without its fairness, the store's invariants with restarts, and what
`DownOnlyWhenLate` means for a multiplier of at least 1.

The argument:

- `StorageProofs` begins with the laws of `Total`, the sum of a function over a
  finite set: it is defined as a cardinality (`Sums`), so that its laws follow from
  those of finite sets without induction over a recursive definition.
- The quota alone is not inductive. Taking a transaction out keeps `stagingSize`
  non-negative only because `stagingSize` *is* the sum of the stored sizes, and
  a stored size is only what its chunks say because each `Delta` was. So
  `StagingInv` joins accounting, quota and non-emptiness. Non-emptiness rests on
  `EvictionMakesRoom`: dropping siblings can only lower `stagingSize`, so the
  second capacity check of a first chunk passes whenever the first one did.
- `OneTxnPerInstance` is inductive with the type invariant alone: a transaction
  is only ever added together with the eviction of its siblings.
- `NoForeignSeries` needs nothing from staging: what is published was parsed for
  the instance it is published for.
- The refinement maps each action to its counterpart: the two starts to
  `Start`, a refusal or collection to `Drop` or to nothing, `SingleShot` to
  `PublishSingle`, polls to nothing, a tick to `Lapse` of exactly the transactions whose
  deadline it passes. `StartLog` uses `EvictionMakesRoom` again: the abstract
  `Start` always leaves its chunk behind.
- `ScrapesNeverGoBack` strengthens to: what was shown last is at most what the
  store holds now. `StatsOnlyGrow` carries that over every step.
- `DownOnlyWhenLate` strengthens to `IntervalKnown`: the interval an instance is
  held to is the one of the body it has published. `ThresholdLarger` adds that the
  threshold is at least the product with the multiplier and at least the minimum
  age; with a multiplier of 1 or more it only ever lengthens the interval, which is
  `InTimeIsUp`.
- `DeadlinesStand`: only a first chunk gives a transaction a deadline, and every
  other step leaves it or lowers it. This is why `Drains` holds however long
  chunks of old uploads keep arriving.
- **Answers.** That an answer is recent needs to know of the items it may come
  from (`AgesInv`): an item's age and the time it may still be served add up to
  at most `CacheTTL + MaxWork`, because a copy is at most as old as its request
  when it is cached. `MatchInv` carries the form of an answer through copies
  and items; it is inductive because the key decides the form unless finding 2
  applies.
- **Pollers.** `StepOfStorage`: every step of a worker is a step of `Storage` or
  leaves it alone, which gives `TypeOK`. `FaultsInv` says what a worker that is still
  polling must have met: a dead connection on the first send is explained by one
  hit, on the second by two, and a poll can only be over after one hit if that was
  its first login.
- **Uploads.** Steps of `UploadClient` are steps of `Storage`, but for
  `Restart`, which re-establishes `StagingInv` as `Init` does. `SentInv` relates
  the client to the store: of a transaction opened once, the store has every
  chunk its client counts as acknowledged, and every chunk once a commit is on
  its way; hence a commit takes all. `OnceInv` puts such a transaction in one
  place: staged, in one commit's hands, or published. Both say nothing of
  transactions that were opened again, which is the exception in the
  properties.
- **Start.** `ConfigInv` says what is at the path and in the temporary file at
  each step of `EnsureConfigFile`: the rename only ever moves a whole example, and
  onto a missing file unless the operator has written since the look. `DatabaseInv`:
  what is renamed is a version, not older than the one in place, as the URL never goes back.
- **Requests.** `TransferInv` says that what the handler has read is the beginning
  of what was sent, and `PipeInv` that short of an error only the line in the pipe
  is between it and the translator, whose side is closed without an error only
  behind the last token. So the end of the body finds all of it read.
  `NoDeadlock` follows from `WaitInv`: a translator that has ended has closed its
  side, and one that is left behind has a reader that closed the other, unless the
  handler was a commit, or a chunk that had no number or was too large
  (`TooManyLines`).
  `StepsLeft` counts down with every step. Fairness is all that `HandlerEnds` and
  `TranslatorEnds` need beyond these two.
- **Last write wins.** There is no induction over the list of lines: the last place
  of a series exists because `<` is well-founded on the numbers (`LeastOf`,
  `LastOf`), and what the code does to a list of labels is, as no name is there
  twice, the same as what `Series` does to the set of them (`FinalPairs`).
- **The web client.** The handle is the only timer set (`OneLoop`), so
  `clearTimeout` leaves none and the next one is the only one again.
  `HandleMeansLoop` is what `start()` relies on when it does nothing: a handle it
  finds in a visible tab has a timer that is set, or else a fetch in flight.

**Only model-checked**: the liveness properties (`Drains`, `SilenceShown`,
`AnswersConverge`, `PollsConverge`, `UploadsEnd`, `HandlerEnds`,
`TranslatorEnds`, `ServesAtLast`, `PollsOn`), which are out of this prover's
reach as it has neither fairness nor ENABLED. The runs that fail show
counterexamples: there is nothing to prove.

## 5. What is not modelled

- The text of samples, names and help: hence the status API's allow-lists, and the
  registry refusing a scrape whose samples clash.
- Samples of a family in a later chunk than its TYPE line: the model's chunks bring
  their families with it.
- NaN and Inf but for what they do to the status API.
- Collisions of the 64-bit label hash; the order of the samples of a family.
- The two locks as such: an action that takes both takes them at once. Only
  `AppendToStaging` and `cleanupStaging` hold both, in the same order.
- The overflow of a learned interval times a second.
- HTTP status codes (but for the uploads and the status API) and headers,
  authentication, logging; `public.enabled: false`, which answers every status
  request with a 404.
- Uploads whose transaction was opened more than twice are not told apart by how
  often: the two counters of `UploadClient` stop at 2.
- `UpdateA2S` and `A2SFamilies`: nothing calls the first or sets the second.
- `--version`, `--help`, `--print-config`: they end the process and change nothing
  that `Startup` has (the last one after `--init-config` has done its work).
- The console and terminal helpers of `internal/service`, and the rendering of
  `index.html`: output only. Auth, health, index, logger and vars have no state
  to get wrong.

What would be next: lock steps of `Storage` shown to implement it; `Gather` over
the help texts and labels of two instances; a file that is replaced
in one step as the abstraction `Startup` implements.

## Running it

```
tlc -config MCStorage_safety.cfg MCStorage
tlapm StorageProofs.tla
```

`PROJECT.json` lists every run with its module, configuration and properties,
and maps each definition to the lines it models.
