# A specification of the CommonsDB declaration engine

This directory holds TLA+ modules that model the declaration registry of this
repository, TLC configurations that check them on small instances, and proofs
that TLAPS checks for every value of the constants. Every definition is
translated from the TypeScript source; `PROJECT.json` names the lines.

To check a run: `tlc -config Pipeline_resubmit.cfg MCDeclarationPipeline.tla`.
To check the proofs: `tlapm M.tla` for each `M` that ends in `_proofs`.

## The system

| Component | State it keeps | Operations | Source |
|---|---|---|---|
| Ingest | schema and context caches of a container | `POST /ingest` | `functions/src/ingest.ts` |
| Declaration stream | records, deliveries made | put, deliver, retry, drop | `core/src/producer/produce.ts`, `stacks/CommonsDBStack.ts` |
| Declaration processor | - | one batch of records | `functions/src/declarationProcessor.ts` |
| Indexing pipeline | S3 objects, `vectorToDataMap`, `IdentifiersOfDeclaration`, index stream | `processIsccStringRaw` | `core/src/searchUtils/indexingUtils.ts` and its helpers |
| Declaration status | `DeclarationStatus` rows | pending, success, failed, timed out, get, scan | `tableDeclarationStatusUtil.ts`, `cron/stalePendingCleanup.ts` |
| Supersession | `SupersededDeclarations` | validate, link | `tableSupersededUtil.ts` |
| Redaction | `Redacted`, `RedactedProducts` | `POST /redact` | `functions/src/redact.ts`, `tableRedactedUtil.ts` |
| iroh mirror | the registry's stream, denylist and records (external) | put, redact, unredact | `irohRegistryUtil.ts` |
| Backfill and verifier | the state file | run, resume, repair; verify | `scripts/` |
| Search and lookups | none (reads) | search, by declarer, by identifier, latest, random | `functions/src/search*.ts`, `get*.ts` |
| Analytics, statistics | `AnalyticsCounters`, Postgres, the table of processed files | count, recalculate, sync, refresh | `analyticsUtil.ts`, `core/src/statistics/` |
| Slack limiter | `SlackRateLimit`, a map in each container | notify | `notifyUtil.ts` |
| Customer keys | `customerKeys` | generate if missing, get | `customerKeys.ts` |
| Direct ingest | `directIngestRegistrations` | register, deactivate | `directIngestUtil.ts` |

How they interact. Ingest validates a declaration, creates its `pending` row,
puts one record on the declaration stream and answers 202. The event source
delivers records to the processor, up to `retryAttempts + 1` = 4 times and a few
times more when batches are split. The
processor runs the indexing pipeline - event on the search index stream, object
in S3, item mapping, identifier mapping, then the best-effort sinks - sets the
row to `success`, and links a superseded declaration. If anything hard fails it
sets `failed` and reports the record, which is then delivered again. A cron
(and an HTTP route) marks rows that have been pending for more than an hour as
`failed`. Redaction writes a flag and sends the iroh registry an event; the
indexer and the backfill script send it the declarations.

What is hard here:

* no transaction spans two stores: five writes per delivery, each of which may
  be lost, or land while the caller sees an error; every Lambda may die between
  two of them; every record may be processed again, by a fresh item id;
* status rows are written by four actors, and only the sweeper's write is
  conditional;
* what ingest validates is used minutes later by another Lambda;
* the 60 s window is checked after fetches that may take 20 s;
* redaction, indexing and backfill send events for the same identifier at once;
* the backfill is killed and resumed by hand for days;
* a search reads four stores one after the other while they change;
* counters are incremented, overwritten and cached by different Lambdas;
* several containers share one rate limit.

The properties that make each component correct are listed with the runs.
`PROJECT.json` lists the hazards at their lines.

## Modules

| Module | What it models |
|---|---|
| `DeclarationPipeline` | ingest's hand-over, the stream, processor, indexing, status rows, sweeper, supersession; one record through its deliveries |
| `RegistryContract` | the abstract specification: announce, publish, register, confirm, fail, link |
| `DeliveryContract` | the abstract specification of the event source: taken, invoked, repeated, left behind |
| `StreamConsumer` | one part of a shard: batches, the processor's loop, its partial batch response, repetition, bisection, giving up |
| `Intake` | the checks of `ingest.ts`, in one container |
| `IrohMirror` | redaction, the indexer's put event, the registry's stream, the backfill |
| `ReadPath` | searches, lists and lookups, while declarations are indexed and redacted |
| `Analytics` | the counters of the consumer and the recalculations that overwrite them |
| `StatsSync` | the live sync into the statistics database and the batch pipeline behind it |
| `SlackLimiter` | the two tiers of the notification limit |
| `..._proofs` | inductive invariants and theorems of the module they are named after |
| `MC...` | instances for TLC |

How they fit together. `DeclarationPipeline` and `StreamConsumer` are two views of
one Lambda: the first follows one record through every write of a delivery and
lets deliveries repeat, the second says which repetitions the event source makes
of a batch. They meet in `DeliveryContract`, which both implement: it says what
happens to one record, and how often at most. `Analytics`, `StatsSync` and `SlackLimiter` are the best-effort sinks
at the end of a delivery, and `IrohMirror` has the put event among them: each has
tables of its own, and the pipeline catches their errors, so composing them with
the pipeline adds no behaviour. `ReadPath` has its own small copy of indexing
(`IndexStep`, `Register`, `ServiceIndexes`), reduced to the order of the writes
that a reader can see.

### DeclarationPipeline

A declaration is its identifier, the CID of its public metadata, so the same
metadata submitted twice is the same declaration. A request is one POST and
names its stream record. `reqPc` and `recPc` say where the ingest call and the
processing of its record stand; `tracked` is the local `statusCreated`; `tries`
counts deliveries; the tables are sets and functions. An item id, a fresh UUID
in every attempt, is the pair of request and attempt.

Each remote write is one action with four outcomes cut to three: it lands or is
lost, and its caller may see an error though it landed. `updateStatusWithRetry`,
three attempts of the same write, is one such action. Time is the `age` of a
declaration. One with a timestamp is `fresh` (within 60 s of the clock), then
`closed` to submissions, then `overdue` (a row of it would be over an hour old).
`GateCloses` and `BecomesOverdue` advance it; the second waits for the ingest calls
under way, which a Lambda timeout ends long before an hour.

A timestamp of 0 skips the gate in the code (0 is falsy at `ingest.ts:1804`, though
`docs/api.md:55` asks every timestamp to be within 60 s). Such a declaration is
`Undated`: it is `open` for ever, and `stale` while its row is over an hour old,
until the row is put anew. A sweeper that holds its old row in a list may then fail
the row that was put a moment ago, since its update asks only whether the row is
pending (`tableDeclarationStatusUtil.ts:230`). `OnlyStaleTimesOut` therefore says two
things: of a dated declaration only rows past the threshold are failed, of an undated
one only rows of a declaration that the sweeper had scanned as stale.

Abstractions: the two reads of `validateSupersedes` are one step, since rows are
never deleted and the content of an identifier never changes. Records have random
partition keys and so are processed in any order; a batch is modelled by its
effect on one record: `Redeliver` repeats a processed record, because the event
source repeats a batch from its lowest failed record
(`declarationProcessor.ts:18-19` says that only the failed ones are repeated).
`StreamConsumer` has the batches. Splitting a batch does not use up a retry, so a
record may be delivered more often than `retryAttempts + 1` times: at most
`MostCalls` times (see `StreamConsumer`). `MaxDeliveries` stands for that number,
and the theorems hold for every value of it. `ImplementsDelivery` says that the
deliveries of this module are those of `DeliveryContract`.
A put that the SDK repeats may leave two records of one request; that case is
two requests of the same declaration. S3 objects are known by identifier: the
path also holds the company id and the ISCC, which do not change what a pointer
resolves to. The processor's branches for an invalid ISCC and a missing
identifier are not reached by records that ingest accepted. `notifySlack`
catches all errors, so the notifications do not change the control flow.

What the documents say and the pipeline does not do:

* The error of the identifier mapping is swallowed (`tableCidsUtil.ts:44`), so a
  declaration shown as success may not be found by its identifier;
  `docs/architecture.md:130` says that every hard error inside the consumer must
  propagate. `SuccessIsSearchable` therefore speaks of the item mapping, and the
  contract confirms what is published, registered or not.
* When the pending row could not be written before the record was sent, ingest
  tries again afterwards (`ingest.ts:2164`). That put is unconditional and may
  replace the outcome that the processor has written meanwhile; the row then
  stays pending until the sweeper fails it, although the declaration is
  searchable. `docs/architecture.md:68` has pending come before the outcome.

### StreamConsumer

A record is its position in the part of the shard (`parallelizationFactor` makes
ten such parts, by partition key). `Poll` forms a batch of up to `BatchSize`
records, `ProcessRecord` is one turn of the loop of `declarationProcessor.ts`,
`Respond` the answer with its `batchItemFailures`, `Dies` an invocation that times
out or is killed. What the event source does with these - it repeats from the
lowest failed record, it splits the batch of a failed invocation in two, it gives
up after `retryAttempts` - is modelled from the settings of `CommonsDBStack.ts`
and is external. A record of `Poison` may throw or kill its invocation; of a batch
with several records any may be the one at which 120 s are over.

A batch carries, besides the event source's `attempt`, the history `tries`: how
often it, and the batches it was cut from, were invoked (counted to just above
`MostCalls`, so that a consumer that repeats for ever has finitely many states).
`ImplementsDelivery` says that every step of the batches is one of `DeliveryContract`,
with a record's place and its number of invocations read off the batch that holds
it. The bound there, `MostCalls`, is `BatchSize + RetryAttempts`: an invocation that
does not end with its batch left behind makes the batch shorter by a record or uses
up a retry (`Budgets`). It is linear because it counts any cut as one record; the
halves of ten are 5, 3, 2 and 1, so that a record of the deployed event source is
invoked eight times at most.

The comments at `declarationProcessor.ts:19` and `:64` say that only the failed
records are repeated. The event source repeats all from the lowest failed one, the
processed ones included; `ProcessRecord` therefore meets records that are in `ok`,
and `DeclarationPipeline` has `Redeliver`.

### Intake

One container serves one request at a time and shares only the clock and the
tables with others. A body is a record of what the checks tell apart: which
sections it has, which are well-formed, signed with which key, stamped, to which
schemas it conforms, and so on. The actions are the stretches of the handler
between two awaits: `Receive`, `CheckSupersedes`, `FetchSchema`, `FetchContext`,
`Verify`; then `Return`. `Recycle` replaces the container at any point, `Tick`
lets time pass at any point. `Fetched` is `fetchJsonDocument`: the cached
document, else what the server sends, else the embedded one - and either is
cached. `Blank` is a JSON object that is neither a schema nor a context; without
a sub-schema nothing is checked against it.

`ingestStartTime` is taken a few lines after the arrival; nothing is awaited in
between, so `Receive` is one step. A `$schema` that is not a string makes the
handler fail and answer 502, where `docs/api.md:47` says that any failure of
validation is a 4xx; and `docs/api.md:43` puts `supersedes` at the top level of
the body while the code reads it from the public metadata (`ingest.ts:1679`).

Both fetches fall back to the embedded document when the server fails, whatever
version the declaration names (`ingest.ts:883`), and that document stays cached
under the URL of the other version for the life of the container.
`docs/development.md:97-98` has each declaration validated by the schema it
declares. The code does not do so after a failed fetch, in both directions: it may
accept a declaration that does not conform to the schema it names, and refuse with
422 one that does and does not conform to the embedded one. `outage` is a history of
the versions whose schema this container fetched in vain. `AcceptedIsSound` says that
without such a fetch what is accepted conforms to the schema it names, and with one
to the embedded schema, or to none where the server sent JSON that is no schema.
`FaultlessIsNotBlamed` asks of a faultless request that it conforms to the schema it
names, not to the embedded one, and lists the two ways in which the failure of a
server may still be held against it (`InPlaceOf`, and a context URL that answered
with JSON that is no context). A second thing that `AcceptedIsSound` lists: the JWT
of the registry section may fail its verification by the key in its header and still
pass, where no key is pinned for the company (`ingest.ts:1962-1975`).

### IrohMirror

`stream` holds, per identifier, the events the registry has not consumed: the
identifier is the partition key. `work` is what a segment of the backfill is
doing, `saved` and `stats` are the state file. `disturbed` and `rehearsed` are
history variables: the identifiers of whose redaction something was lost or
overtaken, and those that only a dry run has "sent".

A page is scanned, filtered and read in one step, so nothing is said of what a
redaction in the middle of a page does; the set of redactions is loaded at the
start of a run in any case. `--limit` and errors that outlive their retries are
`RunDies`. Not modelled: a redelivered record's second put (a duplicate for the
registry, as the backfill's are), the `--ids-file` repair mode, an unset
`REDACTED_TABLE`, a stage without the registry's stream, and the product and
customer scopes of a redaction, which are not mirrored. A redaction of a single
identifier swallows the error of its write and is mirrored all the same
(`tableRedactedUtil.ts:27-29`, `redact.ts:132`), though `redact.ts:148-149` says
that the registry "cannot drift ahead of the local state"; the model does the
same and counts the identifier as disturbed.

What the documents say and the scripts do not do: the comment at
`backfillIrohRegistry.ts:421-423` has the state file claim no page whose events
were not sent, but a dry run checkpoints its pages (`288-292`, `424`) and `flush`
gives up after its attempts (`310-317`); `BackfillMissesNothing` makes an exception
of what the file counts as failed and of what was only rehearsed.
`redact.ts:15-16` leaves lost redaction events to the backfill, which skips
redacted identifiers and sends no redaction (`381`).

### ReadPath

`item`, `indexed`, `registered`, `pathless` and `flags` are the tables that a
reader sees, `fresh` the rows whose last change has not reached every replica of
DynamoDB. A call goes through its awaits: `at` is the next one, `entries` what it
has found so far (hits, then rows, then documents), `pending` the flag rows it has
still to read, `flagged` those it read as redacted. `unread` are the keys that a
batch read left unprocessed, which no caller looks at (`tableRedactedUtil.ts:240`).
`hidden` and `lasting` are history: flags that were set, for every replica, when
the call began and were not touched since, and items that could be found ever
since.

The search service returns at most 100 hits (`searchServiceClient.ts:31`,
`docs/search-service-contract.md:80`): `Nearest` lets it return any `HitLimit` of the
nearest items, or all it knows when these are fewer. The cutoff by score, the rows,
the flags and the declarer are applied to these hits afterwards, so that items
without a row, redacted ones and the several items of a redelivered declaration take
places of others. `AnswersAreComplete` therefore says that an item that could be found
is missing from a 200 only if it was filtered out or left unprocessed, or if as many
hits as the service may return were at least as near (`CrowdedOut`, over the history
`crowd`).

Every endpoint is an action of its own made of shared steps: `Query`, `ReadPaths`
(`getBatchS3PathsByVectorIds`), `ListPaths`, `LookUpPath`, `CurePath` (the
S3 search for rows without `s3Path`), `LookUpContent`, `Hydrate`, `ReadFlags`,
`Answer`. Left out: distances (they are constants), the shape of a result, and the
choice of the random items, which is any subset.

What a reader of the code may not expect, and the model has:

* A document that cannot be read makes the filter throw, so a search answers with
  a 5xx; `invalidCount` in a 200 is always 0. Only the lookup of full metadata
  answers with no results instead.
* The index event is sent before the item id is mapped, while
  `docs/search-service-contract.md` (section 1) has ids persisted before they are
  searchable. A hit without a row is dropped from the answer.
* A redelivered declaration has several item ids and may be returned several times.
* `getByIdentifier` and `getByDecId` read no flags; see the run
  `ReadPath_redacted`.
* `getBatchS3PathsByVectorIds` puts all hits in one batch request. DynamoDB refuses
  more than 100 keys, which is one of the failures of `Fails`.
* A redaction by `customerId`, which `docs/api.md:139` offers, ends in the 400 at
  `redact.ts:220`; no flag of that scope exists.

### Analytics

`counter` is the row pair that is read back, `stats` the statistics per declarer,
`cache` the `isccCodeCache` of each container. A delivery goes `Store`, `Classify`,
`Add`; a recalculation `StartRecalculation`, `List`, `Put`. The cache may be
dropped at any classification (age and size), an increment may fail after it was
made, both may die. A recalculation is started by the cron every 48 h, by the API,
by `setupAnalytics`, or by a reader that finds the data stale; that reader does not
wait, and every stale read triggers another, so jobs overlap.
`clearIsccCodeCache` in the cron clears only the cache of the cron's own Lambda.
Left out: the `declarer_*` counters, which are written and never read, and
`last_full_calculation`. `CountersConverge` is liveness; what makes it true step by
step is `SettlingIsForGood`: when no delivery is under way and no job works with an
old list, no step makes a number wrong and none brings an older list back.

### StatsSync

`etag` is the body in the bucket, `rows` the declarations in PostgreSQL,
`processed` the de-dup table. A repeated delivery has another ray id and so
another body under the same key. `Backfill` is the batch pipeline of another
repository, external, known by what `statsSyncUtil.ts:18-22` says of it: it takes
files whose etag is not marked. The sync is skipped when the key cannot be parsed
or the date is missing, which is one case of `Fails`. `ON CONFLICT DO NOTHING`
keeps the first `record_hash` of a declaration.

### SlackLimiter

One key that no rule blocks or exempts; such rules decide before the limiter
(`findRule` takes the first rule whose key is part of the company id). The row of
`SlackRateLimit` is `sharedAge` and `sharedCount`; a container has `localAge`,
`localCount` and `blocked`, the map of `notifyUtil.ts`. Time is kept as ages, so
the state space is finite without a bound on the clock. `Increment`, `NoWindow`,
`Reset` and `Retry` are the two conditional updates and what follows them; `Error`
is a failure of DynamoDB, with the update made or not. Clocks of containers are
assumed equal; `MaxLag` is the longest a call may run. `docs/operations.md:59`
speaks of stuck windows: `NoWindowIsStuck` says that the code produces none. (That
page advises to delete the row; a container that has noted `blockedUntil` goes on
suppressing until its local window is over.)

## Runs

| Run | Question | Result |
|---|---|---|
| `Pipeline_resubmit` | Two requests with the same metadata, which has a timestamp or 0, faults, clock, sweepers: is the row visible when promised (`TrackedIsVisible`); does the sweeper spare outcomes (`SweeperSparesOutcomes`) and fail only what was stale when it was scanned, and of a dated declaration only what is past the threshold (`OnlyStaleTimesOut`); is a success searchable, however often it is submitted (`SuccessIsSearchable`); does every pending row get an outcome (`PendingIsResolved`)? | holds |
| `Pipeline_supersede` | Three declarations, two of which name the first, two deliveries each: is a success searchable (`SuccessIsSearchable`), does any pointer dangle (`PointersResolve`), are links sound (`SupersedeLinksAreSound`), are the contracts of the registry and of the event source implemented (`ImplementsContract`, `ImplementsDelivery`)? | holds |
| `Pipeline_rivals` | Is a declaration superseded once (`SupersededOnce`)? | no |
| `Stream_batches` | Ten records, two poison, in batches of up to ten with three retries: is a failure lost (`NothingIsForgotten`), do good records survive bad neighbours (`GoodAreProcessed`), is a record invoked a bounded number of times and dealt with as the contract says (`ImplementsDelivery`), does the stream drain (`StreamDrains`)? | holds |
| `Intake_answers` | All requests with at most two faults: does what is accepted conform to the schema it names, with no exception but a failed fetch of it (`AcceptedIsSound`), is a faultless request blamed for nothing else (`FaultlessIsNotBlamed`)? | holds |
| `Iroh_redact` | Bulk redaction, un-redaction, indexing, backfill: does the denylist follow the table (`DenylistFollowsTable`), do redactions arrive (`RedactionsArrive`)? | holds |
| `Iroh_backfill` | Runs are killed, resumed, rehearsed, repeated: is a declaration missed without being counted (`BackfillMissesNothing`), does a segment ever work without getting nearer to its end (`SegmentsAdvance`), do runs end (`RunsEnd`), within the pages and attempts (`TypeOK`)? | holds |
| `ReadPath_answers` | A call of any endpoint while two declarations are indexed, one of them twice, and redacted: is what was redacted before the call absent from the answer (`RedactedIsHidden`), is a search an error or as complete as the limit of the service allows (`AnswersAreComplete`)? | holds |
| `ReadPath_redacted` | Is a redacted declaration ever served (`RedactedIsNotServed`)? | yes |
| `Analytics_converge` | Two deliveries, two overlapping recalculations, one of which may die: do the counters end as the bucket (`CountersConverge`), and does anything fall back between two deliveries (`SettlingIsForGood`)? | holds |
| `Stats_sync` | Three deliveries of two declarations that fail anywhere: is what is marked counted (`MarkedIsCounted`), does the batch pipeline catch up (`StatsCatchUp`)? | holds |
| `Slack_limit` | Three containers, two notifications in a window: do the shared and the local cap hold (`CapHolds`, `LocalCapHolds`), do two retries settle every race (`ContentionIsSettled`), does suppression end (`NoWindowIsStuck`)? | holds |

What the refuted runs show:

* `SupersededOnce`: the check is at ingest, the link an unconditional put much
  later (`tableSupersededUtil.ts:117`); no fault is needed for two declarations to
  supersede the same one, against `tableSupersededUtil.ts:141`.
* `RedactedIsNotServed`: `getByIdentifier` and `getByDecId` answer from
  `IdentifiersOfDeclaration` (`getByIdentifier.ts:29`) and read no flags, against
  `docs/architecture.md:170` ("Flags are checked at search/read time") and
  `docs/api.md:145-146`. The other endpoints do (`RedactedIsHidden`).

For every property of a run `PROJECT.json` names a faulty variant of a definition
(`X_...`, kept beside it) with which TLC finds the property violated.

### Bounds and why they are enough

* `MaxDeliveries` of the pipeline: 2 in `Pipeline_supersede`, so that a first
  delivery fails and a second meets its leftovers; 1 in `Pipeline_resubmit`, whose
  liveness properties are too large for more, and where the two requests of the
  same declaration already process it twice, at once. Retries up to the deployed
  number run in `Stream_batches`. The proofs need no bound.
* `WithinTheMinute` (a constraint of `Pipeline_supersede`) stops the clock: its
  properties do not depend on time and hold, by proof, without it.
  `WithoutFaults` (of `Pipeline_rivals`) only narrows the search of a
  counterexample.
* `Stream_batches` has the batch size and the retries of the deployed event source.
* `MaxAttempts` is 2 in `Iroh_backfill` instead of 8: once to fail and once
  more. `MaxRuns` is 2: a run, and one that resumes or repeats it. One segment:
  segments share nothing but the file, in which each has its own entry.
  `Iroh_redact` has one page, one attempt and one run, since its question is the
  order of events. The theorems cover any number of each.
* `Window` is 1 and `MaxTime` 4 in `Intake`: timestamps before, at, within and
  after the window of every time of arrival. `Requests` has at most two faults:
  a check that masks another needs two, and the proof covers the rest.
* `ReadPath`: two declarations, of which one has a product and one is of the time
  before `s3Path`; three items, one of which is left by a delivery that died and has
  no row, and `HitLimit` 2 instead of 100, so that hits are crowded out; one call,
  since calls share nothing; `BatchMax` 1 instead of 100, so that flags take more than
  one batch. `Bounded` ends a behaviour with the
  call and lets one row lag at a time; the proofs need neither.
* `Slack_limit`: three containers, so that a race has more than one loser;
  `Window` 3 and `MaxLag` 1 keep the order of the real 15 minutes and 2 minutes.
  Containers are symmetric; the run has no liveness property.
* `Analytics_converge`: two files of one ISCC and two containers let one ISCC be
  counted twice; two jobs let an older listing overwrite a newer one; one death
  between two puts. `Stats_sync`: a third delivery replaces a body whose sync is
  under way.

In most runs deadlock is not checked since the modelled system may come to rest:
all requests answered, all records processed, all runs of the script over. It is
checked in `Intake`.

### Fairness

A Lambda that was called runs to its end or dies (its timeout sees to that), the
event source polls and delivers what it holds, the clock advances, the cron
fires. The one strong fairness is that of the sweeper's write: run after run,
every 15 minutes, it gets to each stale row again, and not all these writes are
lost. Without it a row would stay pending through an outage of DynamoDB without
end. In the mirror, the registry consumes its stream and a run under way makes
progress or is stopped. In `Analytics` the cron starts recalculations again and
again, and a job that is not one of the `MaxDeaths` runs to its end; in `StatsSync`
the batch pipeline comes again. Nothing is assumed of clients, of the success of
any other write, of redelivery, or of an operator who starts a backfill.

## Proofs

Every invariant and every action property that a run checks is a theorem, for all
values of the constants that satisfy the module's assumption. None of the
properties is inductive by itself; each module has an `IInv` that is.

`DeclarationPipeline_proofs` proves, for any set of requests, declarations and
declarers, any assignment of `DeclarationOf`, `Declarer` and `Supersedes`, and
any positive number of deliveries (`PipelineAssumption`):

* `TypeCorrect`, `SuccessMeansSearchable`, `NoDanglingPointers`, `LinksAreSound`;
* `TrackingWorks`, `OutcomesAreSpared`, `OnlyTheStaleTimeOut`;
* `DeliveryIsImplemented`: `Spec => ImplementsDelivery`, with a record's place read
  off `recPc`. It needs of the invariant that deliveries are counted within their
  bound;
* `Implementation`: `Spec => ImplementsContract`, with `published` mapped to the
  searchable declarations and `registered` to the identifier table.

That a success is searchable
depends on what the record had done before it was confirmed. `IInv` adds
`PipelineOrder` (at each point of the processing, which writes of this very
attempt have landed), `DeliveriesCounted` (a record under way has an attempt
number within its bound, so its item id is one), `AdmittedOnly` (what a request
was validated for stays true, because rows only ever come), and
`RegisteredAreSearchable`. The argument: no table ever loses a row
(`TablesGrow`), so what is known of one record is kept by the steps of all others
(`OthersKeepOrder`, `OneRecordMoves`); a new row was written by a record at the
one place that writes it (`NewMapping`, `NewIdentifier`, `NewSuccess`,
`NewLink`), and there `PipelineOrder` says what it points at. For the
refinement, a step maps to `Publish` only when it writes an item mapping
(`MappedIsPublished`); before that its S3 object and event are invisible.

What concerns status rows has a smaller invariant, `StatusInv`: a tracked
request has a row, since rows are never deleted (`TrackedHaveRows`), and what a
sweeper holds in its list is overdue or undated, and no ingest call of an
overdue declaration is under way that could make its row pending afresh
(`SweptAreOverdue`). The condition of the sweeper's update does the rest.

`Intake_proofs` proves `TypeCorrect`, `OnlySoundIsAccepted` and `NoFalseBlame`
for any set of bodies, versions, window and clock bound (`IntakeAssumption`). Its
`IInv` adds what is known of the request at each point of the handler (`Stages`)
and that a cache holds, for each version, only documents that a fetch of that
version may have left, and an embedded one only after an outage
(`CachesAreOfTheirUrls`). Without the second a request could meet in the cache the
schema of another version, and be accepted or refused by it.

`IrohMirror_proofs` proves `TypeCorrect`, `NothingIsMissed` and
`TheDenylistFollows`, for any identifiers, segments, pages, requests, attempts and
runs (`MirrorAssumption`), and `NoSegmentStandsStill` (`SegmentsAdvance`). For the backfill, `PagesAreAccounted`: each old
declaration on a saved page is in the registry, on its way or counted, and on the
page a segment is working on, what is no longer pending is. For redaction,
`OneMirrorsAtATime`: of an undisturbed identifier at most one call has its event
still to send and the table is as that call left it; if none has, the last
redaction event in the queue, or the denylist when there is none, says what the
table says (`WillBeDenied`). Puts in between do not matter, and consuming an event
keeps it.

`ReadPath_proofs` proves `TypeCorrect`, `NothingRedactedIsShown` and
`NothingGoesMissing` for any number of items, products and calls and any batch size
(`ReadAssumption`). At each await of a call, the flags set for good before it began
are still to be read, were read as set, or were left unprocessed
(`HiddenIsNoticed`), and what could be found ever since is among its entries, unless
its row was left unprocessed or it was crowded out (`LastingIsKept`). `HitLimit` is
any positive number.

`SlackLimiter_proofs` proves `SharedCap`, `LocalCap`, `RacesSettle` and
`SuppressionEnds` for any number of containers and any `Max`, `Window`, `MaxLag` and
`Grace` with `2 * MaxLag < Window + Grace` (`LimiterAssumption`). `Settled` is the
heart of it: a call that found no window has either still none, or one that was
started while the call ran and so outlives it. `LocallyCounted` relates the
container's count to what it sent, `Recent` and `LocallyRecent` the ages of windows
to the last notification.

`StatsSync_proofs` proves `NothingIsMarkedUncounted`: a container that is about to
mark has inserted the row.

`StreamConsumer_proofs` proves `TypeCorrect`, `NoFailureIsLost`,
`PoisonIsIsolated` and `Implementation`
(`ImplementsDelivery`), for any number of records, batch size and retries
(`StreamAssumption`). The inductive invariant has three parts. `Progress`: `LoopDone`
says how far the loop has come, `Batch` that a batch which is tried again without
having been split was worked off to its end before. `HeldOnce`: the intervals of the
batches are disjoint and cover, with what is behind, all that was taken; the proof
follows how a batch is cut at the lowest failure or in the middle. `Budgets`: a
batch was invoked no more often than it was shortened or retried, which is why the
bound of the contract is never met by an invocation that has still to be made. For
the refinement a lemma per action says where its records go; since the batches that
hold a record are unique (`HeldOnce`), `CallsOf` is well-defined.

`Analytics_proofs` proves `ThingsOnlyGetBetter` (`SettlingIsForGood`), for any
finite set of declarations and any containers, jobs and deliveries
(`AnalyticsAssumption`). Its invariant, `Busy`, says who has something to store or
to add, and that no list has a file that the bucket has not.

Only model-checked: liveness under fairness, which is out of the prover's reach. Of
most of these properties the part that is no liveness is proved: what a step must
not undo, or must bring nearer. What TLC adds is that the steps are taken.

| Liveness, checked by TLC | Its safety core, proved |
|---|---|
| `StreamDrains` | `ImplementsDelivery` |
| `RunsEnd` | `SegmentsAdvance` |
| `CountersConverge` | `SettlingIsForGood` |
| `RedactionsArrive` | `OneMirrorsAtATime` (part of `IInv`): while no call has it still to send, the last redaction event on its way, or the denylist, says what the table says |
| `StatsCatchUp` | `MarkedIsCounted` |
| `PendingIsResolved` | - (the fairness of the sweeper is all of it) |

## Not modelled

* The iroh verifier (`verifyIrohRegistry.ts`) and the `--ids-file` repair. The
  verifier reads the source and then the registry, in scans that are no snapshot,
  and looks up what it finds unexpected again; composed with the mirror this has
  too many states for TLC. Read, not checked: a declaration that was published and
  then redacted counts as unexpected, so a verification fails once a redaction of
  a published declaration was mirrored.
* Customer keys: one get and one unconditional put (`customerKeys.ts:26`). Two first
  calls of a customer that overlap return different keys and the later put wins;
  nothing in the code prevents it and no document denies it.
* Direct ingest: reads one row, replaces two headers and calls the ingest or status
  handler. Nothing in the repository calls the functions that write its rows.
* `getByCid`, whose table is not written any more, and
  `getFullDeclarationsAmount`, which only counts.
* The queries and the rebuild of `statisticsUtil.ts`: SQL that PostgreSQL executes.
* Cryptography, CIDs, JSON Schema, ISCC patterns: functions of the request.
  `Intake` takes their results as facts.
* Infrastructure code, whose settings are constants and fairness of the models, and
  integration tests.

## Plan

Done: `DeclarationPipeline` and `StreamConsumer` with `RegistryContract` and
`DeliveryContract`, `Intake`,
`IrohMirror`, `ReadPath`, `Analytics`, `StatsSync`, `SlackLimiter`, and the proofs of
all their safety properties.

Left, in this order:

1. An audit of the registry and its repair, over a reduced mirror: is what a
   verification calls complete complete, though its scans are no snapshot, and does
   a repair account for all that the audit reported?
2. The gate of direct ingest in front of `Intake`.
3. Customer keys, when the code gets a conditional put.
