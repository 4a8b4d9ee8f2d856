# Anti-Fraud-Detector in TLA+

Models of the refund-fraud pipeline in this repository, the TLC configurations
that check them and theorems that TLAPS proves. `PROJECT.json` lists the runs,
the source lines of every definition, a mutant of the code for every checked
property, the hazards and the theorems.

## 1. The system

| Component | State | Operations | Talks to |
| --- | --- | --- | --- |
| upload-service (Go): lifecycle | PostgreSQL tables `datasets`, `uploaded_files`, `analysis_jobs`, `lifecycle_audit_events` | upload, start, retry, archive, status, pipeline events | MinIO, RabbitMQ |
| upload-service: ingestion, normalization | object in MinIO, normalized CSV in a shared directory | validate and store an upload; normalize on `dataset.uploaded` | lifecycle, publisher |
| upload-service: publisher | one confirm channel, a mutex, a one-place Go channel of confirmations | `Publish` | RabbitMQ |
| upload-service: consumer | durable queue, dead-letter queue, retry count in a header | `process`: handle, acknowledge, copy, dead-letter | lifecycle |
| relations-service (Go) | datasets with features in memory, under an RW mutex, each with a version | process `dataset.normalized`, rebuild, feature/graph/summary queries | RabbitMQ, shared directory |
| scoring-service (Kotlin): runs | PostgreSQL calculations, results, reasons, processed events; a lock per dataset in the JVM | process `refund.relations.built`, recalculate, first view | relations-service (HTTP), RabbitMQ |
| scoring-service: rules | none | reasons, capped score, level | runs |
| scoring-service: decisions | table `investigation_decisions` | read and save a decision | dashboard |
| frontend (React) | session in `localStorage`, page state | upload, start, poll, retry, archive, review | both services through the gateway |
| gateway, containers, CI, data scripts | configuration and offline tools | | |

Upload, Start, Relations and Scoring work as a pipeline over one topic exchange:

```
start -> dataset.uploaded -> normalize -> dataset.normalized -> relations
      -> refund.relations.built -> scoring -> refund.scoring.completed
any stage -> pipeline.failed            every key -> lifecycle consumer
```

A job moves UPLOADED, NORMALIZING, BUILDING_RELATIONS, SCORING, COMPLETED, or to
FAILED. `NORMALIZED` is accepted as a source of transitions, and no step enters it.

### What is hard here

- **Requests of several transactions.** A start reads a job, claims it in a
  transaction, publishes, and marks the job FAILED if the publish reported an
  error. Other requests, events, a crash or the end of the HTTP context fall in
  between.
- **Delivery.** Every queue delivers at least once; retry copies go to the tail;
  relations requeues without end and publishes without confirmation.
- **Confirmations.** A failed publish may have been routed; a confirmation may
  belong to an earlier message.
- **Checks on stale reads.** Decisions, calculation versions and feature versions
  are read in one statement and relied on in another.
- **Numbers.** Two-decimal rounding before thresholds, a capped sum, truncated graphs, integers
  of two widths.

What makes each component correct: one run at a time per dataset and one chain of
retries; one dispatch per job; outcomes only as reported by the pipeline; an
archived dataset at rest (lifecycle). `nil` only for a confirmed message, no call
blocked for ever (publisher). No event lost, the cap exact, every event settled
(consumer). Consistent snapshots that scoring can tell apart (relations). One
calculation per event key, versions without gaps or clashes (scoring runs). The
documented score and level of every feature vector (rules). Final outcomes stay
final (decisions). What is shown and saved belongs to the dataset selected
(frontend). `PROJECT.json` "hazards" gives the code line of each hazard.

## 2. Modules

| Module | Models | Run or proof |
| --- | --- | --- |
| `AnalysisRuns` | the abstract promise: a history of runs per dataset | PROPERTY of `lifecycle_runs`, `lifecycle_documented` |
| `JobLifecycle` | rows, request handlers, events, workers as answers | `lifecycle*` |
| `JobLifecycleProofs` | its safety for every instance | TLAPS |
| `JobOutcomeProofs` | causes of outcomes, the refinement of `AnalysisRuns`, what polls show, what alone breaks the documented lifecycle | TLAPS |
| `ConfirmPublisher` | `Publisher.Publish` over one confirm channel | `publisher*` |
| `ConfirmPublisherProofs` | its safety for every set of calls | TLAPS |
| `EventConsumer` | `Consumer.process` over the durable queue | `consumer` |
| `EventConsumerProofs` | its safety for every number of events, retries and faults | TLAPS |
| `InvestigationDecisions` | `saveDecision` of service and repository | `decisions*` |
| `InvestigationDecisionsProofs` | its safety for every instance | TLAPS |
| `JobViews` | the status view of a job, as functions of `JobLifecycle`'s rows | `lifecycle_runs` |
| `RelationsService` | snapshot, consumer goroutine, rebuild, the queue to scoring | through `ScoringRuns` |
| `ScoringLedger` | the abstract promise: an append-only history of calculations | PROPERTY of `scoring_runs` |
| `ScoringRuns` | replicas, threads, lock and database of scoring, composed with `RelationsService` | `scoring_runs` |
| `ScoringRunsProofs` | their safety, the refinement of `ScoringLedger`, one calculation per event | TLAPS |
| `CsvRows` | validation, normalization and loading of rows, as functions | through `DataPath` |
| `RelationFeatures` | features, related returns, graph, summaries, rules, as functions | through `DataPath` |
| `RelationFeaturesProofs` | lemmas about them: sorting, cutting, sums, rounding, the score, the graph, the walk over a map | TLAPS |
| `DataPath` | a file from upload to score: two stores, workers, shared volume, composed with the two above | `data_path`, `analytics_deterministic` |
| `DataPathProofs` | its safety for every file, worker and limit | TLAPS |
| `MC...` | model values' symmetry sets | |

### JobLifecycle

`datasets` and `jobs` are the two tables (a job is its index in creation order;
`retryOf` is `retry_of_job_id`), `req` is the program counter and local row of
each HTTP handler, `topic` every message the exchange accepted, `attempts` how
often `dataset.uploaded` was handed to the publisher.

A database transaction is one action. The code's transactions lock what they
read with `SELECT ... FOR UPDATE` and PostgreSQL's READ COMMITTED re-reads a row it
had to wait for, which is what makes a transaction one step here; that is
assumed, not shown. Jobs are ordered by `created_at`; a retry is
created after its source ended, so the order is that of creation as long as the
service's clock does not run backwards.

| Action | Code |
| --- | --- |
| `UploadDataset` | `CreateDatasetWithFileAndJob` |
| `LoadForStart`, `ClaimStart`, `PublishUploaded`, `FailDispatch` | `StartAnalysis`, `startAnalysisJob`, `ClaimAnalysisStart`, `UpdateAnalysisStatusWithError` |
| `RetryExisting`, `RetryNew` | `RetryAnalysis`, `CreateRetryJob`, then the start as above |
| `Abandon` | the request's context ends, a call fails or the process dies between two calls |
| `ArchiveDataset` | `ArchiveDataset` |
| `Normalize`, `BuildRelations`, `Score` | a worker's handler, reduced to which of its two messages it sends |
| `HandlePipelineEvent` | `HandlePipelineEvent` and `TransitionFromEvent` |

Messages stay in a set: a delivery may be late, out of order, repeated or never
come. That covers redelivery and retry copies, and is weaker than the broker
gives, so safety carries over; the order the consumer does keep is the subject of
`EventConsumer`. `PublishUploaded` chooses independently whether the message
was routed and what the call returns; `ConfirmPublisher` shows that both
mixed outcomes happen.

### ConfirmPublisher

A call is at the mutex (`called`), past its send (`waiting`), or returned. Its
message's tag and the tag it read are kept to tell them apart. `verdict` is the
broker's answer per message, `passed` how many the library handed to the one-place
Go channel `confirms`. A context may end at any point of the wait and Go's `select`
may prefer it to a confirmation that is there. The connection goes down once and is
never opened again, as in the code.

### EventConsumer

One delivery at a time (`Qos(1)`). `pc` is the place in `process`; the header
count is `retries`; `applied` counts the handler's committed effects, `dead` the
dead-letter queue. A fault (bounded) is a handler whose error came after its
commit, a refused copy, or a connection or process that goes down; the broker
then puts the unacknowledged delivery back at the head.

### InvestigationDecisions

Each request is at its place between the unlocked check, the second read, the
statement, and the read for the answer. Each JDBC statement is one step (no
transaction spans them). A row keeps its outcome and the request that wrote it,
which stands for the action, note and analyst.

### RelationsService and ScoringRuns

One dataset: datasets share neither snapshot nor lock nor version numbers. A
snapshot is its feature version, as its records are those of the one normalized
file; `records` says whether scoring's types and columns can hold their values, which
the upload does not limit. `inbox` and `built` are the two queues, `handling` the
delivery the consumer goroutine has, `rebuild` the version a rebuild request has cloned
and not yet published, `outcome` the first terminal event of each job, which is the one
the lifecycle keeps. `calcs` holds `scoring_calculations` with `scoring_processed_events`, by
version number. A thread of a replica (the listener, or an HTTP request) is at one
of the steps between the lock, the GET of the scoring inputs, the second lookup of
the event, the version read, the inserts, and the publication of the result.

| Action | Code |
| --- | --- |
| `Receive`, `LoadDataset`, `LoadFails`, `PublishBuilt`, `AckNormalized` | `ConsumeNormalizedDatasets`, `ProcessNormalizedDataset`; the acknowledgement is a step after the publication |
| `BeginRebuild`, `EndRebuild` | `RebuildDataset`, which clones under the lock and publishes after it |
| `TakeEvent`, `Request`, `Enter` | listener, `recalculateDataset` and `ensureResults`, up to the lock |
| `LoadInputs` | `RelationsDatasetProvider.load` with the version check; the call may fail in each way the provider turns into an exception |
| `CheckAgain`, `ReadVersion`, `SaveRun` | `saveRun`: each statement that reads what another replica may write; any of them may fail, the commit also after it took effect |
| `ReportCompleted`, `ReportFailed` | `RelationsBuiltConsumer`; a failed report of success becomes a report of failure |
| `CopyNormalized`, `FileLost`, `Disconnect`, `BrokerRestarts`, `RestartRelations`, `LoseChannel`, `Crash` | faults |

What a scoring thread does may fail at each step: the first lookup, the call of relations
(no connection, an answer in the 400s or 500s, an empty one, a contract violation), a
statement or the commit, and an insert whose value its column does not take. All end in
the catch block of `RelationsBuiltConsumer`, which reports `pipeline.failed`; the model
keeps two kinds of fault for them, `inputs` and `database`, and `records` for the values.

`CopyNormalized` is the upload consumer's retry copy, which the exchange hands to the
relations queue as well. The request that retries a job is left to
`JobLifecycle`; here a second job may begin once the first has failed. A crash of
scoring between its commit and its acknowledgement, a delivery returned while its
thread goes on, and two replicas that read the same version are all behaviours of
the model. `ScoringLedger` says what this has to amount to, and `LedgerSpec` is the
refinement: the ledger is `calcs` without who wrote the entry.

### CsvRows, RelationFeatures and DataPath

The data are kept to what the code tells apart: an amount is an integer in
thousandths, an identifier an integer (negative before its prefix is rewritten), a
timestamp the name of its layout, a decision its word. `Accepted` is
`validateCSVStream`'s verdict, `normalizeCSVRow` the row the worker writes, `Loads` the
reader in relations. Rates are in hundredths, rounded as `round` does, so that every
comparison with a threshold is exact.

`DataPath` runs one file through the system. The request validates, puts the object,
commits the rows and deletes the object when the commit reports an error; the
service may die in any of the three calls. Workers read the object line by line,
write a temporary file of their own, rename it over the dataset's file and announce
it; a delivery may come twice and two workers overlap. Relations loads what was
announced, scoring reads the snapshot. A worker gives up when the object store or the
disk fails it, whether it opens the object, creates its file, reads, writes or renames;
it then reports the failure in a step of its own, and may die before that. Relations
may be unable to read the volume, and requeues. Scoring refuses minutes beyond an `Int`
(`IntMax`), amounts beyond `DECIMAL(19,4)` (`AmountMax`) and texts its columns do not take
(`TextMax`), none of which the upload limits. A number beyond `TextMax` stands for such a
text: too long, with a NUL in it, or a return id that is not UTF-8 and becomes another's
in the JSON of relations. That a scoring run may also fail on its own is `inputs` and
`database`, which `ScoringRuns` tells apart. Two things are left out of the data: cells
with a line break or with the separator 0x1F of the duplicate check. Dispatch and lifecycle are reduced to
`StartAnalysis` and to the set of stages that reported a failure.

### JobViews

`buildAnalysisStatusResponse` over the job rows. It changes nothing: its property is
an action property of `JobLifecycle`'s steps.

## 3. Runs

| Run | Result | Instance |
| --- | --- | --- |
| `lifecycle` | pass | 2 datasets, 2 handlers, 3 jobs, 1 pipeline failure: 1.2 million states with symmetry |
| `lifecycle_runs` | pass | 1 dataset, 2 handlers, 3 jobs, 2 failures: refines `AnalysisRuns` with late failures; what a poll shows |
| `lifecycle_documented` | violated | 1 dataset, 1 handler, 1 job: refinement of the documented lifecycle |
| `lifecycle_dispatch` | violated | the same under `FairSpec`: a start is dispatched |
| `publisher` | pass | 4 calls, no symmetry (liveness) |
| `publisher_stale` | violated | 2 calls |
| `consumer` | pass | 4 events, one malformed, 2 retries, 2 faults |
| `decisions` | pass | 3 requests on one return, every outcome, blank or named analyst |
| `decisions_reopened` | violated | 2 requests |
| `scoring_runs` | pass | 1 job, 2 replicas, 3 loads, 2 faults of 11 kinds, a rebuild counting as one: 188,612 states |
| `data_path` | pass | 2,433 files of up to 8 rows, 2 workers, 3 faults of 11 kinds for the two small files: 39,793 states |
| `analytics_deterministic` | violated | the same files |

**Bounds.** Three jobs allow a retry of a retry, and two jobs of one dataset beside
one of another. Two handlers are two overlapping requests; a third concurrent
request meets the same row locks. One or two `pipeline.failed` messages let a job
fail, be retried and meet the old message again. Four publishes let two calls give
up and two be misled. Four events with two retries let an event be copied, put back
and overtaken twice. Three decisions let two race while a third made the row they
race for. The safety of the lifecycle and of the decisions does not rest on these
bounds: see the proofs.

In `scoring_runs` three loads let a copy, a redelivery and a restart each bring a
version of their own, and any two faults, of one kind or of two, meet in every order. A
rebuild takes the place of a fault there: with two faults beside it the run was checked
once without an error (1.9 million states), which takes too long to keep; every number
of jobs, loads, rebuilds and faults is what the proofs are for. In `data_path`
the files are a base row with each cell replaced by each other kind of value, alone
and beside a second row; rows that repeat, conflict or do not parse; every header
mistake; and seven rows in each way of sharing two customers and two agents, which
is what it takes to cross the thresholds 3 and 5 from both sides. A report holds two
warnings and a file seven rows, so that both limits are met. `IntMax` is 90 in
place of 2^31 - 1, `AmountMax` 600.00 in place of 10^15 and `TextMax` 8, with files on both
sides of each. Files with faults are kept to two small ones: what a fault does
depends on where it strikes, not on the rows.

**Deadlock** checking is off in every run: each model ends when its bounded work is
done (all calls returned, all events settled, all jobs ended), as the program then
waits for requests.

**Fairness.** Safety runs assume none. `publisher`: the broker answers what it was
sent, the library hands over what arrived and a goroutine that can run does; a
context need never end, so that `EveryCallReturns` does not rest on timeouts.
A connection that is down hands nothing over, and calls waiting then return by the
closed channel. Each call's steps are under one weak fairness condition: Go's mutex
serves waiters in turn (its starvation mode), and every call publishes once.
`consumer`: the consume loop goes on; nothing is assumed of producers or faults,
of which there are finitely many. `lifecycle_dispatch`: a request that is not cut
off makes its next call; `Abandon` needs no fairness, it is what a crash does.
`scoring_runs`: the relations goroutine keeps consuming (`ConsumerStep`; it receives
nothing without a connection), a load that fails is tried again by the requeue, each
listener takes and handles what is queued and each request's thread goes on; nothing is
assumed of scoring binding its queue, of producers, rebuilds, requests or faults, nor of
the file coming back.
`data_path`: the workers, relations and scoring keep consuming; nothing is assumed of
the upload request, of a start or of faults.

### What the passing runs show

- `OnlyLatestIsActive`, `RetriesFormChain`, `ArchivedIsQuiet`,
  `StartPublishesOnce`: row locks do keep overlapping start, retry, archive and
  event transactions apart.
- `OutcomeHasCause`: a stage, a ready result, a failed stage each were reported
  by a message about that job (or, for a failed dispatch, follow an attempt).
- `DatasetFollowsLatest`: the dataset's own status is that of its latest job, with
  one exception the code allows: FAILED, when there is an older job whose dispatch failed.
- `ImplementsRuns`: the rows refine `AnalysisRuns`, provided a completed run may
  still fail.
- `SkewIsLeftUnread`: the confirmation a call reads is exactly as many messages old
  as calls gave up before it. `TruthfulUntilUnread`: before the first such call,
  results are right. `EveryCallReturns`: the mutex is never held for ever.
- `NoEventLost`, `DeadWasTried`, `OnceWithoutFault`, `OvertakenOnlyByRetry`,
  `EveryEventSettles`: the retry-by-copy protocol is at-least-once, exact at its cap,
  and reorders only after a failure.
- `RowsAreSanctioned`, `FinalChangesOnlyByStaleCheck`, `InsertNeverReplaces`: what the
  unlocked decision check still guarantees.
- `PollNeverGoesBack`: between two polls neither progress nor completed stages go
  back, except to zero for a failed dispatch or a failure without a known stage.
- `LedgerSpec`: duplicates, crashes, returned deliveries and a second replica never
  make two calculations of one event, nor one with other features than announced.
  `CompletedHasRun`: COMPLETED is never shown for results that are not stored.
- `FailedHasCause`: which faults can turn into a failed job: values scoring cannot hold, a
  file that is lost, a restart of relations, an event that is not published, a failing
  call of relations, a failing statement. A crash of scoring, a delivery made twice, a
  broker restart or a lost connection never do, however often they come. A job fails
  though nothing it needs has failed when a retry copy replaced the snapshot, or when two
  replicas took the same version number.
- `FeaturesAdvance`: within a replica the lock keeps a slow calculation from storing
  older features after newer ones. Between replicas nothing does.
- `DeliveriesSettle`: an endless requeue still settles its job; an event published
  before scoring has bound its queue, lost by a broker restart, or left behind a lost
  connection does not, and these are the property's exceptions.
- `StoreMatchesDatabase`: every way an object and its dataset can come apart needs a lost
  answer, a failed deletion or a crash. After a lost answer of the commit the deletion
  takes the object of a dataset that exists.
- `AnnouncedFileIsWhole`: the temporary file and rename make overlapping workers
  harmless. `UploadSettles`: a started analysis is scored or reported failed.
- `AcceptedIsScored`, `DropsAreWarned`, `LoadedAsAccepted`: the upload's validation and
  the later readers, written apart, agree. The exceptions are named: return ids that
  meet when their prefix is rewritten; minutes beyond scoring's `Int`, amounts from 10^15
  and texts longer than their columns, which the upload accepts and whose analysis fails
  in scoring; order amounts under half a cent, dates without a time, and warnings beyond
  the report's limit. Beside them a stage fails only by a call of its own that fails:
  object store, disk, volume, the call of relations, the database.
- `RelatedIsMutual`, `GraphIsClosed`, `AnalyticsAgree`, `RulesAreExplained`: what relations
  and scoring compute twice agrees. The override count, which is a rounded rate times
  the decisions and cut off, is one short at most below 200 decisions, and from 200 on may
  be above as well, by one per 200 decisions; the graph is closed for limits from seven,
  and an approval rate of 86 to 89 percent raises a score without its explanation signal
  (0.85 in the rule, 0.9 in the signal).

### Where code and documentation part

1. A dispatch that is reported failed overwrites whatever the job reached, COMPLETED
   included (`service.go:272`); documented: any *active* stage can fail.
2. A start cut off after its claim leaves the job NORMALIZING, with start, retry and
   archive all refused (`service.go:248`); documented: exactly one publish per start.
3. A publish can succeed on an earlier message's confirmation (`publisher.go:66`).
4. Overlapping decisions can reopen a final outcome (`ScoringService.kt:143`).
5. The top category of an agent depends on the order of a Go map
   (`relations-service` `service.go:1182`); a test is named for its being deterministic.

Each run shows that its property fails; the proofs say what alone makes it fail, for
every instance:

| Property | Fails | Theorem |
| --- | --- | --- |
| `ImplementsDocumentedRuns` | exactly by `LateDispatch`: a dispatch is reported failed after its job COMPLETED | `OnlyLateDispatchIsUndocumented` |
| `StartedIsDispatched`, its safety part `StartsAreHandedOver` | exactly by `CutOff`: a request ends between its claim and its publish | `OnlyACutOffStrandsAStart` |
| `SuccessIsConfirmed` | only after `GivesUp`: a context ended while the confirmation could still come | `OnlyGivingUpMisleads` |
| `FinalIsNotReopened` | only after `OverwritesUnseen`: an UPDATE hits a row other than the one it was checked against | `UpdatesOfSeenRowsSuffice` |
| `AnalyticsDeterministic` | exactly where `TopsAreClear` is false: named categories tie at the top, or a blank one is ahead of them | `OnlyTiesAreIndeterminate` |

So a repair of the code needs to look at these steps only: no other step of the models
can break the property. The first two rows and the last are equivalences; in the other two
the step may also do no harm.

## 4. Proofs

Constants are arbitrary: any sets of datasets, handlers, calls, returns, requests,
jobs, replicas and workers, any numbers of events, retries, loads and faults, any
files. Every module names what it assumes of its constants, and TLC evaluates it
in the runs:

- the bounds are naturals, `MaxJobs`, `MaxErrors` and `RelatedLimit` positive, and the
  values that stand for "none" are not among the values they are told from;
- `ScoringAssumption`: there are finitely many replicas, so that they can be counted;
- `DataPathAssumption`: every file is `Represented`, that is a sequence of rows whose
  cells are of the kinds the readers turn texts into. A file that did not satisfy it
  would not be one the module can speak of; it says nothing of a file being valid.

Each proof module gives an inductive invariant (`IInv`, `OInv`), one lemma for each
part of it, and the theorems that follow.

**JobLifecycleProofs** proves `TypeOK`, `OnlyLatestIsActive`, `RetriesFormChain`,
`ArchivedIsQuiet` and `StartPublishesOnce` of `Spec`. Not one of the last four is
inductive: a start that finds no job would create one beside the chain, a
request may refer to a missing row, and a retry of an early job would branch the
chain. `IInv` adds `RequestsHaveRows`, `AttemptsHaveStarted`, `DatasetsHaveJobs` and
`EarlierJobsAreRetried`. The last is what orders retries: an ended job that is not the
latest already has its retry, so only the latest can get a new one, and it is the
latest that the chain ends in. The proof classifies steps first: a step leaves the
jobs alone, moves one row (`MovesJob`: never to UPLOADED, never from an ended status
back), or adds one (`CreatesJob`). Each part of `IInv` is then preserved by each
class, rather than by each action. `UploadedHasJob` is the by-product that
`StartAnalysis` never reaches its branch that creates a job, which the model leaves out.

**JobOutcomeProofs** goes on from there to `OutcomeHasCause`, `DatasetFollowsLatest`, the
refinement `ImplementsRuns` and the action property `PollNeverGoesBack`. A
failed row must say at which stage it failed, and a request that reports its
dispatch failed writes the stage it read earlier; so `OInv` adds what a request has read
(`RequestsReadUploaded`), that it published before it fails (`RefusedWasPublished`), that
the step of a row is its status or failed stage (`StepsFollow`), and which
stages a worker's failure names. For the refinement each class of steps is mapped
to a step of `AnalysisRuns` or to a stutter. `OnlyLateDispatchIsUndocumented` proves the
same of the documented lifecycle, in both directions: without a late dispatch a completed
row stays completed (`CompletedStays`), so every failure maps to a documented one; and a
late dispatch is a step of the rows that the documented history has no step for.
`OnlyACutOffStrandsAStart` follows a claim: a job leaves UPLOADED only by one
(`StartIsClaimed`), the claim stays with its request until the publish
(`HandedOverStays`), and a claim that is cut off leaves no other (`CutOffStrands`).

**InvestigationDecisionsProofs** proves `TypeOK`, `RowsAreSanctioned` and the action
properties `FinalChangesOnlyByStaleCheck` and `InsertNeverReplaces`. The invariant relates
every row to the request that wrote it and every request past the check to the row
it checked. `UpdatesOfSeenRowsSuffice` is about a code with one more condition in its
UPDATE: that condition is enough for the contract that `decisions_reopened` refutes.

**ConfirmPublisherProofs** proves `TypeOK`, `SkewIsLeftUnread` and
`TruthfulUntilUnread`. The argument is a count (`Balance`): the confirmations handed over
are those read, the one in the buffer, and those of calls that gave up. `Tags`
says that only the last message's call waits, so that the mutex makes the count
exact, and `Reads` that confirmations are read in order. The set of calls may be
infinite; those that have sent something are finitely many. `OnlyGivingUpMisleads` adds
that as long as nobody gave up, the confirmation a call reads is its own.

**EventConsumerProofs** proves `TypeOK`, `NoEventLost`, `DeadWasTried`, `OnceWithoutFault`
and `OvertakenOnlyByRetry`. `NoEventLost` needs to know that a delivery about to be
acknowledged was handled or copied (`WorkIsRecorded`); `DeadWasTried` that the count in a
copy's header is no more than the failures the event had (`RetriesAreFailures`); the
order that an event which never failed has nothing later settled or ahead of it
(`InOrder`). `FaultFree` counts the places of an event while no fault has happened: one.

**ScoringRunsProofs** proves `TypeOK`, `CompletedHasRun`, `FailedHasCause`,
`FeaturesAdvance` and the refinement `LedgerSpec`. `RelationsOK` ties the snapshot, the
queues and the handled delivery to the last load; `ScoringOK` says what a thread
has established at each step under the lock of its replica (in particular that
nothing newer is stored by that replica); `QuietOK` says how a state looks in which none of
the causes of `FailedHasCause` (`Causes`, and `records` that do not suit) is there: at most one job sent and at most one load,
so that every event names the one snapshot there is. The ledger's steps follow
from `SaveRun` finding no run of its event, and `EventsAreCalculatedOnce` says it of the
calculations themselves, together with the features they were made from.

**DataPathProofs** proves `TypeOK`, `StoreMatchesDatabase`, `AnnouncedFileIsWhole`,
`AcceptedIsScored`, `DropsAreWarned`, `LoadedAsAccepted`, `RelatedIsMutual`, `GraphIsClosed`,
`AnalyticsAgree` and `RulesAreExplained`. Workers build a list row by row that leaves repeated rows out. What the
invariant knows of it (`Whole`) is a set and not a recursion: the list has no return
twice and its range is the set of the rows normalized so far. The lemmas under it relate the
three readings of a row: `AcceptedCells` and `AcceptedRow` that what the upload accepts can be
normalized and loaded, `SameReturnSameRow` and `OnlyRewritingClashes` that two
rows of an accepted file get the same id only when they are equal or their prefixes
were rewritten. `AnnouncedFileIsWhole` then does not depend on which worker's rename came
last, as all whole files have the same length. A worker that gave up has not reported it
yet, so `FailingOK` carries why it did (`Excused`) from the step that failed to the report,
and `FaultIsLater` says that an excuse is not taken back. The report of `DropsAreWarned` is a
concatenation of one list per row, cut to the limit: a warning is missing only when the
lists before it already fill the report.

**RelationFeaturesProofs** holds the lemmas about features: sorting a finite set
by a strict order lists each element once (`SortedIsAll`), lists cut to a limit, rounded
ratios, `ScoreRange`, `RulesHaveSignals` (the thresholds of rules and signals side by side),
`RelatedBothWays`, and `GraphIsWhole`: a graph has six nodes of its own return beside at
most `limit - 6` related ones, so that from a limit of seven nothing is cut. What a recursive
definition computes is proved without the induction theorems: a sum over a finite set, a
concatenation and the walk of `topKey` over its map are pinned down by the facts that
determine them, and a smallest set or position where they failed is shown not to exist
(`SumsExist`, `SumIsOne`, `WalkIsOne`). From that follow the bounds that `AnalyticsAgree` needs
(a mean is between least and largest, `MeanIsBetween`; a count recomputed from its
rounded rate, `CountFromRate`), and `ClearTopIsOne`: the walk ends the same in every order
exactly if one named key leads.

Only model-checked: liveness under fairness (`EveryCallReturns`, `EveryEventSettles`,
`DeliveriesSettle`, `UploadSettles`), which the prover does not reach, and that the five
properties of section 3 do fail, for which a run has the behaviour. Every other
property of a run is a theorem.

## 5. Not modelled

- The admin status PATCH, which is registered only when `ADMIN_STATUS_PATCH_ENABLED`
  is set and may write any status: it would void every lifecycle property by design.
- Audit rows (written in each transaction, never read by a decision), timestamps,
  messages, paging and formatting.
- A database failure inside a transaction: the transaction rolls back and the
  request ends, which is `Abandon`. A commit whose answer is lost is the action
  followed by `Abandon`.
- HTTP routing, request decoding, mapping of errors to statuses, configuration and
  wiring: no state, and no decision the properties speak of.
- The preview and the lists of datasets: reads that nothing else depends on.
- In ingestion, the checks of file name, size and content type: they refuse an
  upload before anything exists.
- In relations, the demo data set and the file named at start-up, which the
  pipeline does not use, and labels, reasons and summaries, which are texts.
- In scoring, risk levels (four comparisons that unit tests reach), lists, the CSV
  export, and the CSV-derived features, which the pipeline does not use.
- What a dead-lettered or overtaken event leaves behind in the job: each half is in a
  module of its own, and no run composes them.
- The frontend, as planned below; the gateway, containers, CI and data scripts are
  not part of the program.

## 6. Plan

Every safety invariant, action property and refinement that the passing runs check is
proved. What is left:

1. A composition of `EventConsumer` and `JobLifecycle`: a dispatched job ends, unless an
   event is dead-lettered or overtaken; its safety part is then to be proved from the
   two invariants.
2. Converses of `OnlyGivingUpMisleads` and `UpdatesOfSeenRowsSuffice`: a call that gives up,
   or an update of an unseen row, does no harm when nothing follows it, so an exact
   condition has to speak of two steps.
3. `DashboardSession`: selection, polling and late answers.
