---------------------------- MODULE JobLifecycle ----------------------------
(***************************************************************************)
(* The analysis lifecycle of the upload service: the rows of datasets and  *)
(* analysis_jobs, the HTTP requests that start, retry and archive, and the *)
(* pipeline events that move a job.  A database transaction is one step    *)
(* (it locks the rows it reads with SELECT ... FOR UPDATE); a request that *)
(* makes several calls is several steps, and any other step may come       *)
(* between them.  Messages are kept in a set: the broker may deliver each  *)
(* of them late, in any order and again.                                   *)
(***************************************************************************)
EXTENDS Naturals, Sequences, FiniteSets

CONSTANTS
  Dataset,  \* the datasets that can be uploaded
  Handler,  \* the goroutines that serve start and retry requests
  MaxJobs,    \* bound: how many analysis jobs are ever created
  MaxFailures \* bound: how many pipeline.failed messages the workers ever send

ASSUME BoundsAssumption == MaxJobs \in Nat \ {0} /\ MaxFailures \in Nat

VARIABLES
  datasets,   \* table datasets: status and archived_at of each dataset
  jobs,       \* table analysis_jobs in order of created_at: a job is its index
  req,        \* where each request handler is, and the row it works on
  topic,      \* every message the exchange has accepted
  attempts    \* how often dataset.uploaded was handed to the publisher, by job

vars == <<datasets, jobs, req, topic, attempts>>

-----------------------------------------------------------------------------
Terminal == {"COMPLETED", "FAILED"}
Active == {"UPLOADED", "NORMALIZING", "NORMALIZED", "BUILDING_RELATIONS", "SCORING"}
Status == Active \cup Terminal

JobRow == [dataset : Dataset, status : Status, step : Status,
           failedStage : Status \cup {""}, resultReady : BOOLEAN, retryOf : 0 .. MaxJobs]
DatasetRow == [status : Status \cup {"ABSENT"}, archived : BOOLEAN]
Idle == [pc |-> "idle", job |-> 0, step |-> ""]
Request == [pc : {"loaded", "claimed", "refused"}, job : 1 .. MaxJobs, step : Status]
Progress == {"dataset.uploaded", "dataset.normalized", "refund.relations.built",
             "refund.scoring.completed"}
FailedStage == {"UPLOADED", "NORMALIZING", "BUILDING_RELATIONS", "SCORING", "FAILED"}
Message ==
  [key : Progress, dataset : Dataset, job : 1 .. MaxJobs, stage : {""}]
    \cup [key : {"pipeline.failed"}, dataset : Dataset, job : 1 .. MaxJobs, stage : FailedStage]

TypeOK ==
  /\ datasets \in [Dataset -> DatasetRow]
  /\ jobs \in Seq(JobRow) /\ Len(jobs) <= MaxJobs
  /\ req \in [Handler -> Request \cup {Idle}]
  /\ topic \subseteq Message
  /\ attempts \in [1 .. MaxJobs -> Nat]

JobsOf(d) == {j \in DOMAIN jobs : jobs[j].dataset = d}
\* ORDER BY created_at DESC LIMIT 1
IsLatest(j) == \A i \in JobsOf(jobs[j].dataset) : i <= j
NotArchived(j) == ~datasets[jobs[j].dataset].archived
HasActiveJob(d) == \E j \in JobsOf(d) : jobs[j].status \notin Terminal

\* Mutant: the row of a new job is written without its step.
NewJobWithoutStep(d, source) ==
  [dataset |-> d, status |-> "UPLOADED", step |-> "", failedStage |-> "",
   resultReady |-> FALSE, retryOf |-> source]
NewJob(d, source) ==
  [dataset |-> d, status |-> "UPLOADED", step |-> "UPLOADED", failedStage |-> "",
   resultReady |-> FALSE, retryOf |-> source]

WriteRow(j, status, step, failedStage, ready) ==
  jobs' = [jobs EXCEPT ![j] = [@ EXCEPT !.status = status, !.step = step,
             !.failedStage = failedStage, !.resultReady = ready]]
SetDatasetStatus(d, status) ==
  datasets' = [datasets EXCEPT ![d] = [@ EXCEPT !.status = status]]

\* Mutants: every ended job declares a result; the dataset's status is not written.
WriteStatusReadyWhenEnded(j, status, step, failedStage) ==
  /\ WriteRow(j, status, step, failedStage, status \in Terminal)
  /\ SetDatasetStatus(jobs[j].dataset, status)
WriteStatusOfJobOnly(j, status, step, failedStage) ==
  /\ WriteRow(j, status, step, failedStage, status = "COMPLETED")
  /\ UNCHANGED datasets
\* UPDATE analysis_jobs and, in the same transaction, the status of its dataset
WriteStatus(j, status, step, failedStage) ==
  /\ WriteRow(j, status, step, failedStage, status = "COMPLETED")
  /\ SetDatasetStatus(jobs[j].dataset, status)

Uploaded(j) ==
  [key |-> "dataset.uploaded", dataset |-> jobs[j].dataset, job |-> j, stage |-> ""]

Init ==
  /\ datasets = [d \in Dataset |-> [status |-> "ABSENT", archived |-> FALSE]]
  /\ jobs = <<>>
  /\ req = [h \in Handler |-> Idle]
  /\ topic = {}
  /\ attempts = [j \in 1 .. MaxJobs |-> 0]

-----------------------------------------------------------------------------
(* Requests.                                                               *)

\* The upload transaction: the dataset and its first job appear together.
UploadDataset(d) ==
  /\ datasets[d].status = "ABSENT"
  /\ Len(jobs) < MaxJobs
  /\ SetDatasetStatus(d, "UPLOADED")
  /\ jobs' = Append(jobs, NewJob(d, 0))
  /\ UNCHANGED <<req, topic, attempts>>

\* A start request has read the latest job and found it UPLOADED; in any other
\* status it answers with the job's id and changes nothing.
LoadForStart(h, d) ==
  /\ req[h] = Idle
  /\ \E j \in JobsOf(d) :
       /\ IsLatest(j)
       /\ jobs[j].status = "UPLOADED"
       /\ req' = [req EXCEPT ![h] = [pc |-> "loaded", job |-> j, step |-> jobs[j].step]]
  /\ UNCHANGED <<datasets, jobs, topic, attempts>>

\* Mutant: a retry does not look at archived_at.
RetryAllowedIfEnded(j) == jobs[j].status \in Terminal
RetryAllowed(j) == NotArchived(j) /\ jobs[j].status \in Terminal

\* A retry of j finds the retry an earlier request made and, if it is not yet
\* started, goes on to start it.
RetryExisting(h, j) ==
  /\ req[h] = Idle
  /\ RetryAllowed(j)
  /\ \E r \in DOMAIN jobs :
       /\ jobs[r].retryOf = j
       /\ jobs[r].status = "UPLOADED"
       /\ req' = [req EXCEPT ![h] = [pc |-> "loaded", job |-> r, step |-> jobs[r].step]]
  /\ UNCHANGED <<datasets, jobs, topic, attempts>>

CreateRetry(h, j) ==
  /\ req[h] = Idle
  /\ RetryAllowed(j)
  /\ ~HasActiveJob(jobs[j].dataset)
  /\ Len(jobs) < MaxJobs
  /\ jobs' = Append(jobs, NewJob(jobs[j].dataset, j))
  /\ SetDatasetStatus(jobs[j].dataset, "UPLOADED")
  /\ req' = [req EXCEPT ![h] =
               [pc |-> "loaded", job |-> Len(jobs) + 1, step |-> "UPLOADED"]]
  /\ UNCHANGED <<topic, attempts>>

\* Mutant: a retry does not look for an earlier retry of the same job.
RetryNewAgain(h, j) == CreateRetry(h, j)
RetryNew(h, j) ==
  /\ \A r \in DOMAIN jobs : jobs[r].retryOf # j
  /\ CreateRetry(h, j)

\* ClaimAnalysisStart under the locks of the job and its dataset.  A lost claim
\* and an archived dataset both end the request.
ClaimIf(h, free) ==
  /\ req[h].pc = "loaded"
  /\ IF free
       THEN /\ WriteStatus(req[h].job, "NORMALIZING", "NORMALIZING", "")
            /\ req' = [req EXCEPT ![h].pc = "claimed"]
       ELSE /\ req' = [req EXCEPT ![h] = Idle]
            /\ UNCHANGED <<jobs, datasets>>
  /\ UNCHANGED <<topic, attempts>>
\* Mutant: the claim trusts the status the request read before it.
ClaimStartUnchecked(h) == ClaimIf(h, NotArchived(req[h].job))
ClaimStart(h) ==
  ClaimIf(h, NotArchived(req[h].job) /\ jobs[req[h].job].status = "UPLOADED")

\* Publisher.Publish.  What the broker did with the message and what the call
\* returns are two things: a confirmation can be lost after the message was
\* routed, and a confirmation of an earlier message can be taken for this one's.
PublishUploaded(h) ==
  LET j == req[h].job IN
  /\ req[h].pc = "claimed"
  /\ attempts' = [attempts EXCEPT ![j] = @ + 1]
  /\ \/ topic' = topic \cup {Uploaded(j)}
     \/ UNCHANGED topic
  /\ \/ req' = [req EXCEPT ![h] = Idle]
     \/ req' = [req EXCEPT ![h].pc = "refused"]
  /\ UNCHANGED <<datasets, jobs>>

\* Publish returned an error: the job is marked FAILED at the step the request
\* read before its claim, whatever the row says by now.
FailDispatch(h) ==
  /\ req[h].pc = "refused"
  /\ WriteStatus(req[h].job, "FAILED", req[h].step, req[h].step)
  /\ req' = [req EXCEPT ![h] = Idle]
  /\ UNCHANGED <<topic, attempts>>

\* The request ends between two of its calls: its context is cancelled, the
\* database answers with an error, or the process dies.
Abandon(h) ==
  /\ req[h] # Idle
  /\ req' = [req EXCEPT ![h] = Idle]
  /\ UNCHANGED <<datasets, jobs, topic, attempts>>

ArchiveDataset(d) ==
  /\ datasets[d].status # "ABSENT"
  /\ ~datasets[d].archived
  /\ ~HasActiveJob(d)
  /\ datasets' = [datasets EXCEPT ![d] = [@ EXCEPT !.archived = TRUE]]
  /\ UNCHANGED <<jobs, req, topic, attempts>>

-----------------------------------------------------------------------------
(* The pipeline.  Every worker answers a message it was delivered with one *)
(* of two messages; delivered again, it may answer differently.            *)

Answer(m, next, stage) ==
  /\ \/ topic' = topic \cup {[m EXCEPT !.key = next]}
     \/ /\ Cardinality({f \in topic : f.key = "pipeline.failed"}) < MaxFailures
        /\ topic' = topic \cup {[m EXCEPT !.key = "pipeline.failed", !.stage = stage]}
  /\ UNCHANGED <<datasets, jobs, req, attempts>>

Normalize(m) ==
  m.key = "dataset.uploaded" /\ Answer(m, "dataset.normalized", "NORMALIZING")
BuildRelations(m) ==
  m.key = "dataset.normalized" /\ Answer(m, "refund.relations.built", "BUILDING_RELATIONS")
Score(m) ==
  m.key = "refund.relations.built" /\ Answer(m, "refund.scoring.completed", "SCORING")

\* Mutant: relations that were built move a job that is still NORMALIZING.
AllowedFromEarlier(m) ==
  IF m.key = "refund.relations.built" THEN {"NORMALIZING", "NORMALIZED", "BUILDING_RELATIONS"}
  ELSE IF m.key = "dataset.normalized" THEN {"NORMALIZING"}
  ELSE Active
\* The statuses a job may be in for the event to move it, and where it goes.
AllowedFrom(m) ==
  CASE m.key = "dataset.normalized" -> {"NORMALIZING"}
    [] m.key = "refund.relations.built" -> {"NORMALIZED", "BUILDING_RELATIONS"}
    [] m.key = "refund.scoring.completed" -> {"SCORING"}
    [] m.key = "pipeline.failed" /\ m.stage = "UPLOADED" -> {"UPLOADED", "NORMALIZING"}
    [] m.key = "pipeline.failed" /\ m.stage = "NORMALIZING" -> {"NORMALIZING"}
    [] m.key = "pipeline.failed" /\ m.stage = "BUILDING_RELATIONS" ->
         {"NORMALIZED", "BUILDING_RELATIONS"}
    [] m.key = "pipeline.failed" /\ m.stage = "SCORING" -> {"SCORING"}
    [] m.key = "pipeline.failed" /\ m.stage = "FAILED" -> Active
    [] OTHER -> {}
MovesTo(m) ==
  CASE m.key = "dataset.normalized" -> "BUILDING_RELATIONS"
    [] m.key = "refund.relations.built" -> "SCORING"
    [] m.key = "refund.scoring.completed" -> "COMPLETED"
    [] OTHER -> "FAILED"

\* TransitionFromEvent under the lock of the job's row.  An event about a job
\* or a dataset that does not match, about a terminal job, or from a status it
\* is not allowed in changes nothing.
HandlePipelineEvent(m) ==
  LET j == m.job
      to == MovesTo(m) IN
  /\ m.key # "dataset.uploaded"
  /\ j \in DOMAIN jobs /\ jobs[j].dataset = m.dataset
  /\ jobs[j].status \notin Terminal \cup {to}
  /\ jobs[j].status \in AllowedFrom(m)
  /\ WriteStatus(j, to, IF to = "FAILED" THEN m.stage ELSE to, m.stage)
  /\ UNCHANGED <<req, topic, attempts>>

-----------------------------------------------------------------------------
RequestStep(h) ==
  \/ \E d \in Dataset : LoadForStart(h, d)
  \/ \E j \in DOMAIN jobs : RetryExisting(h, j) \/ RetryNew(h, j)
  \/ ClaimStart(h) \/ PublishUploaded(h) \/ FailDispatch(h) \/ Abandon(h)

PipelineStep(m) ==
  Normalize(m) \/ BuildRelations(m) \/ Score(m) \/ HandlePipelineEvent(m)

Next ==
  \/ \E d \in Dataset : UploadDataset(d) \/ ArchiveDataset(d)
  \/ \E h \in Handler : RequestStep(h)
  \/ \E m \in topic : PipelineStep(m)

Spec == Init /\ [][Next]_vars

-----------------------------------------------------------------------------
(* Safety.                                                                 *)

\* A dataset never has two jobs under way: every job but its latest has ended,
\* however start, retry and event transactions interleave.
OnlyLatestIsActive ==
  \A i, j \in DOMAIN jobs :
    jobs[i].dataset = jobs[j].dataset /\ i < j => jobs[i].status \in Terminal

\* The jobs of a dataset form one chain: each job but the first is the only retry
\* of the job right before it, so no run has two retries and none is skipped.
RetriesFormChain ==
  \A j \in DOMAIN jobs :
    LET earlier == {i \in JobsOf(jobs[j].dataset) : i < j} IN
    IF earlier = {} THEN jobs[j].retryOf = 0
    ELSE jobs[j].retryOf \in earlier /\ \A i \in earlier : i <= jobs[j].retryOf

\* No job of an archived dataset is under way, not even one whose start request
\* read the dataset before it was archived.
ArchivedIsQuiet == \A d \in Dataset : datasets[d].archived => ~HasActiveJob(d)

ClaimedBy(j) == {h \in Handler : req[h].pc = "claimed" /\ req[h].job = j}

\* dataset.uploaded is handed to the publisher at most once per job, whatever
\* number of start and retry requests run for it: one request at most holds the
\* claim, and none does once the message was handed over or while the job waits.
StartPublishesOnce ==
  /\ \A j \in DOMAIN jobs : \A g, h \in ClaimedBy(j) : g = h
  /\ \A j \in DOMAIN jobs : ClaimedBy(j) # {} =>
       attempts[j] = 0 /\ jobs[j].status # "UPLOADED"
  /\ \A j \in 1 .. MaxJobs : attempts[j] <= 1

\* What makes the above inductive: a request and a publish belong to a row that
\* exists, a publish to a job that left UPLOADED, every job to an uploaded dataset
\* and every uploaded dataset to a job (so a start never finds none), and a job
\* that is not its dataset's latest has its retry.
RequestsHaveRows == \A h \in Handler : req[h] # Idle => req[h].job \in DOMAIN jobs
AttemptsHaveStarted ==
  \A j \in 1 .. MaxJobs :
    attempts[j] # 0 => j \in DOMAIN jobs /\ jobs[j].status # "UPLOADED"
DatasetsHaveJobs ==
  \A d \in Dataset : /\ datasets[d].status # "ABSENT" <=> JobsOf(d) # {}
                     /\ datasets[d].archived => JobsOf(d) # {}
EarlierJobsAreRetried ==
  \A i, j \in DOMAIN jobs :
    jobs[i].dataset = jobs[j].dataset /\ i < j => \E r \in DOMAIN jobs : jobs[r].retryOf = i
IInv ==
  /\ TypeOK /\ OnlyLatestIsActive /\ RetriesFormChain /\ ArchivedIsQuiet /\ StartPublishesOnce
  /\ RequestsHaveRows /\ AttemptsHaveStarted /\ DatasetsHaveJobs /\ EarlierJobsAreRetried

\* What a job reached is what the pipeline said: a stage is entered, a result is
\* declared ready and a failed stage recorded only after the message that says so.
Told(j, key, stage) == \E m \in topic : m.job = j /\ m.key = key /\ m.stage = stage
OutcomeHasCause ==
  \A j \in DOMAIN jobs :
    /\ jobs[j].status = "BUILDING_RELATIONS" => Told(j, "dataset.normalized", "")
    /\ jobs[j].status = "SCORING" => Told(j, "refund.relations.built", "")
    /\ jobs[j].resultReady <=> jobs[j].status = "COMPLETED"
    /\ jobs[j].resultReady => Told(j, "refund.scoring.completed", "")
    /\ jobs[j].failedStage # "" <=> jobs[j].status = "FAILED"
    /\ jobs[j].failedStage = "UPLOADED" => attempts[j] = 1
    /\ jobs[j].failedStage \notin {"", "UPLOADED"} =>
         Told(j, "pipeline.failed", jobs[j].failedStage)

\* datasets.status, which the dataset page shows, is the status of the latest job,
\* except that the dispatch of an older job, failing late, may have left FAILED there.
DatasetFollowsLatest ==
  \A j \in DOMAIN jobs : IsLatest(j) =>
    \/ datasets[jobs[j].dataset].status = jobs[j].status
    \/ /\ datasets[jobs[j].dataset].status = "FAILED"
       /\ \E i \in JobsOf(jobs[j].dataset) \ {j} : jobs[i].failedStage = "UPLOADED"

runs == [i \in DOMAIN jobs |-> [dataset |-> jobs[i].dataset, status |-> jobs[i].status]]
closed == {d \in Dataset : datasets[d].archived}

\* The rows implement the promised history of runs.  The code lets a completed run
\* turn FAILED (a dispatch that is reported failed after the message got through).
History == INSTANCE AnalysisRuns WITH LateFailures <- TRUE
ImplementsRuns == History!Spec

\* The documented lifecycle: UPLOADED -> NORMALIZING -> BUILDING_RELATIONS -> SCORING
\* -> COMPLETED, and only an active stage can transition to FAILED.
Documented == INSTANCE AnalysisRuns WITH LateFailures <- FALSE
ImplementsDocumentedRuns == Documented!Spec

-----------------------------------------------------------------------------
(* Liveness.  A request that is not cut off makes its next call.           *)

FairSpec ==
  /\ Spec
  /\ \A h \in Handler : WF_vars(ClaimStart(h) \/ PublishUploaded(h) \/ FailDispatch(h))

\* A job that was started is handed to the pipeline.
StartedIsDispatched ==
  \A j \in 1 .. MaxJobs :
    (j \in DOMAIN jobs /\ jobs[j].status = "NORMALIZING") ~> (attempts[j] = 1)
=============================================================================
