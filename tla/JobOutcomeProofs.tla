--------------------------- MODULE JobOutcomeProofs ---------------------------
(* What the rows of JobLifecycle say, for every set of datasets, every set *)
(* of request handlers and every bound: that each outcome has its cause,   *)
(* that a poll never goes back, and that the rows implement AnalysisRuns.  *)
EXTENDS JobLifecycleProofs, JobViews

-----------------------------------------------------------------------------
(* The invariant.                                                          *)

\* The step of a row is its status, or the stage it failed at; a start request
\* has read the step of a row that was still UPLOADED, so a dispatch that fails
\* is recorded at that stage, and it fails after its one publish.
StepsFollow ==
  \A j \in DOMAIN jobs :
    /\ jobs[j].status # "NORMALIZED"
    /\ jobs[j].step = IF jobs[j].status = "FAILED" THEN jobs[j].failedStage ELSE jobs[j].status
RequestsReadUploaded == \A h \in Handler : req[h].pc # "idle" => req[h].step = "UPLOADED"
RefusedWasPublished == \A h \in Handler : req[h].pc = "refused" => attempts[req[h].job] = 1
\* A worker that fails names its own stage.
WorkerStage == {"NORMALIZING", "BUILDING_RELATIONS", "SCORING"}
FailuresNameStages == \A m \in topic : m.key = "pipeline.failed" => m.stage \in WorkerStage

OInv ==
  /\ IInv /\ OutcomeHasCause /\ DatasetFollowsLatest
  /\ StepsFollow /\ RequestsReadUploaded /\ RefusedWasPublished /\ FailuresNameStages

-----------------------------------------------------------------------------
(* What a step does to a row.                                              *)

\* The row of j is written with status s, step st and failed stage f: a claim, an
\* event that moves the job on, a failure at the stage the job is in, or a dispatch
\* that failed, which may hit a job in any later status.
RowMove(j, s, st, f) ==
  \/ jobs[j].status = "UPLOADED" /\ s = "NORMALIZING" /\ st = s /\ f = ""
  \/ /\ jobs[j].status = "NORMALIZING" /\ s = "BUILDING_RELATIONS" /\ st = s /\ f = ""
     /\ Told(j, "dataset.normalized", "")
  \/ /\ jobs[j].status = "BUILDING_RELATIONS" /\ s = "SCORING" /\ st = s /\ f = ""
     /\ Told(j, "refund.relations.built", "")
  \/ /\ jobs[j].status = "SCORING" /\ s = "COMPLETED" /\ st = s /\ f = ""
     /\ Told(j, "refund.scoring.completed", "")
  \/ /\ jobs[j].status \in WorkerStage /\ s = "FAILED" /\ st = f /\ f = jobs[j].status
     /\ Told(j, "pipeline.failed", f)
  \/ /\ jobs[j].status # "UPLOADED" /\ s = "FAILED" /\ st = f /\ f = "UPLOADED"
     /\ attempts[j] = 1

StageOrNone == Status \cup {""}
MovesRow(j) ==
  \E s \in Status, st \in Status, f \in StageOrNone :
    WriteStatus(j, s, st, f) /\ RowMove(j, s, st, f)

LEMMA ClaimMovesRow ==
  ASSUME OInv, NEW h \in Handler, ClaimStart(h)
  PROVE  \/ UNCHANGED <<jobs, datasets>>
         \/ req[h].job \in DOMAIN jobs /\ MovesRow(req[h].job)
<1>1. req[h].job \in DOMAIN jobs
  BY BusyRequest DEF ClaimStart, ClaimIf, OInv
<1>2. CASE NotArchived(req[h].job) /\ jobs[req[h].job].status = "UPLOADED"
  <2>1. WriteStatus(req[h].job, "NORMALIZING", "NORMALIZING", "")
    BY <1>2 DEF ClaimStart, ClaimIf
  <2>2. RowMove(req[h].job, "NORMALIZING", "NORMALIZING", "")
    BY <1>2 DEF RowMove
  <2>3. QED
    BY <1>1, <2>1, <2>2 DEF MovesRow, StageOrNone, Status, Active
<1>3. CASE ~(NotArchived(req[h].job) /\ jobs[req[h].job].status = "UPLOADED")
  BY <1>3 DEF ClaimStart, ClaimIf
<1>4. QED
  BY <1>2, <1>3

LEMMA DispatchMovesRow ==
  ASSUME OInv, NEW h \in Handler, FailDispatch(h)
  PROVE  req[h].job \in DOMAIN jobs /\ MovesRow(req[h].job)
<1>1. req[h].job \in DOMAIN jobs /\ req[h].job \in 1 .. MaxJobs
  BY BusyRequest DEF FailDispatch, OInv, Request
<1>2. req[h].step = "UPLOADED" /\ attempts[req[h].job] = 1
  BY DEF FailDispatch, OInv, RequestsReadUploaded, RefusedWasPublished
<1>3. jobs[req[h].job].status # "UPLOADED"
  BY <1>1, <1>2 DEF OInv, IInv, AttemptsHaveStarted
<1>4. WriteStatus(req[h].job, "FAILED", "UPLOADED", "UPLOADED")
  BY <1>2 DEF FailDispatch
<1>5. RowMove(req[h].job, "FAILED", "UPLOADED", "UPLOADED")
  BY <1>2, <1>3 DEF RowMove
<1>6. QED
  BY <1>1, <1>4, <1>5 DEF MovesRow, StageOrNone, Status, Active, Terminal

LEMMA EventMovesRow ==
  ASSUME OInv, NEW m \in topic, HandlePipelineEvent(m)
  PROVE  m.job \in DOMAIN jobs /\ MovesRow(m.job)
<1> DEFINE j == m.job
<1>1. m \in Message /\ (m.key = "pipeline.failed" => m.stage \in WorkerStage)
  BY DEF OInv, IInv, TypeOK, FailuresNameStages
<1>2. /\ j \in DOMAIN jobs /\ jobs[j].status \in AllowedFrom(m)
      /\ m.key # "dataset.uploaded"
      /\ WriteStatus(j, MovesTo(m), IF MovesTo(m) = "FAILED" THEN m.stage ELSE MovesTo(m), m.stage)
  BY DEF HandlePipelineEvent
<1>3. jobs[j].status # "NORMALIZED"
  BY <1>2 DEF OInv, StepsFollow
<1>4. Told(j, m.key, m.stage)
  BY DEF Told
<1>5. m.key \in Progress \cup {"pipeline.failed"} /\ (m.key \in Progress => m.stage = "")
  BY <1>1 DEF Message, Progress
<1>6. CASE m.key = "dataset.normalized"
  <2>1. /\ MovesTo(m) = "BUILDING_RELATIONS" /\ jobs[j].status = "NORMALIZING" /\ m.stage = ""
    BY <1>2, <1>5, <1>6 DEF MovesTo, AllowedFrom, Progress
  <2>2. RowMove(j, "BUILDING_RELATIONS", "BUILDING_RELATIONS", "")
    BY <1>4, <1>6, <2>1 DEF RowMove
  <2>3. QED
    BY <1>2, <2>1, <2>2 DEF MovesRow, StageOrNone, Status, Active
<1>7. CASE m.key = "refund.relations.built"
  <2>1. /\ MovesTo(m) = "SCORING" /\ jobs[j].status = "BUILDING_RELATIONS" /\ m.stage = ""
    BY <1>2, <1>3, <1>5, <1>7 DEF MovesTo, AllowedFrom, Progress
  <2>2. RowMove(j, "SCORING", "SCORING", "")
    BY <1>4, <1>7, <2>1 DEF RowMove
  <2>3. QED
    BY <1>2, <2>1, <2>2 DEF MovesRow, StageOrNone, Status, Active
<1>8. CASE m.key = "refund.scoring.completed"
  <2>1. /\ MovesTo(m) = "COMPLETED" /\ jobs[j].status = "SCORING" /\ m.stage = ""
    BY <1>2, <1>5, <1>8 DEF MovesTo, AllowedFrom, Progress
  <2>2. RowMove(j, "COMPLETED", "COMPLETED", "")
    BY <1>4, <1>8, <2>1 DEF RowMove
  <2>3. QED
    BY <1>2, <2>1, <2>2 DEF MovesRow, StageOrNone, Status, Active, Terminal
<1>9. CASE m.key = "pipeline.failed"
  <2>1. /\ MovesTo(m) = "FAILED" /\ jobs[j].status = m.stage /\ m.stage \in WorkerStage
    BY <1>1, <1>2, <1>3, <1>9 DEF MovesTo, AllowedFrom, WorkerStage
  <2>2. RowMove(j, "FAILED", m.stage, m.stage)
    BY <1>4, <1>9, <2>1 DEF RowMove
  <2>3. WriteStatus(j, "FAILED", m.stage, m.stage)
    BY <1>2, <2>1
  <2>4. m.stage \in Status /\ "FAILED" \in Status
    BY <2>1 DEF WorkerStage, Status, Active, Terminal
  <2>5. QED
    BY <1>2, <2>2, <2>3, <2>4 DEF MovesRow, StageOrNone
<1>10. QED
  BY <1>2, <1>5, <1>6, <1>7, <1>8, <1>9 DEF Progress

\* A step leaves the rows alone, archives a dataset, moves a row or creates one.
LEMMA RowChanges ==
  ASSUME OInv, Next
  PROVE  \/ UNCHANGED <<jobs, datasets>>
         \/ \E d \in Dataset : ArchiveDataset(d)
         \/ \E j \in DOMAIN jobs : MovesRow(j)
         \/ \E d \in Dataset, source \in 0 .. MaxJobs : CreatesJob(d, source)
<1>1. IInv
  BY DEF OInv
<1>2. ASSUME NEW d \in Dataset, UploadDataset(d)
      PROVE  CreatesJob(d, 0)
  BY <1>2 DEF UploadDataset, CreatesJob
<1>3. ASSUME NEW h \in Handler, NEW j \in DOMAIN jobs, RetryNew(h, j)
      PROVE  \E d \in Dataset, source \in 0 .. MaxJobs : CreatesJob(d, source)
  <2>1. CreatesJob(jobs[j].dataset, j)
    BY <1>1, <1>3, RetryCreatesJob
  <2>2. jobs[j].dataset \in Dataset /\ j \in 0 .. MaxJobs
    BY <1>1, JobRows, BoundsAssumption DEF IInv, TypeOK
  <2>3. QED
    BY <2>1, <2>2
<1>4. ASSUME NEW h \in Handler, RequestStep(h)
      PROVE  \/ UNCHANGED <<jobs, datasets>>
             \/ \E j \in DOMAIN jobs : MovesRow(j)
             \/ \E d \in Dataset, source \in 0 .. MaxJobs : CreatesJob(d, source)
  <2>1. ASSUME NEW d \in Dataset, LoadForStart(h, d)
        PROVE  UNCHANGED <<jobs, datasets>>
    BY <2>1 DEF LoadForStart
  <2>2. ASSUME NEW j \in DOMAIN jobs, RetryExisting(h, j)
        PROVE  UNCHANGED <<jobs, datasets>>
    BY <2>2 DEF RetryExisting
  <2>3. CASE PublishUploaded(h) \/ Abandon(h)
    BY <2>3 DEF PublishUploaded, Abandon
  <2>4. QED
    BY <1>3, <1>4, <2>1, <2>2, <2>3, ClaimMovesRow, DispatchMovesRow DEF RequestStep
<1>5. ASSUME NEW m \in topic, PipelineStep(m)
      PROVE  UNCHANGED <<jobs, datasets>> \/ \E j \in DOMAIN jobs : MovesRow(j)
  <2>1. CASE Normalize(m) \/ BuildRelations(m) \/ Score(m)
    BY <2>1 DEF Normalize, BuildRelations, Score, Answer
  <2>2. QED
    BY <1>5, <2>1, EventMovesRow DEF PipelineStep
<1>6. QED
  BY <1>2, <1>4, <1>5, BoundsAssumption DEF Next

\* Every field of a row that was written, and of the rows beside it.
LEMMA WrittenRow ==
  ASSUME OInv, NEW j \in DOMAIN jobs, NEW s \in Status, NEW st \in Status,
         NEW f \in StageOrNone, WriteStatus(j, s, st, f)
  PROVE  /\ DOMAIN jobs' = DOMAIN jobs
         /\ \A i \in DOMAIN jobs : i # j => jobs'[i] = jobs[i]
         /\ jobs'[j].dataset = jobs[j].dataset
         /\ jobs'[j].status = s /\ jobs'[j].step = st /\ jobs'[j].failedStage = f
         /\ jobs'[j].resultReady = (s = "COMPLETED")
         /\ datasets'[jobs[j].dataset].status = s
         /\ \A d \in Dataset : /\ d # jobs[j].dataset => datasets'[d] = datasets[d]
                               /\ datasets'[d].archived = datasets[d].archived
<1>1. TypeOK
  BY DEF OInv, IInv
<1>2. /\ DOMAIN jobs' = DOMAIN jobs
      /\ \A i \in DOMAIN jobs : /\ jobs'[i].dataset = jobs[i].dataset
                                /\ i # j => jobs'[i] = jobs[i]
      /\ \A d \in Dataset : datasets'[d].archived = datasets[d].archived
  BY <1>1, WriteStatusEffect DEF StageOrNone
<1>3. jobs[j] \in JobRow /\ jobs[j].dataset \in Dataset
  BY <1>1, JobRows
<1>4. jobs'[j] = [jobs[j] EXCEPT !.status = s, !.step = st, !.failedStage = f,
                                 !.resultReady = (s = "COMPLETED")]
  BY DEF WriteStatus, WriteRow
<1>5. /\ jobs'[j].status = s /\ jobs'[j].step = st /\ jobs'[j].failedStage = f
      /\ jobs'[j].resultReady = (s = "COMPLETED")
  BY <1>3, <1>4 DEF JobRow
<1>6. /\ datasets'[jobs[j].dataset].status = s
      /\ \A d \in Dataset : d # jobs[j].dataset => datasets'[d] = datasets[d]
  BY <1>1, <1>3 DEF WriteStatus, SetDatasetStatus, TypeOK, DatasetRow
<1>7. QED
  BY <1>2, <1>5, <1>6

LEMMA CreatedRow ==
  ASSUME OInv, NEW d \in Dataset, NEW source \in 0 .. MaxJobs, CreatesJob(d, source)
  PROVE  /\ DOMAIN jobs' = DOMAIN jobs \cup {Len(jobs) + 1}
         /\ \A i \in DOMAIN jobs : jobs'[i] = jobs[i]
         /\ LET new == jobs'[Len(jobs) + 1] IN
              /\ new.dataset = d /\ new.status = "UPLOADED" /\ new.step = "UPLOADED"
              /\ new.failedStage = "" /\ new.resultReady = FALSE
         /\ datasets'[d].status = "UPLOADED"
         /\ \A e \in Dataset : /\ e # d => datasets'[e] = datasets[e]
                               /\ datasets'[e].archived = datasets[e].archived
<1>1. TypeOK /\ jobs \in Seq(JobRow)
  BY DEF OInv, IInv, TypeOK
<1>2. /\ DOMAIN jobs' = DOMAIN jobs \cup {Len(jobs) + 1}
      /\ \A i \in DOMAIN jobs : jobs'[i] = jobs[i]
      /\ datasets'[d].status = "UPLOADED"
      /\ \A e \in Dataset : datasets'[e].archived = datasets[e].archived
  BY <1>1, NewJobEffect DEF CreatesJob
<1>3. NewJob(d, source) \in JobRow
  BY DEF NewJob, JobRow, Status, Active
<1>4. jobs'[Len(jobs) + 1] = NewJob(d, source)
  BY <1>1, <1>3, AppendProperties DEF CreatesJob
<1>5. \A e \in Dataset : e # d => datasets'[e] = datasets[e]
  BY <1>1 DEF CreatesJob, SetDatasetStatus, TypeOK
<1>6. LET new == NewJob(d, source) IN
        /\ new.dataset = d /\ new.status = "UPLOADED" /\ new.step = "UPLOADED"
        /\ new.failedStage = "" /\ new.resultReady = FALSE
  BY DEF NewJob
<1>7. QED
  BY <1>2, <1>4, <1>5, <1>6

-----------------------------------------------------------------------------
(* The parts of the invariant.                                             *)

LEMMA TopicGrows ==
  ASSUME OInv, Next
  PROVE  /\ topic \subseteq topic' /\ FailuresNameStages'
         /\ \A j, key, stage : Told(j, key, stage) => Told(j, key, stage)'
<1>1. \A m \in topic : m \in Message /\ (m.key = "pipeline.failed" => m.stage \in WorkerStage)
  BY DEF OInv, IInv, TypeOK, FailuresNameStages
<1>2. ASSUME NEW d \in Dataset, UploadDataset(d) \/ ArchiveDataset(d)
      PROVE  UNCHANGED topic
  BY <1>2 DEF UploadDataset, ArchiveDataset
<1>3. ASSUME NEW h \in Handler, RequestStep(h)
      PROVE  UNCHANGED topic \/ \E j : topic' = topic \cup {Uploaded(j)}
  BY <1>3 DEF RequestStep, LoadForStart, RetryExisting, RetryNew, CreateRetry, ClaimStart,
              ClaimIf, PublishUploaded, FailDispatch, Abandon
<1>4. ASSUME NEW m \in topic, NEW next \in Progress, NEW stage \in WorkerStage,
             Answer(m, next, stage)
      PROVE  \E n : topic' = topic \cup {n} /\ (n.key = "pipeline.failed" => n.stage \in WorkerStage)
  <2>1. m \in Message
    BY <1>1
  <2>2. CASE topic' = topic \cup {[m EXCEPT !.key = next]}
    <3>1. [m EXCEPT !.key = next].key # "pipeline.failed"
      BY <2>1 DEF Message, Progress
    <3>2. QED
      BY <2>2, <3>1
  <2>3. CASE topic' = topic \cup {[m EXCEPT !.key = "pipeline.failed", !.stage = stage]}
    <3>1. [m EXCEPT !.key = "pipeline.failed", !.stage = stage].stage = stage
      BY <2>1 DEF Message
    <3>2. QED
      BY <2>3, <3>1
  <2>4. QED
    BY <1>4, <2>2, <2>3 DEF Answer
<1>5. ASSUME NEW m \in topic, PipelineStep(m)
      PROVE  \/ UNCHANGED topic
             \/ \E n : topic' = topic \cup {n} /\ (n.key = "pipeline.failed" => n.stage \in WorkerStage)
  <2>1. CASE Normalize(m)
    BY <1>4, <2>1 DEF Normalize, Progress, WorkerStage
  <2>2. CASE BuildRelations(m)
    BY <1>4, <2>2 DEF BuildRelations, Progress, WorkerStage
  <2>3. CASE Score(m)
    BY <1>4, <2>3 DEF Score, Progress, WorkerStage
  <2>4. CASE HandlePipelineEvent(m)
    BY <2>4 DEF HandlePipelineEvent
  <2>5. QED
    BY <1>5, <2>1, <2>2, <2>3, <2>4 DEF PipelineStep
<1>6. \A j : Uploaded(j).key # "pipeline.failed"
  BY DEF Uploaded
<1>7. CASE \E h \in Handler : RequestStep(h)
  <2>1. PICK h \in Handler : RequestStep(h)
    BY <1>7
  <2>2. CASE UNCHANGED topic
    BY <1>1, <2>2 DEF FailuresNameStages, Told
  <2>3. ASSUME NEW j, topic' = topic \cup {Uploaded(j)}
        PROVE  topic \subseteq topic' /\ FailuresNameStages'
    BY <1>1, <1>6, <2>3 DEF FailuresNameStages
  <2>4. QED
    BY <1>3, <2>1, <2>2, <2>3 DEF Told
<1>8. CASE \E m \in topic : PipelineStep(m)
  <2>1. PICK m \in topic : PipelineStep(m)
    BY <1>8
  <2>2. CASE UNCHANGED topic
    BY <1>1, <2>2 DEF FailuresNameStages, Told
  <2>3. ASSUME NEW n, topic' = topic \cup {n}, n.key = "pipeline.failed" => n.stage \in WorkerStage
        PROVE  topic \subseteq topic' /\ FailuresNameStages'
    BY <1>1, <2>3 DEF FailuresNameStages
  <2>4. QED
    BY <1>5, <2>1, <2>2, <2>3 DEF Told
<1>9. CASE \E d \in Dataset : UploadDataset(d) \/ ArchiveDataset(d)
  BY <1>1, <1>2, <1>9 DEF FailuresNameStages, Told
<1>10. QED
  BY <1>7, <1>8, <1>9 DEF Next

LEMMA RequestsReadStep ==
  ASSUME OInv, Next
  PROVE  RequestsReadUploaded'
<1>1. /\ req \in [Handler -> Request \cup {Idle}]
      /\ \A h \in Handler : req[h].pc # "idle" => req[h].step = "UPLOADED"
  BY DEF OInv, IInv, TypeOK, RequestsReadUploaded
<1>2. \A j \in DOMAIN jobs : jobs[j].status = "UPLOADED" => jobs[j].step = "UPLOADED"
  BY DEF OInv, StepsFollow
<1>3. CASE UNCHANGED req
  BY <1>1, <1>3 DEF RequestsReadUploaded
<1>4. ASSUME NEW h \in Handler, req' = [req EXCEPT ![h] = Idle]
      PROVE  RequestsReadUploaded'
  BY <1>1, <1>4 DEF RequestsReadUploaded, Idle
<1>5. ASSUME NEW h \in Handler, NEW j,
             req' = [req EXCEPT ![h] = [pc |-> "loaded", job |-> j, step |-> "UPLOADED"]]
      PROVE  RequestsReadUploaded'
  BY <1>1, <1>5 DEF RequestsReadUploaded
<1>6. ASSUME NEW h \in Handler, NEW pc, req[h].pc # "idle", req' = [req EXCEPT ![h].pc = pc]
      PROVE  RequestsReadUploaded'
  <2>1. req[h] \in Request
    BY <1>6, BusyRequest DEF OInv
  <2>2. \A g \in Handler : req'[g].step = req[g].step /\ (g # h => req'[g] = req[g])
    BY <1>1, <1>6, <2>1 DEF Request
  <2>3. QED
    BY <1>1, <1>6, <2>2 DEF RequestsReadUploaded
<1>7. ASSUME NEW d \in Dataset, UploadDataset(d) \/ ArchiveDataset(d)
      PROVE  UNCHANGED req
  BY <1>7 DEF UploadDataset, ArchiveDataset
<1>8. ASSUME NEW m \in topic, PipelineStep(m)
      PROVE  UNCHANGED req
  BY <1>8 DEF PipelineStep, Normalize, BuildRelations, Score, Answer, HandlePipelineEvent
<1>9. ASSUME NEW h \in Handler, RequestStep(h)
      PROVE  RequestsReadUploaded'
  <2>1. ASSUME NEW d \in Dataset, LoadForStart(h, d)
        PROVE  RequestsReadUploaded'
    BY <1>2, <1>5, <2>1 DEF LoadForStart, JobsOf
  <2>2. ASSUME NEW j \in DOMAIN jobs, RetryExisting(h, j)
        PROVE  RequestsReadUploaded'
    BY <1>2, <1>5, <2>2 DEF RetryExisting
  <2>3. ASSUME NEW j \in DOMAIN jobs, RetryNew(h, j)
        PROVE  RequestsReadUploaded'
    BY <1>5, <2>3 DEF RetryNew, CreateRetry
  <2>4. CASE ClaimStart(h)
    BY <1>4, <1>6, <2>4 DEF ClaimStart, ClaimIf
  <2>5. CASE PublishUploaded(h)
    BY <1>4, <1>6, <2>5 DEF PublishUploaded
  <2>6. CASE FailDispatch(h) \/ Abandon(h)
    BY <1>4, <2>6 DEF FailDispatch, Abandon
  <2>7. QED
    BY <1>9, <2>1, <2>2, <2>3, <2>4, <2>5, <2>6 DEF RequestStep
<1>10. QED
  BY <1>3, <1>7, <1>8, <1>9 DEF Next

\* A publish is counted once, and only a publish makes a refused request.
LEMMA RefusedStep ==
  ASSUME OInv, Next
  PROVE  /\ RefusedWasPublished'
         /\ \A j \in 1 .. MaxJobs : attempts[j] = 1 => attempts'[j] = 1
<1>1. /\ IInv /\ req \in [Handler -> Request \cup {Idle}] /\ attempts \in [1 .. MaxJobs -> Nat]
      /\ \A h \in Handler : req[h].pc = "refused" => attempts[req[h].job] = 1
  BY DEF OInv, IInv, TypeOK, RefusedWasPublished
<1>2. ASSUME UNCHANGED attempts, \A g \in Handler : req'[g].pc = "refused" => req'[g] = req[g]
      PROVE  RefusedWasPublished'
  BY <1>1, <1>2 DEF RefusedWasPublished
<1>3. CASE UNCHANGED <<req, attempts>>
  BY <1>2, <1>3
<1>4. ASSUME NEW h \in Handler, UNCHANGED attempts, req' = [req EXCEPT ![h] = Idle]
      PROVE  RefusedWasPublished'
  BY <1>1, <1>2, <1>4 DEF Idle
<1>5. ASSUME NEW h \in Handler, UNCHANGED attempts, NEW j \in 1 .. MaxJobs, Loads(h, j)
      PROVE  RefusedWasPublished'
  BY <1>1, <1>2, <1>5 DEF Loads
<1>6. ASSUME NEW h \in Handler, ClaimStart(h)
      PROVE  RefusedWasPublished' /\ UNCHANGED attempts
  <2>1. UNCHANGED attempts /\ req[h] \in Request
    BY <1>1, <1>6, BusyRequest DEF ClaimStart, ClaimIf
  <2>2. CASE req' = [req EXCEPT ![h] = Idle]
    BY <1>4, <2>1, <2>2
  <2>3. CASE req' = [req EXCEPT ![h].pc = "claimed"]
    BY <1>1, <1>2, <2>1, <2>3 DEF Request
  <2>4. QED
    BY <1>1, <1>6, <2>1, <2>2, <2>3, ClaimMovesJob
<1>7. ASSUME NEW h \in Handler, PublishUploaded(h)
      PROVE  RefusedWasPublished' /\ \A j \in 1 .. MaxJobs : attempts[j] = 1 => attempts'[j] = 1
  <2> DEFINE k == req[h].job
  <2>1. /\ req[h] \in Request /\ k \in 1 .. MaxJobs /\ attempts[k] = 0
        /\ attempts' = [attempts EXCEPT ![k] = @ + 1]
    BY <1>1, <1>7, Claims, BusyRequest DEF PublishUploaded
  <2>2. \A j \in 1 .. MaxJobs : attempts'[j] = IF j = k THEN 1 ELSE attempts[j]
    BY <1>1, <2>1
  <2>3. /\ \A g \in Handler : g # h => req'[g] = req[g]
        /\ req'[h] = Idle \/ req'[h].job = k
    BY <1>1, <1>7, <2>1 DEF PublishUploaded, Request
  <2>4. ASSUME NEW g \in Handler, req'[g].pc = "refused"
        PROVE  attempts'[req'[g].job] = 1
    <3>1. CASE g = h
      <4>1. Idle.pc # "refused"
        BY DEF Idle
      <4>2. req'[h].job = k
        BY <2>3, <2>4, <3>1, <4>1
      <4>3. attempts'[k] = 1
        BY <2>1, <2>2
      <4>4. QED
        BY <3>1, <4>2, <4>3
    <3>2. CASE g # h
      <4>1. req'[g] = req[g] /\ req[g] \in Request /\ attempts[req[g].job] = 1
        BY <1>1, <2>3, <2>4, <3>2, BusyRequest
      <4>2. req[g].job \in 1 .. MaxJobs /\ req[g].job # k
        BY <2>1, <4>1 DEF Request
      <4>3. QED
        BY <2>2, <4>1, <4>2
    <3>3. QED
      BY <3>1, <3>2
  <2>5. QED
    BY <2>1, <2>2, <2>4 DEF RefusedWasPublished
<1>8. QED
  BY <1>1, <1>3, <1>4, <1>5, <1>6, <1>7, RequestsStep

LEMMA OutcomeStep ==
  ASSUME OInv, Next
  PROVE  OutcomeHasCause' /\ StepsFollow'
<1> DEFINE Caused(j) ==
             /\ jobs[j].status = "BUILDING_RELATIONS" => Told(j, "dataset.normalized", "")
             /\ jobs[j].status = "SCORING" => Told(j, "refund.relations.built", "")
             /\ jobs[j].resultReady <=> jobs[j].status = "COMPLETED"
             /\ jobs[j].resultReady => Told(j, "refund.scoring.completed", "")
             /\ jobs[j].failedStage # "" <=> jobs[j].status = "FAILED"
             /\ jobs[j].failedStage = "UPLOADED" => attempts[j] = 1
             /\ jobs[j].failedStage \notin {"", "UPLOADED"} =>
                  Told(j, "pipeline.failed", jobs[j].failedStage)
           Follows(j) ==
             /\ jobs[j].status # "NORMALIZED"
             /\ jobs[j].step =
                  IF jobs[j].status = "FAILED" THEN jobs[j].failedStage ELSE jobs[j].status
<1> SUFFICES ASSUME NEW j \in DOMAIN jobs'
             PROVE  Caused(j)' /\ Follows(j)'
  BY DEF OutcomeHasCause, StepsFollow
<1>1. \A i \in DOMAIN jobs : Caused(i) /\ Follows(i)
  BY DEF OInv, OutcomeHasCause, StepsFollow
<1>2. \A key, stage : Told(j, key, stage) => Told(j, key, stage)'
  BY TopicGrows
<1>3. j \in DOMAIN jobs /\ attempts[j] = 1 => attempts'[j] = 1
  <2>1. DOMAIN jobs \subseteq 1 .. MaxJobs
    BY JobRows, BoundsAssumption DEF OInv, IInv, TypeOK
  <2>2. QED
    BY <2>1, RefusedStep
<1>4. ASSUME j \in DOMAIN jobs, jobs'[j] = jobs[j]
      PROVE  Caused(j)' /\ Follows(j)'
  <2>1. Caused(j) /\ Follows(j)
    BY <1>1, <1>4
  <2>2. Told(j, "pipeline.failed", jobs[j].failedStage) =>
          Told(j, "pipeline.failed", jobs[j].failedStage)'
    BY <1>2, <1>4
  <2>3. /\ Told(j, "dataset.normalized", "") => Told(j, "dataset.normalized", "")'
        /\ Told(j, "refund.relations.built", "") => Told(j, "refund.relations.built", "")'
        /\ Told(j, "refund.scoring.completed", "") => Told(j, "refund.scoring.completed", "")'
    BY <1>2
  <2>4. QED
    BY <1>3, <1>4, <2>1, <2>2, <2>3
<1>5. CASE UNCHANGED <<jobs, datasets>> \/ \E d \in Dataset : ArchiveDataset(d)
  BY <1>4, <1>5 DEF ArchiveDataset
<1>6. ASSUME NEW k \in DOMAIN jobs, MovesRow(k)
      PROVE  Caused(j)' /\ Follows(j)'
  <2>1. PICK s \in Status, st \in Status, f \in StageOrNone :
          WriteStatus(k, s, st, f) /\ RowMove(k, s, st, f)
    BY <1>6 DEF MovesRow
  <2>2. /\ DOMAIN jobs' = DOMAIN jobs
        /\ j # k => jobs'[j] = jobs[j]
        /\ jobs'[k].status = s /\ jobs'[k].step = st /\ jobs'[k].failedStage = f
        /\ jobs'[k].resultReady = (s = "COMPLETED")
    BY <2>1, WrittenRow
  <2>3. CASE j # k
    BY <1>4, <2>2, <2>3
  <2>4. CASE j = k
    <3>1. /\ s = "BUILDING_RELATIONS" => Told(j, "dataset.normalized", "")'
          /\ s = "SCORING" => Told(j, "refund.relations.built", "")'
          /\ s = "COMPLETED" => Told(j, "refund.scoring.completed", "")'
          /\ s = "FAILED" /\ f # "UPLOADED" => Told(j, "pipeline.failed", f)'
          /\ f = "UPLOADED" => attempts'[j] = 1
      BY <1>2, <1>3, <1>6, <2>1, <2>4 DEF RowMove, WorkerStage
    <3>2. /\ s # "NORMALIZED" /\ s \in Status
          /\ st = IF s = "FAILED" THEN f ELSE s
          /\ f # "" <=> s = "FAILED"
      BY <2>1 DEF RowMove, WorkerStage
    <3>3. Told(j, "pipeline.failed", jobs[j].failedStage)' <=> Told(j, "pipeline.failed", f)'
      BY <2>2, <2>4 DEF Told
    <3>4. QED
      BY <2>2, <2>4, <3>1, <3>2, <3>3
  <2>5. QED
    BY <2>3, <2>4
<1>7. ASSUME NEW d \in Dataset, NEW source \in 0 .. MaxJobs, CreatesJob(d, source)
      PROVE  Caused(j)' /\ Follows(j)'
  <2>1. CASE j \in DOMAIN jobs
    BY <1>4, <1>7, <2>1, CreatedRow
  <2>2. CASE j = Len(jobs) + 1
    <3>1. /\ jobs'[j].status = "UPLOADED" /\ jobs'[j].step = "UPLOADED"
          /\ jobs'[j].failedStage = "" /\ jobs'[j].resultReady = FALSE
      BY <1>7, <2>2, CreatedRow
    <3>2. QED
      BY <3>1
  <2>3. QED
    BY <1>7, <2>1, <2>2, CreatedRow
<1>8. QED
  BY <1>5, <1>6, <1>7, RowChanges

LEMMA DatasetFollowsStep ==
  ASSUME OInv, Next
  PROVE  DatasetFollowsLatest'
<1> DEFINE Shown(j) ==
             \/ datasets[jobs[j].dataset].status = jobs[j].status
             \/ /\ datasets[jobs[j].dataset].status = "FAILED"
                /\ \E i \in DOMAIN jobs : /\ i # j /\ jobs[i].dataset = jobs[j].dataset
                                          /\ jobs[i].failedStage = "UPLOADED"
<1> SUFFICES ASSUME NEW j \in DOMAIN jobs',
                    \A i \in DOMAIN jobs' : jobs'[i].dataset = jobs'[j].dataset => i <= j
             PROVE  Shown(j)'
  BY DEF DatasetFollowsLatest, IsLatest, JobsOf
<1>0. \A i, k \in DOMAIN jobs : k <= i /\ i # k => k < i
  <2>1. DOMAIN jobs = 1 .. Len(jobs) /\ Len(jobs) \in Nat
    BY JobRows DEF OInv, IInv
  <2>2. QED
    BY <2>1
<1>1. /\ TypeOK /\ OnlyLatestIsActive
      /\ \A i \in DOMAIN jobs : IsLatest(i) => Shown(i)
      /\ \A i \in DOMAIN jobs : jobs[i].dataset \in Dataset
  BY JobRows DEF OInv, IInv, DatasetFollowsLatest, JobsOf
<1>2. \A i \in DOMAIN jobs' : jobs'[i].dataset = jobs'[j].dataset => i <= j
  OBVIOUS
<1>3. ASSUME j \in DOMAIN jobs, DOMAIN jobs \subseteq DOMAIN jobs',
             \A i \in DOMAIN jobs : jobs'[i].dataset = jobs[i].dataset
      PROVE  /\ \A i \in DOMAIN jobs : jobs[i].dataset = jobs[j].dataset => i <= j
             /\ Shown(j)
  BY <1>1, <1>2, <1>3 DEF IsLatest, JobsOf
<1>4. CASE UNCHANGED <<jobs, datasets>>
  BY <1>3, <1>4
<1>5. ASSUME NEW d \in Dataset, ArchiveDataset(d)
      PROVE  Shown(j)'
  <2>1. UNCHANGED jobs /\ \A e \in Dataset : datasets'[e].status = datasets[e].status
    BY <1>1, <1>5 DEF ArchiveDataset, TypeOK, DatasetRow
  <2>2. QED
    BY <1>1, <1>3, <2>1
<1>6. ASSUME NEW k \in DOMAIN jobs, MovesRow(k)
      PROVE  Shown(j)'
  <2>1. PICK s \in Status, st \in Status, f \in StageOrNone :
          WriteStatus(k, s, st, f) /\ RowMove(k, s, st, f)
    BY <1>6 DEF MovesRow
  <2>2. /\ DOMAIN jobs' = DOMAIN jobs
        /\ \A i \in DOMAIN jobs : jobs'[i].dataset = jobs[i].dataset
        /\ \A i \in DOMAIN jobs : i # k => jobs'[i] = jobs[i]
        /\ jobs'[k].status = s /\ jobs'[k].failedStage = f
        /\ datasets'[jobs[k].dataset].status = s
        /\ \A d \in Dataset : d # jobs[k].dataset => datasets'[d] = datasets[d]
    BY <2>1, WrittenRow
  <2>3. CASE j = k
    BY <2>2, <2>3
  <2>4. CASE jobs[j].dataset # jobs[k].dataset
    BY <1>1, <1>3, <2>2, <2>4
  <2>5. CASE j # k /\ jobs[j].dataset = jobs[k].dataset
    <3>1. k < j
      <4>1. j \in DOMAIN jobs /\ k \in DOMAIN jobs'
        BY <2>2
      <4>2. jobs'[k].dataset = jobs'[j].dataset
        BY <2>2, <2>5, <4>1
      <4>3. k <= j
        BY <1>2, <4>1, <4>2
      <4>4. QED
        BY <1>0, <2>5, <4>1, <4>3
    <3>2. jobs[k].status \in Terminal
      BY <1>1, <2>2, <2>5, <3>1 DEF OnlyLatestIsActive
    <3>3. s = "FAILED" /\ f = "UPLOADED"
      BY <2>1, <3>2 DEF RowMove, Terminal, WorkerStage
    <3>4. QED
      BY <2>2, <2>5, <3>3
  <2>6. QED
    BY <2>3, <2>4, <2>5
<1>7. ASSUME NEW d \in Dataset, NEW source \in 0 .. MaxJobs, CreatesJob(d, source)
      PROVE  Shown(j)'
  <2>1. /\ DOMAIN jobs' = DOMAIN jobs \cup {Len(jobs) + 1}
        /\ \A i \in DOMAIN jobs : jobs'[i] = jobs[i]
        /\ jobs'[Len(jobs) + 1].dataset = d /\ jobs'[Len(jobs) + 1].status = "UPLOADED"
        /\ datasets'[d].status = "UPLOADED"
        /\ \A e \in Dataset : e # d => datasets'[e] = datasets[e]
    BY <1>7, CreatedRow
  <2>2. CASE j = Len(jobs) + 1
    BY <2>1, <2>2
  <2>3. CASE j \in DOMAIN jobs
    <3>1. jobs[j].dataset # d
      BY <1>1, <1>2, <2>1, <2>3
    <3>2. QED
      BY <1>1, <1>3, <2>1, <2>3, <3>1
  <2>4. QED
    BY <2>1, <2>2, <2>3
<1>8. QED
  BY <1>4, <1>5, <1>6, <1>7, RowChanges

LEMMA InitOInv == Init => OInv
<1> SUFFICES ASSUME Init PROVE OInv
  OBVIOUS
<1>1. IInv
  BY InitIInv
<1>2. jobs = <<>> /\ DOMAIN jobs = {} /\ topic = {} /\ req = [h \in Handler |-> Idle]
  BY DEF Init
<1>3. OutcomeHasCause /\ DatasetFollowsLatest /\ StepsFollow
  BY <1>2 DEF OutcomeHasCause, DatasetFollowsLatest, StepsFollow
<1>4. RequestsReadUploaded /\ RefusedWasPublished /\ FailuresNameStages
  BY <1>2 DEF RequestsReadUploaded, RefusedWasPublished, FailuresNameStages, Idle
<1>5. QED
  BY <1>1, <1>3, <1>4 DEF OInv

LEMMA OInvStep == OInv /\ [Next]_vars => OInv'
<1> SUFFICES ASSUME OInv, [Next]_vars PROVE OInv'
  OBVIOUS
<1>1. IInv'
  BY IInvStep DEF OInv
<1>2. CASE Next
  BY <1>1, <1>2, OutcomeStep, DatasetFollowsStep, RequestsReadStep, RefusedStep, TopicGrows
     DEF OInv
<1>3. CASE UNCHANGED vars
  <2>1. UNCHANGED <<datasets, jobs, req, topic, attempts>>
    BY <1>3 DEF vars
  <2>2. OutcomeHasCause' /\ StepsFollow'
    <3>1. \A j, key, stage : Told(j, key, stage)' <=> Told(j, key, stage)
      BY <2>1 DEF Told
    <3>2. \A j : Told(j, "pipeline.failed", jobs[j].failedStage)' <=>
                   Told(j, "pipeline.failed", jobs[j].failedStage)
      BY <2>1 DEF Told
    <3>3. StepsFollow'
      BY <2>1 DEF OInv, StepsFollow
    <3>4. OutcomeHasCause'
      BY <2>1, <3>1, <3>2 DEF OInv, OutcomeHasCause
    <3>5. QED
      BY <3>3, <3>4
  <2>3. DatasetFollowsLatest'
    BY <2>1 DEF OInv, DatasetFollowsLatest, IsLatest, JobsOf
  <2>4. RequestsReadUploaded' /\ RefusedWasPublished' /\ FailuresNameStages'
    BY <2>1 DEF OInv, RequestsReadUploaded, RefusedWasPublished, FailuresNameStages
  <2>5. QED
    BY <1>1, <2>2, <2>3, <2>4 DEF OInv
<1>4. QED
  BY <1>2, <1>3

LEMMA OutcomeInvariant == Spec => []OInv
BY InitOInv, OInvStep, PTL DEF Spec

\* A job is building, scoring, completed or failed only after the message that says
\* so, and failed at UPLOADED only after its one publish: no reordered, repeated or
\* late event and no interleaved request makes a row claim what never happened.
THEOREM OutcomesHaveCauses == Spec => []OutcomeHasCause
BY OutcomeInvariant, PTL DEF OInv

\* The dataset page shows the status of the latest job, or the FAILED of an older job
\* whose dispatch failed.
THEOREM PageFollowsLatest == Spec => []DatasetFollowsLatest
BY OutcomeInvariant, PTL DEF OInv

-----------------------------------------------------------------------------
(* The rows implement the promised history of runs.                        *)

RunRow == [dataset : Dataset, status : Status]
RunsOf(rows) == [i \in DOMAIN rows |-> [dataset |-> rows[i].dataset, status |-> rows[i].status]]

LEMMA RunsOfRows ==
  ASSUME NEW rows \in Seq(JobRow)
  PROVE  /\ RunsOf(rows) \in Seq(RunRow) /\ Len(RunsOf(rows)) = Len(rows)
         /\ DOMAIN RunsOf(rows) = DOMAIN rows /\ DOMAIN rows = 1 .. Len(rows)
         /\ \A i \in DOMAIN rows :
              RunsOf(rows)[i] = [dataset |-> rows[i].dataset, status |-> rows[i].status]
<1>1. Len(rows) \in Nat /\ DOMAIN rows = 1 .. Len(rows) /\ \A i \in DOMAIN rows : rows[i] \in JobRow
  BY LenProperties, ElementOfSeq
<1>2. RunsOf(rows) \in [1 .. Len(rows) -> RunRow]
  BY <1>1 DEF RunsOf, RunRow, JobRow
<1>3. RunsOf(rows) \in Seq(RunRow)
  BY <1>1, <1>2, SeqDef
<1>4. DOMAIN RunsOf(rows) = 1 .. Len(rows)
  BY <1>1 DEF RunsOf
<1>5. Len(RunsOf(rows)) = Len(rows)
  <2>1. Len(RunsOf(rows)) \in Nat /\ DOMAIN RunsOf(rows) = 1 .. Len(RunsOf(rows))
    BY <1>3, LenProperties
  <2>2. QED
    BY <1>1, <1>4, <2>1
<1>6. \A i \in DOMAIN rows :
        RunsOf(rows)[i] = [dataset |-> rows[i].dataset, status |-> rows[i].status]
  BY DEF RunsOf
<1>7. QED
  BY <1>1, <1>3, <1>4, <1>5, <1>6

\* Writing the status of a row is writing the status of its run.
LEMMA RunMoved ==
  ASSUME NEW rows \in Seq(JobRow), NEW rows2 \in Seq(JobRow), NEW k \in DOMAIN rows,
         NEW s \in Status, DOMAIN rows2 = DOMAIN rows,
         \A i \in DOMAIN rows : i # k => rows2[i] = rows[i],
         rows2[k].dataset = rows[k].dataset, rows2[k].status = s
  PROVE  RunsOf(rows2) = [RunsOf(rows) EXCEPT ![k].status = s]
<1> DEFINE old == RunsOf(rows)
           new == RunsOf(rows2)
           run == [dataset |-> rows[k].dataset, status |-> s]
<1>1. /\ old \in Seq(RunRow) /\ Len(old) = Len(rows) /\ DOMAIN rows = 1 .. Len(rows)
      /\ DOMAIN old = DOMAIN rows
      /\ \A i \in DOMAIN rows : old[i] = [dataset |-> rows[i].dataset, status |-> rows[i].status]
  BY RunsOfRows
<1>2. /\ new \in Seq(RunRow) /\ DOMAIN new = DOMAIN rows
      /\ \A i \in DOMAIN rows : new[i] = [dataset |-> rows2[i].dataset, status |-> rows2[i].status]
  BY RunsOfRows
<1> HIDE DEF old, new
<1>3. [old[k] EXCEPT !.status = s] = run
  BY <1>1
<1>4. new[k] = run /\ \A i \in DOMAIN rows : i # k => new[i] = old[i]
  BY <1>1, <1>2
<1>5. [old EXCEPT ![k] = run] = new
  <2>1. old = [i \in DOMAIN rows |-> old[i]] /\ new = [i \in DOMAIN rows |-> new[i]]
    <3>1. old \in [1 .. Len(old) -> RunRow] /\ new \in [1 .. Len(new) -> RunRow]
      BY <1>1, <1>2, LenProperties
    <3>2. old = [i \in DOMAIN old |-> old[i]] /\ new = [i \in DOMAIN new |-> new[i]]
      BY <3>1
    <3>3. QED
      BY <1>1, <1>2, <3>2
  <2>2. [old EXCEPT ![k] = run] = [i \in DOMAIN rows |-> IF i = k THEN run ELSE old[i]]
    BY <1>1, <2>1
  <2>3. QED
    BY <1>4, <2>1, <2>2
<1>6. QED
  BY <1>3, <1>5 DEF old, new

\* A row that is appended is a run that is appended.
LEMMA RunAppended ==
  ASSUME NEW rows \in Seq(JobRow), NEW rows2 \in Seq(JobRow), NEW d \in Dataset,
         DOMAIN rows2 = DOMAIN rows \cup {Len(rows) + 1},
         \A i \in DOMAIN rows : rows2[i] = rows[i],
         rows2[Len(rows) + 1].dataset = d, rows2[Len(rows) + 1].status = "UPLOADED"
  PROVE  RunsOf(rows2) = Append(RunsOf(rows), [dataset |-> d, status |-> "UPLOADED"])
<1> DEFINE old == RunsOf(rows)
           new == RunsOf(rows2)
           run == [dataset |-> d, status |-> "UPLOADED"]
<1>1. /\ old \in Seq(RunRow) /\ Len(old) = Len(rows) /\ DOMAIN rows = 1 .. Len(rows)
      /\ DOMAIN old = DOMAIN rows /\ Len(rows) \in Nat
      /\ \A i \in DOMAIN rows : old[i] = [dataset |-> rows[i].dataset, status |-> rows[i].status]
  BY RunsOfRows, LenProperties
<1>2. /\ new \in Seq(RunRow) /\ Len(new) = Len(rows2) /\ DOMAIN rows2 = 1 .. Len(rows2)
      /\ Len(rows2) \in Nat
      /\ \A i \in DOMAIN rows2 :
           new[i] = [dataset |-> rows2[i].dataset, status |-> rows2[i].status]
  BY RunsOfRows, LenProperties
<1> HIDE DEF old, new
<1>3. run \in RunRow
  BY DEF RunRow, Status, Active
<1> HIDE DEF run
<1>4. /\ Append(old, run) \in Seq(RunRow) /\ Len(Append(old, run)) = Len(rows) + 1
      /\ \A i \in 1 .. Len(rows) : Append(old, run)[i] = old[i]
      /\ Append(old, run)[Len(rows) + 1] = run
  BY <1>1, <1>3, AppendProperties
<1>5. Len(new) = Len(rows) + 1
  <2>1. 1 .. Len(rows2) = 1 .. Len(rows) + 1
    BY <1>1, <1>2
  <2>2. QED
    BY <1>1, <1>2, <2>1
<1>6. \A i \in 1 .. Len(rows) : new[i] = old[i]
  BY <1>1, <1>2
<1>7. new[Len(rows) + 1] = run
  BY <1>2 DEF run
<1>8. \A i \in 1 .. Len(new) : new[i] = Append(old, run)[i]
  BY <1>1, <1>4, <1>5, <1>6, <1>7
<1>9. new = Append(old, run)
  BY <1>2, <1>4, <1>5, <1>8, SeqEqual
<1>10. QED
  BY <1>9 DEF old, new, run

LEMMA RunsAre == runs = RunsOf(jobs)
BY DEF runs, RunsOf

LEMMA HistoryInit == Init => History!Init
<1> SUFFICES ASSUME Init PROVE History!Init
  OBVIOUS
<1>1. jobs = <<>> /\ \A d \in Dataset : ~datasets[d].archived
  BY DEF Init
<1>2. closed = {}
  BY <1>1 DEF closed
<1>3. RunsOf(jobs) \in Seq(RunRow) /\ Len(RunsOf(jobs)) = 0
  <2>1. jobs \in Seq(JobRow) /\ Len(jobs) = 0
    BY <1>1, EmptySeq
  <2>2. QED
    BY <2>1, RunsOfRows
<1>4. RunsOf(jobs) = <<>>
  BY <1>3, EmptySeq
<1>5. QED
  BY <1>2, <1>4, RunsAre DEF History!Init

LEMMA HistoryMove ==
  ASSUME OInv, OInv', NEW k \in DOMAIN jobs, MovesRow(k)
  PROVE  /\ UNCHANGED closed
         /\ \/ UNCHANGED runs
            \/ History!Advance(k) \/ History!Fail(k)
<1>1. PICK s \in Status, st \in Status, f \in StageOrNone :
        WriteStatus(k, s, st, f) /\ RowMove(k, s, st, f)
  BY DEF MovesRow
<1>2. jobs \in Seq(JobRow) /\ jobs' \in Seq(JobRow)
  BY DEF OInv, IInv, TypeOK
<1>3. runs' = [runs EXCEPT ![k].status = s]
  <2>1. RunsOf(jobs') = [RunsOf(jobs) EXCEPT ![k].status = s]
    BY <1>1, <1>2, WrittenRow, RunMoved
  <2>2. runs' = RunsOf(jobs') /\ runs = RunsOf(jobs)
    BY DEF runs, RunsOf
  <2>3. QED
    BY <2>1, <2>2
<1>4. UNCHANGED closed
  <2>1. \A d \in Dataset : datasets'[d].archived = datasets[d].archived
    BY <1>1, WrittenRow
  <2>2. QED
    BY <2>1 DEF closed
<1>5. runs[k].status = jobs[k].status
  BY DEF runs
<1>6. CASE s # "FAILED"
  <2>1. \E n \in 1 .. 4 : runs[k].status = History!Stage[n] /\ s = History!Stage[n + 1]
    <3>1. /\ History!Stage[1] = "UPLOADED" /\ History!Stage[2] = "NORMALIZING"
          /\ History!Stage[3] = "BUILDING_RELATIONS" /\ History!Stage[4] = "SCORING"
          /\ History!Stage[5] = "COMPLETED"
      BY DEF History!Stage
    <3>2. \/ jobs[k].status = "UPLOADED" /\ s = "NORMALIZING"
          \/ jobs[k].status = "NORMALIZING" /\ s = "BUILDING_RELATIONS"
          \/ jobs[k].status = "BUILDING_RELATIONS" /\ s = "SCORING"
          \/ jobs[k].status = "SCORING" /\ s = "COMPLETED"
      BY <1>1, <1>6 DEF RowMove
    <3>3. QED
      BY <1>5, <3>1, <3>2
  <2>2. History!Advance(k)
    BY <1>3, <1>4, <2>1 DEF History!Advance
  <2>3. QED
    BY <1>4, <2>2
<1>7. CASE s = "FAILED" /\ jobs[k].status # "FAILED"
  BY <1>3, <1>4, <1>5, <1>7 DEF History!Fail, History!Ended
<1>8. CASE s = "FAILED" /\ jobs[k].status = "FAILED"
  <2>1. /\ DOMAIN jobs' = DOMAIN jobs
        /\ \A i \in DOMAIN jobs : /\ jobs'[i].dataset = jobs[i].dataset
                                  /\ jobs'[i].status = jobs[i].status
    BY <1>1, <1>8, WrittenRow
  <2>2. UNCHANGED runs
    BY <2>1 DEF runs
  <2>3. QED
    BY <1>4, <2>2
<1>9. QED
  BY <1>6, <1>7, <1>8

LEMMA HistoryBegin ==
  ASSUME OInv, OInv', NEW d \in Dataset, NEW source \in 0 .. MaxJobs, CreatesJob(d, source)
  PROVE  History!Begin(d)
<1>1. jobs \in Seq(JobRow) /\ jobs' \in Seq(JobRow)
  BY DEF OInv, IInv, TypeOK
<1>2. runs' = Append(runs, [dataset |-> d, status |-> "UPLOADED"])
  <2>1. RunsOf(jobs') = Append(RunsOf(jobs), [dataset |-> d, status |-> "UPLOADED"])
    BY <1>1, CreatedRow, RunAppended
  <2>2. runs' = RunsOf(jobs') /\ runs = RunsOf(jobs)
    BY DEF runs, RunsOf
  <2>3. QED
    BY <2>1, <2>2
<1>3. UNCHANGED closed
  <2>1. \A e \in Dataset : datasets'[e].archived = datasets[e].archived
    BY CreatedRow
  <2>2. QED
    BY <2>1 DEF closed
<1>4. ~datasets[d].archived /\ \A i \in DOMAIN jobs : jobs[i].dataset = d => jobs[i].status \in Terminal
  <2>1. CASE datasets[d].status = "ABSENT"
    <3>1. JobsOf(d) = {} /\ ~datasets[d].archived
      BY <2>1 DEF OInv, IInv, DatasetsHaveJobs
    <3>2. QED
      BY <3>1 DEF JobsOf
  <2>2. CASE ~datasets[d].archived /\ ~HasActiveJob(d)
    BY <2>2 DEF HasActiveJob, JobsOf
  <2>3. QED
    BY <2>1, <2>2 DEF CreatesJob
<1>5. d \notin closed /\ History!AllEnded(d)
  BY <1>4 DEF closed, runs, History!AllEnded, History!Ended, Terminal
<1>6. QED
  BY <1>2, <1>3, <1>5 DEF History!Begin

LEMMA HistoryClose ==
  ASSUME OInv, NEW d \in Dataset, ArchiveDataset(d)
  PROVE  History!Close(d)
<1>1. UNCHANGED jobs /\ datasets' = [datasets EXCEPT ![d] = [@ EXCEPT !.archived = TRUE]]
  BY DEF ArchiveDataset
<1>2. UNCHANGED runs
  BY <1>1 DEF runs
<1>3. datasets \in [Dataset -> DatasetRow]
  BY DEF OInv, IInv, TypeOK
<1>4. datasets'[d].archived = TRUE /\ \A e \in Dataset : e # d => datasets'[e] = datasets[e]
  BY <1>1, <1>3 DEF DatasetRow
<1>5. closed' = closed \cup {d}
  BY <1>4 DEF closed
<1>6. \A i \in DOMAIN jobs : jobs[i].dataset = d => jobs[i].status \in Terminal
  BY DEF ArchiveDataset, HasActiveJob, JobsOf
<1>7. History!AllEnded(d)
  BY <1>6 DEF runs, History!AllEnded, History!Ended, Terminal
<1>8. QED
  BY <1>2, <1>5, <1>7 DEF History!Close

LEMMA HistoryStep ==
  OInv /\ OInv' /\ [Next]_vars => [History!Next]_(History!vars)
<1> SUFFICES ASSUME OInv, OInv', [Next]_vars
             PROVE  History!Next \/ UNCHANGED <<runs, closed>>
  BY DEF History!vars
<1>1. CASE UNCHANGED <<jobs, datasets>>
  BY <1>1 DEF runs, closed
<1>2. ASSUME NEW d \in Dataset, ArchiveDataset(d)
      PROVE  History!Next
  BY <1>2, HistoryClose DEF History!Next
<1>3. ASSUME NEW k \in DOMAIN jobs, MovesRow(k)
      PROVE  History!Next \/ UNCHANGED <<runs, closed>>
  <2>1. k \in DOMAIN runs
    BY DEF runs
  <2>2. QED
    BY <1>3, <2>1, HistoryMove DEF History!Next
<1>4. ASSUME NEW d \in Dataset, NEW source \in 0 .. MaxJobs, CreatesJob(d, source)
      PROVE  History!Next
  BY <1>4, HistoryBegin DEF History!Next
<1>5. CASE UNCHANGED vars
  BY <1>1, <1>5 DEF vars
<1>6. QED
  BY <1>1, <1>2, <1>3, <1>4, <1>5, RowChanges

\* The rows implement the history of runs: runs of a dataset follow each other, each
\* moves one stage at a time or fails, and an archived dataset gets no further run.
THEOREM RowsImplementRuns == Spec => ImplementsRuns
<1>1. Init => History!Init
  BY HistoryInit
<1>2. OInv /\ OInv' /\ [Next]_vars => [History!Next]_(History!vars)
  BY HistoryStep
<1>3. QED
  BY <1>1, <1>2, OutcomeInvariant, PTL DEF Spec, ImplementsRuns, History!Spec

-----------------------------------------------------------------------------
(* Where the rows leave the documented lifecycle.                          *)

\* A dispatch is recorded as failed although the job it was for has COMPLETED: the
\* message got through, and the answer to its publish did not.
LateDispatch ==
  \E h \in Handler : FailDispatch(h) /\ jobs[req[h].job].status = "COMPLETED"

OtherRowsStay(j) == \A i \in DOMAIN jobs : i # j => i \in DOMAIN jobs' /\ jobs'[i] = jobs[i]

LEMMA WriteLeavesOthers ==
  ASSUME NEW j, NEW status, NEW step, NEW failedStage,
         WriteStatus(j, status, step, failedStage)
  PROVE  OtherRowsStay(j)
BY DEF WriteStatus, WriteRow, OtherRowsStay

\* Nothing else takes a completed job out of COMPLETED.
LEMMA CompletedStays ==
  ASSUME OInv, Next, ~LateDispatch, NEW k \in DOMAIN jobs, jobs[k].status = "COMPLETED"
  PROVE  k \in DOMAIN jobs' /\ jobs'[k].status = "COMPLETED"
<1> DEFINE Stays == k \in DOMAIN jobs' /\ jobs'[k].status = "COMPLETED"
<1>1. ASSUME UNCHANGED jobs PROVE Stays
  BY <1>1
<1>2. ASSUME NEW j, j # k, OtherRowsStay(j) PROVE Stays
  BY <1>2 DEF OtherRowsStay
<1>3. ASSUME NEW d \in Dataset, NEW source \in 0 .. MaxJobs, CreatesJob(d, source) PROVE Stays
  BY <1>3, CreatedRow
<1> HIDE DEF Stays
<1>4. IInv
  BY DEF OInv
<1>5. ASSUME NEW d \in Dataset, UploadDataset(d) \/ ArchiveDataset(d) PROVE Stays
  <2>1. CASE UploadDataset(d)
    <3>1. CreatesJob(d, 0)
      BY <2>1 DEF UploadDataset, CreatesJob
    <3>2. QED
      BY <1>3, <3>1, BoundsAssumption
  <2>2. CASE ArchiveDataset(d)
    BY <1>1, <2>2 DEF ArchiveDataset
  <2>3. QED
    BY <1>5, <2>1, <2>2
<1>6. ASSUME NEW h \in Handler, RequestStep(h) PROVE Stays
  <2>1. ASSUME NEW d \in Dataset, LoadForStart(h, d) PROVE Stays
    BY <1>1, <2>1 DEF LoadForStart
  <2>2. ASSUME NEW j \in DOMAIN jobs, RetryExisting(h, j) PROVE Stays
    BY <1>1, <2>2 DEF RetryExisting
  <2>3. ASSUME NEW j \in DOMAIN jobs, RetryNew(h, j) PROVE Stays
    <3>1. CreatesJob(jobs[j].dataset, j)
      BY <1>4, <2>3, RetryCreatesJob
    <3>2. jobs[j].dataset \in Dataset /\ j \in 0 .. MaxJobs
      BY <1>4, JobRows, BoundsAssumption DEF IInv, TypeOK
    <3>3. QED
      BY <1>3, <3>1, <3>2
  <2>4. CASE ClaimStart(h)
    <3>1. CASE NotArchived(req[h].job) /\ jobs[req[h].job].status = "UPLOADED"
      <4>1. WriteStatus(req[h].job, "NORMALIZING", "NORMALIZING", "")
        BY <2>4, <3>1 DEF ClaimStart, ClaimIf
      <4>2. OtherRowsStay(req[h].job) /\ req[h].job # k
        BY <3>1, <4>1, WriteLeavesOthers
      <4>3. QED
        BY <1>2, <4>2
    <3>2. CASE ~(NotArchived(req[h].job) /\ jobs[req[h].job].status = "UPLOADED")
      BY <1>1, <2>4, <3>2 DEF ClaimStart, ClaimIf
    <3>3. QED
      BY <3>1, <3>2
  <2>5. CASE FailDispatch(h)
    <3>1. WriteStatus(req[h].job, "FAILED", req[h].step, req[h].step)
      BY <2>5 DEF FailDispatch
    <3>2. OtherRowsStay(req[h].job)
      BY <3>1, WriteLeavesOthers
    <3>3. req[h].job # k
      BY <2>5 DEF LateDispatch
    <3>4. QED
      BY <1>2, <3>2, <3>3
  <2>6. CASE PublishUploaded(h) \/ Abandon(h)
    BY <1>1, <2>6 DEF PublishUploaded, Abandon
  <2>7. QED
    BY <1>6, <2>1, <2>2, <2>3, <2>4, <2>5, <2>6 DEF RequestStep
<1>7. ASSUME NEW m \in topic, PipelineStep(m) PROVE Stays
  <2>1. CASE Normalize(m) \/ BuildRelations(m) \/ Score(m)
    BY <1>1, <2>1 DEF Normalize, BuildRelations, Score, Answer
  <2>2. CASE HandlePipelineEvent(m)
    <3>1. m.job # k
      BY <2>2 DEF HandlePipelineEvent, Terminal
    <3>2. WriteStatus(m.job, MovesTo(m), IF MovesTo(m) = "FAILED" THEN m.stage ELSE MovesTo(m), m.stage)
      BY <2>2 DEF HandlePipelineEvent
    <3>3. OtherRowsStay(m.job)
      BY <3>2, WriteLeavesOthers
    <3>4. QED
      BY <1>2, <3>1, <3>3
  <2>3. QED
    BY <1>7, <2>1, <2>2 DEF PipelineStep
<1>8. QED
  BY <1>5, <1>6, <1>7 DEF Next, Stays

\* Every other step is one of the documented lifecycle.
LEMMA DocumentedStep ==
  OInv /\ OInv' /\ [Next]_vars /\ [~LateDispatch]_vars => [Documented!Next]_(Documented!vars)
<1> SUFFICES ASSUME OInv, OInv', [Next]_vars, ~LateDispatch \/ UNCHANGED vars,
                    ~(UNCHANGED <<runs, closed>>)
             PROVE  Documented!Next
  BY DEF Documented!vars
<1>1. ~(UNCHANGED vars)
  BY DEF vars, runs, closed
<1>2. Next /\ ~LateDispatch
  BY <1>1
<1>3. History!Next
  BY HistoryStep DEF History!vars
<1>4. ASSUME NEW d \in Dataset, History!Begin(d) \/ History!Close(d)
      PROVE  Documented!Next
  BY <1>4 DEF History!Begin, History!Close, History!AllEnded, History!Ended,
     Documented!Next, Documented!Begin, Documented!Close, Documented!AllEnded, Documented!Ended
<1>5. ASSUME NEW i \in DOMAIN runs, History!Advance(i)
      PROVE  Documented!Next
  BY <1>5 DEF History!Advance, History!Stage, Documented!Next, Documented!Advance, Documented!Stage
<1>6. ASSUME NEW i \in DOMAIN runs, History!Fail(i)
      PROVE  Documented!Next
  <2>1. i \in DOMAIN jobs /\ runs[i].status = jobs[i].status
    BY DEF runs
  <2>2. runs' = [runs EXCEPT ![i].status = "FAILED"] /\ UNCHANGED closed
    BY <1>6 DEF History!Fail
  <2>3. runs[i].status # "COMPLETED"
    <3>1. SUFFICES ASSUME runs[i].status = "COMPLETED" PROVE FALSE
      OBVIOUS
    <3>2. i \in DOMAIN jobs' /\ jobs'[i].status = "COMPLETED"
      BY <1>2, <2>1, <3>1, CompletedStays
    <3>3. runs'[i].status = "COMPLETED"
      BY <3>2 DEF runs
    <3>4. runs'[i].status = "FAILED"
      <4>1. runs[i] = [dataset |-> jobs[i].dataset, status |-> jobs[i].status]
        BY <2>1 DEF runs
      <4>2. runs'[i] = [runs[i] EXCEPT !.status = "FAILED"]
        BY <2>2
      <4>3. QED
        BY <4>1, <4>2
    <3>5. QED
      BY <3>3, <3>4
  <2>4. Documented!Fail(i)
    BY <1>6, <2>2, <2>3 DEF History!Fail, History!Ended, Documented!Fail, Documented!Ended
  <2>5. QED
    BY <2>4 DEF Documented!Next
<1>7. QED
  BY <1>3, <1>4, <1>5, <1>6 DEF History!Next

\* A late dispatch is none.
LEMMA LateIsUndocumented ==
  OInv /\ [Documented!Next]_(Documented!vars) => [~LateDispatch]_vars
<1> SUFFICES ASSUME OInv, [Documented!Next]_(Documented!vars), LateDispatch
             PROVE  FALSE
  OBVIOUS
<1>1. PICK h \in Handler : FailDispatch(h) /\ jobs[req[h].job].status = "COMPLETED"
  BY DEF LateDispatch
<1>2. PICK k : k = req[h].job
  OBVIOUS
<1>3. k \in DOMAIN jobs /\ DOMAIN jobs' = DOMAIN jobs /\ jobs'[k].status = "FAILED"
  <2>1. k \in DOMAIN jobs
    BY <1>1, <1>2, BusyRequest DEF FailDispatch, OInv
  <2>2. WriteStatus(k, "FAILED", "UPLOADED", "UPLOADED")
    BY <1>1, <1>2 DEF FailDispatch, OInv, RequestsReadUploaded
  <2>3. "FAILED" \in Status /\ "UPLOADED" \in Status /\ "UPLOADED" \in StageOrNone
    BY DEF Status, Active, Terminal, StageOrNone
  <2>4. QED
    BY <2>1, <2>2, <2>3, WrittenRow
<1>4. /\ k \in DOMAIN runs /\ DOMAIN runs' = DOMAIN runs
      /\ runs[k].status = "COMPLETED" /\ runs'[k].status = "FAILED"
  BY <1>1, <1>2, <1>3 DEF runs
<1>5. runs' # runs
  BY <1>4
<1>6. Len(runs') = Len(runs) /\ Len(runs) \in Nat /\ runs \in Seq(RunRow)
  <2>1. jobs \in Seq(JobRow)
    BY DEF OInv, IInv, TypeOK
  <2>2. runs \in Seq(RunRow)
    BY <2>1, RunsOfRows, RunsAre
  <2>3. DOMAIN runs = 1 .. Len(runs) /\ Len(runs) \in Nat
    BY <2>2, LenProperties
  <2>4. jobs' \in Seq(JobRow)
    <3>1. OInv'
      BY <1>1, OInvStep DEF Next, RequestStep
    <3>2. QED
      BY <3>1 DEF OInv, IInv, TypeOK
  <2>5. runs' = RunsOf(jobs')
    BY DEF runs, RunsOf
  <2>6. runs' \in Seq(RunRow)
    BY <2>4, <2>5, RunsOfRows
  <2>7. DOMAIN runs' = 1 .. Len(runs') /\ Len(runs') \in Nat
    BY <2>6, LenProperties
  <2>8. 1 .. Len(runs') = 1 .. Len(runs)
    BY <1>4, <2>3, <2>7
  <2>9. \A a, b \in Nat : 1 .. a = 1 .. b => a = b
    OBVIOUS
  <2>10. Len(runs') = Len(runs)
    BY <2>3, <2>7, <2>8, <2>9
  <2>11. QED
    BY <2>2, <2>3, <2>10
<1>7. ASSUME NEW d \in Dataset, Documented!Begin(d) PROVE FALSE
  <2>1. runs' = Append(runs, [dataset |-> d, status |-> "UPLOADED"])
    BY <1>7 DEF Documented!Begin
  <2>2. [dataset |-> d, status |-> "UPLOADED"] \in RunRow
    BY DEF RunRow, Status, Active
  <2>3. Len(runs') = Len(runs) + 1
    BY <1>6, <2>1, <2>2, AppendProperties
  <2>4. QED
    BY <1>6, <2>3
<1>8. ASSUME NEW d \in Dataset, Documented!Close(d) PROVE FALSE
  BY <1>5, <1>8 DEF Documented!Close
<1>9. ASSUME NEW i \in DOMAIN runs, Documented!Advance(i) \/ Documented!Fail(i) PROVE FALSE
  <2>1. \E s : runs' = [runs EXCEPT ![i].status = s]
    BY <1>9 DEF Documented!Advance, Documented!Fail
  <2>2. i = k
    <3>1. ASSUME i # k PROVE FALSE
      <4>1. runs'[k] = runs[k]
        BY <1>4, <2>1, <3>1
      <4>2. QED
        BY <1>4, <4>1
    <3>2. QED
      BY <3>1
  <2>3. QED
    BY <1>4, <1>9, <2>2
       DEF Documented!Advance, Documented!Fail, Documented!Ended, Documented!Stage
<1>10. QED
  BY <1>5, <1>7, <1>8, <1>9 DEF Documented!Next, Documented!vars

\* The rows implement the lifecycle the documents describe exactly when no dispatch is
\* recorded as failed after its job has COMPLETED: of every step the code can take this
\* is the only one that leaves it.
THEOREM OnlyLateDispatchIsUndocumented ==
  Spec => (ImplementsDocumentedRuns <=> [][~LateDispatch]_vars)
<1>1. Init => Documented!Init
  BY HistoryInit DEF History!Init, Documented!Init
<1>2. Spec /\ [][~LateDispatch]_vars => ImplementsDocumentedRuns
  BY <1>1, DocumentedStep, OutcomeInvariant, PTL DEF Spec, ImplementsDocumentedRuns, Documented!Spec
<1>3. Spec /\ ImplementsDocumentedRuns => [][~LateDispatch]_vars
  BY LateIsUndocumented, OutcomeInvariant, PTL DEF ImplementsDocumentedRuns, Documented!Spec
<1>4. QED
  BY <1>2, <1>3, PTL

-----------------------------------------------------------------------------
(* What a poll shows.                                                      *)

LEMMA StatusIndices ==
  /\ statusIndex("UPLOADED") = 1 /\ statusIndex("NORMALIZING") = 2
  /\ statusIndex("BUILDING_RELATIONS") = 4 /\ statusIndex("SCORING") = 5
  /\ statusIndex("COMPLETED") = 6 /\ statusIndex("FAILED") = 1
<1> DEFINE order == orderedPipelineStatuses
<1>1. /\ order[1] = "UPLOADED" /\ order[2] = "NORMALIZING" /\ order[3] = "NORMALIZED"
      /\ order[4] = "BUILDING_RELATIONS" /\ order[5] = "SCORING" /\ order[6] = "COMPLETED"
  BY DEF orderedPipelineStatuses
<1> HIDE DEF order
<1>2. \A i \in 1..6 : i = 1 \/ i = 2 \/ i = 3 \/ i = 4 \/ i = 5 \/ i = 6
  OBVIOUS
<1>3. ASSUME NEW status, NEW n \in 1..6, order[n] = status,
             \A i \in 1..6 : order[i] = status => i = n
      PROVE  statusIndex(status) = n
  BY <1>3 DEF statusIndex, order
<1>4. \A i, n \in 1..6 : order[i] = order[n] => i = n
  BY <1>1, <1>2
<1>5. \A n \in 1..6 : statusIndex(order[n]) = n
  BY <1>3, <1>4
<1>6. statusIndex("FAILED") = 1
  <2>1. \A i \in 1..6 : order[i] # "FAILED"
    BY <1>1, <1>2
  <2>2. QED
    BY <2>1 DEF statusIndex, order
<1>7. 1 \in 1..6 /\ 2 \in 1..6 /\ 4 \in 1..6 /\ 5 \in 1..6 /\ 6 \in 1..6
  OBVIOUS
<1>8. QED
  BY <1>1, <1>5, <1>6, <1>7

\* A job that is under way or completed shows the stages before its own as completed.
LEMMA ViewOfRunning ==
  ASSUME NEW row, NEW n \in 1..6, row.status # "FAILED", row.step = row.status,
         statusIndex(row.status) = n
  PROVE  LET view == buildAnalysisStatusResponse(row) IN
         /\ view.status = row.status /\ view.progress = 20 * (n - 1)
         /\ \A i \in 1..6 : /\ view.stages[i] # "failed"
                            /\ view.stages[i] = "completed" <=> row.status = "COMPLETED" \/ i < n
<1>1. buildAnalysisStatusResponse(row).status = row.status
  BY DEF buildAnalysisStatusResponse
<1>2. buildAnalysisStatusResponse(row).progress = 20 * (n - 1)
  BY DEF buildAnalysisStatusResponse, progressPercent, statusProgress
<1>3. \A i \in 1..6 : buildAnalysisStatusResponse(row).stages[i] =
        IF row.status = "COMPLETED" \/ i < n THEN "completed"
        ELSE IF i = n THEN "current" ELSE "pending"
  BY DEF buildAnalysisStatusResponse, buildStatusStages
<1>4. QED
  BY <1>1, <1>2, <1>3

\* A failed job shows the stage it failed at, and the stages before it as completed.
LEMMA ViewOfFailed ==
  ASSUME NEW row, NEW n \in 1..6, row.status = "FAILED", statusIndex(row.step) = n
  PROVE  LET view == buildAnalysisStatusResponse(row) IN
         /\ view.status = "FAILED" /\ view.progress = 20 * (n - 1)
         /\ view.stages[n] = "failed"
         /\ \A i \in 1..6 : view.stages[i] = "completed" <=> i < n
<1>1. buildAnalysisStatusResponse(row).status = "FAILED"
  BY DEF buildAnalysisStatusResponse
<1>2. buildAnalysisStatusResponse(row).progress = 20 * (n - 1)
  BY DEF buildAnalysisStatusResponse, progressPercent, statusProgress
<1>3. \A i \in 1..6 : buildAnalysisStatusResponse(row).stages[i] =
        IF i = n THEN "failed" ELSE IF i < n THEN "completed" ELSE "pending"
  BY StatusIndices DEF buildAnalysisStatusResponse, buildStatusStages
<1>4. QED
  BY <1>1, <1>2, <1>3

\* What PollNeverGoesBack says of a poll of row a followed by a poll of row b.
KeepsForward(a, b) ==
  LET before == buildAnalysisStatusResponse(a)
      after == buildAnalysisStatusResponse(b)
  IN /\ IF Unplaced(b)
        THEN after.progress = 0 /\ Completed(after) = {}
        ELSE /\ before.progress <= after.progress
             /\ Completed(before) \subseteq Completed(after)
     /\ after.status = "FAILED" <=> \E i \in 1..6 : after.stages[i] = "failed"

LEMMA ForwardToRunning ==
  ASSUME NEW a, NEW b, NEW m \in 1..6, NEW n \in 1..6, m <= n,
         a.status \notin {"FAILED", "COMPLETED"}, a.step = a.status, statusIndex(a.status) = m,
         b.status # "FAILED", b.step = b.status, statusIndex(b.status) = n
  PROVE  KeepsForward(a, b)
<1>1. LET before == buildAnalysisStatusResponse(a) IN
        /\ before.progress = 20 * (m - 1)
        /\ \A i \in 1..6 : before.stages[i] = "completed" <=> i < m
  BY ViewOfRunning
<1>2. LET after == buildAnalysisStatusResponse(b) IN
        /\ after.status = b.status /\ after.progress = 20 * (n - 1)
        /\ \A i \in 1..6 : /\ after.stages[i] # "failed"
                           /\ after.stages[i] = "completed" <=> b.status = "COMPLETED" \/ i < n
  BY ViewOfRunning
<1>3. 20 * (m - 1) <= 20 * (n - 1) /\ \A i \in 1..6 : i < m => i < n
  OBVIOUS
<1>4. ~Unplaced(b)
  BY DEF Unplaced
<1>5. QED
  BY <1>1, <1>2, <1>3, <1>4 DEF KeepsForward, Completed

LEMMA ForwardToFailed ==
  ASSUME NEW a, NEW b, NEW n \in 1..6,
         a.status \notin {"FAILED", "COMPLETED"}, a.step = a.status, statusIndex(a.status) = n,
         b.status = "FAILED", statusIndex(b.step) = n
  PROVE  ~Unplaced(b) => KeepsForward(a, b)
<1>1. LET before == buildAnalysisStatusResponse(a) IN
        /\ before.progress = 20 * (n - 1)
        /\ \A i \in 1..6 : before.stages[i] = "completed" <=> i < n
  BY ViewOfRunning
<1>2. LET after == buildAnalysisStatusResponse(b) IN
        /\ after.status = "FAILED" /\ after.progress = 20 * (n - 1)
        /\ after.stages[n] = "failed"
        /\ \A i \in 1..6 : after.stages[i] = "completed" <=> i < n
  BY ViewOfFailed
<1>3. QED
  BY <1>1, <1>2 DEF KeepsForward, Completed

LEMMA BackToZero ==
  ASSUME NEW a, NEW b, Unplaced(b), b.status = "FAILED", statusIndex(b.step) = 1
  PROVE  KeepsForward(a, b)
<1>1. LET after == buildAnalysisStatusResponse(b) IN
        /\ after.status = "FAILED" /\ after.progress = 20 * (1 - 1)
        /\ after.stages[1] = "failed"
        /\ \A i \in 1..6 : after.stages[i] = "completed" <=> i < 1
  BY ViewOfFailed
<1>2. 20 * (1 - 1) = 0 /\ \A i \in 1..6 : ~(i < 1)
  OBVIOUS
<1>3. QED
  BY <1>1, <1>2 DEF KeepsForward, Completed

LEMMA PollStep ==
  ASSUME OInv, [Next]_vars, NEW j \in DOMAIN jobs, jobs'[j] # jobs[j]
  PROVE  KeepsForward(jobs[j], jobs'[j])
<1>1. MovesRow(j)
  <2>1. CASE UNCHANGED vars
    BY <2>1 DEF vars
  <2>2. ASSUME NEW k \in DOMAIN jobs, MovesRow(k)
        PROVE  j = k
    BY <2>2, WrittenRow DEF MovesRow
  <2>3. ASSUME NEW d \in Dataset, NEW source \in 0 .. MaxJobs, CreatesJob(d, source)
        PROVE  FALSE
    BY <2>3, CreatedRow
  <2>4. ~\E d \in Dataset : ArchiveDataset(d)
    BY DEF ArchiveDataset
  <2>5. QED
    BY <2>1, <2>2, <2>3, <2>4, RowChanges
<1>2. PICK s \in Status, st \in Status, f \in StageOrNone :
        WriteStatus(j, s, st, f) /\ RowMove(j, s, st, f)
  BY <1>1 DEF MovesRow
<1>3. jobs'[j].status = s /\ jobs'[j].step = st /\ jobs'[j].failedStage = f
  BY <1>2, WrittenRow
<1>4. jobs[j].status # "FAILED" => jobs[j].step = jobs[j].status
  BY DEF OInv, StepsFollow
<1>5. CASE s # "FAILED"
  <2>1. st = s
    BY <1>2, <1>5 DEF RowMove
  <2>2. CASE jobs[j].status = "UPLOADED" /\ s = "NORMALIZING"
    BY <1>3, <1>4, <2>1, <2>2, StatusIndices, ForwardToRunning
  <2>3. CASE jobs[j].status = "NORMALIZING" /\ s = "BUILDING_RELATIONS"
    BY <1>3, <1>4, <2>1, <2>3, StatusIndices, ForwardToRunning
  <2>4. CASE jobs[j].status = "BUILDING_RELATIONS" /\ s = "SCORING"
    BY <1>3, <1>4, <2>1, <2>4, StatusIndices, ForwardToRunning
  <2>5. CASE jobs[j].status = "SCORING" /\ s = "COMPLETED"
    BY <1>3, <1>4, <2>1, <2>5, StatusIndices, ForwardToRunning
  <2>6. QED
    BY <1>2, <1>5, <2>2, <2>3, <2>4, <2>5 DEF RowMove
<1>6. CASE s = "FAILED" /\ st = f /\ f = jobs[j].status /\ jobs[j].status \in WorkerStage
  <2>1. ~Unplaced(jobs'[j])
    BY <1>3, <1>6 DEF Unplaced, WorkerStage
  <2>2. \E n \in 1..6 : statusIndex(jobs[j].status) = n
    BY <1>6, StatusIndices DEF WorkerStage
  <2>3. QED
    BY <1>3, <1>4, <1>6, <2>1, <2>2, ForwardToFailed DEF WorkerStage
<1>7. CASE s = "FAILED" /\ st = f /\ f = "UPLOADED"
  <2>1. Unplaced(jobs'[j])
    BY <1>3, <1>7 DEF Unplaced
  <2>2. QED
    BY <1>3, <1>7, <2>1, StatusIndices, BackToZero
<1>8. QED
  BY <1>2, <1>5, <1>6, <1>7 DEF RowMove

\* Between two polls of a job neither its progress nor its completed stages go back,
\* but for a failed dispatch, and a failed job always shows the stage it failed at.
THEOREM PollGoesForward == Spec => PollNeverGoesBack
<1>1. OInv /\ [Next]_vars =>
        [\A j \in DOMAIN jobs : jobs'[j] # jobs[j] => KeepsForward(jobs[j], jobs'[j])]_jobs
  BY PollStep
<1>2. QED
  BY <1>1, OutcomeInvariant, PTL DEF Spec, PollNeverGoesBack, KeepsForward

-----------------------------------------------------------------------------
(* Which starts are stranded.                                              *)

\* A start request ends (its context, the database or the process) after its claim
\* was committed and before it called the publisher.
CutOff == \E h \in Handler : req[h].pc = "claimed" /\ Abandon(h)

\* A job that left UPLOADED was handed to the publisher, or a request is about to.
HandedOver(j) == attempts[j] = 1 \/ ClaimedBy(j) # {}
StartsAreHandedOver ==
  \A j \in DOMAIN jobs : jobs[j].status # "UPLOADED" => HandedOver(j)

LEMMA HandedOverStays ==
  ASSUME OInv, Next, ~CutOff, NEW k \in 1 .. MaxJobs, HandedOver(k)
  PROVE  HandedOver(k)'
<1> DEFINE Kept(h) == req[h].pc = "claimed" => req'[h] = req[h]
<1>1. /\ IInv /\ req \in [Handler -> Request \cup {Idle}] /\ attempts \in [1 .. MaxJobs -> Nat]
      /\ Idle.pc = "idle"
  BY DEF OInv, IInv, TypeOK, Idle
<1>2. CASE attempts[k] = 1
  BY <1>2, RefusedStep DEF HandedOver
<1>3. ASSUME attempts[k] # 1 PROVE HandedOver(k)'
  <2>1. PICK g \in Handler : req[g].pc = "claimed" /\ req[g].job = k
    BY <1>3 DEF HandedOver, ClaimedBy
  <2>2. ASSUME Kept(g) PROVE HandedOver(k)'
    <3>1. req'[g].pc = "claimed" /\ req'[g].job = k
      BY <2>1, <2>2
    <3>2. g \in ClaimedBy(k)'
      BY <3>1 DEF ClaimedBy
    <3>3. QED
      BY <3>2 DEF HandedOver
  <2>3. ASSUME UNCHANGED req PROVE HandedOver(k)'
    BY <2>2, <2>3
  <2>4. ASSUME NEW h \in Handler, req[h].pc # "claimed", NEW r, req' = [req EXCEPT ![h] = r]
        PROVE  HandedOver(k)'
    BY <1>1, <2>1, <2>2, <2>4
  <2> HIDE DEF Kept
  <2>5. ASSUME NEW d \in Dataset, UploadDataset(d) \/ ArchiveDataset(d) PROVE HandedOver(k)'
    BY <2>3, <2>5 DEF UploadDataset, ArchiveDataset
  <2>6. ASSUME NEW m \in topic, PipelineStep(m) PROVE HandedOver(k)'
    BY <2>3, <2>6 DEF PipelineStep, Normalize, BuildRelations, Score, Answer, HandlePipelineEvent
  <2>7. ASSUME NEW h \in Handler, RequestStep(h) PROVE HandedOver(k)'
    <3>1. ASSUME NEW d \in Dataset, LoadForStart(h, d) PROVE HandedOver(k)'
      BY <1>1, <2>4, <3>1 DEF LoadForStart
    <3>2. ASSUME NEW j \in DOMAIN jobs, RetryExisting(h, j) PROVE HandedOver(k)'
      BY <1>1, <2>4, <3>2 DEF RetryExisting
    <3>3. ASSUME NEW j \in DOMAIN jobs, RetryNew(h, j) PROVE HandedOver(k)'
      BY <1>1, <2>4, <3>3 DEF RetryNew, CreateRetry
    <3>4. CASE ClaimStart(h)
      <4>1. req[h].pc # "claimed"
        BY <3>4 DEF ClaimStart, ClaimIf
      <4>2. req' = [req EXCEPT ![h] = Idle] \/ req' = [req EXCEPT ![h].pc = "claimed"]
        BY <1>1, <3>4, ClaimMovesJob
      <4>3. req' = [req EXCEPT ![h] = Idle] \/ req' = [req EXCEPT ![h] = [req[h] EXCEPT !.pc = "claimed"]]
        BY <4>2
      <4>4. QED
        BY <2>4, <4>1, <4>3
    <3>5. CASE PublishUploaded(h)
      <4>1. CASE req[h].job = k
        <5>1. attempts' = [attempts EXCEPT ![k] = @ + 1] /\ attempts[k] = 0
          BY <1>1, <3>5, <4>1, Claims DEF PublishUploaded
        <5>2. attempts'[k] = 1
          BY <1>1, <5>1
        <5>3. QED
          BY <5>2 DEF HandedOver
      <4>2. CASE req[h].job # k
        <5>1. h # g
          BY <2>1, <4>2
        <5>2. req'[g] = req[g]
          BY <1>1, <3>5, <5>1 DEF PublishUploaded
        <5>3. QED
          BY <2>2, <5>2 DEF Kept
      <4>3. QED
        BY <4>1, <4>2
    <3>6. CASE FailDispatch(h)
      BY <2>4, <3>6 DEF FailDispatch
    <3>7. CASE Abandon(h)
      <4>1. req[h].pc # "claimed"
        BY <3>7 DEF CutOff
      <4>2. QED
        BY <2>4, <3>7, <4>1 DEF Abandon
    <3>8. QED
      BY <2>7, <3>1, <3>2, <3>3, <3>4, <3>5, <3>6, <3>7 DEF RequestStep
  <2>8. QED
    BY <2>5, <2>6, <2>7 DEF Next
<1>4. QED
  BY <1>2, <1>3

\* Only a claim takes a job out of UPLOADED.
LEMMA StartIsClaimed ==
  ASSUME OInv, Next, NEW k \in DOMAIN jobs,
         jobs[k].status = "UPLOADED", jobs'[k].status # "UPLOADED"
  PROVE  HandedOver(k)'
<1>1. /\ IInv /\ req \in [Handler -> Request \cup {Idle}]
  BY DEF OInv, IInv, TypeOK
<1>2. ~(UNCHANGED jobs)
  OBVIOUS
<1>3. ASSUME NEW j \in DOMAIN jobs, j # k, OtherRowsStay(j) PROVE FALSE
  BY <1>3 DEF OtherRowsStay
<1>4. ASSUME NEW d \in Dataset, NEW source \in 0 .. MaxJobs, CreatesJob(d, source) PROVE FALSE
  BY <1>4, CreatedRow
<1>5. ASSUME NEW d \in Dataset, UploadDataset(d) \/ ArchiveDataset(d) PROVE FALSE
  <2>1. CASE UploadDataset(d)
    <3>1. CreatesJob(d, 0)
      BY <2>1 DEF UploadDataset, CreatesJob
    <3>2. QED
      BY <1>4, <3>1, BoundsAssumption
  <2>2. CASE ArchiveDataset(d)
    BY <1>2, <2>2 DEF ArchiveDataset
  <2>3. QED
    BY <1>5, <2>1, <2>2
<1>6. ASSUME NEW m \in topic, PipelineStep(m) PROVE FALSE
  <2>1. CASE Normalize(m) \/ BuildRelations(m) \/ Score(m)
    BY <1>2, <2>1 DEF Normalize, BuildRelations, Score, Answer
  <2>2. CASE HandlePipelineEvent(m)
    <3>1. /\ m.job \in DOMAIN jobs
          /\ WriteStatus(m.job, MovesTo(m), IF MovesTo(m) = "FAILED" THEN m.stage ELSE MovesTo(m), m.stage)
      BY <2>2 DEF HandlePipelineEvent
    <3>2. jobs[m.job].status \in AllowedFrom(m) /\ m.key # "dataset.uploaded"
      BY <2>2 DEF HandlePipelineEvent
    <3>3. m.key = "pipeline.failed" => m.stage \in WorkerStage
      BY DEF OInv, FailuresNameStages
    <3>4. m.key \in Progress \cup {"pipeline.failed"}
      BY <1>1 DEF IInv, TypeOK, Message
    <3>5. jobs[m.job].status # "UPLOADED"
      BY <3>2, <3>3, <3>4 DEF AllowedFrom, Progress, WorkerStage
    <3>6. QED
      BY <1>3, <3>1, <3>5, WriteLeavesOthers
  <2>3. QED
    BY <1>6, <2>1, <2>2 DEF PipelineStep
<1>7. ASSUME NEW h \in Handler, RequestStep(h) PROVE HandedOver(k)'
  <2>1. ASSUME NEW d \in Dataset, LoadForStart(h, d) PROVE FALSE
    BY <1>2, <2>1 DEF LoadForStart
  <2>2. ASSUME NEW j \in DOMAIN jobs, RetryExisting(h, j) PROVE FALSE
    BY <1>2, <2>2 DEF RetryExisting
  <2>3. ASSUME NEW j \in DOMAIN jobs, RetryNew(h, j) PROVE FALSE
    <3>1. CreatesJob(jobs[j].dataset, j)
      BY <1>1, <2>3, RetryCreatesJob
    <3>2. jobs[j].dataset \in Dataset /\ j \in 0 .. MaxJobs
      BY <1>1, JobRows, BoundsAssumption DEF IInv, TypeOK
    <3>3. QED
      BY <1>4, <3>1, <3>2
  <2>4. CASE ClaimStart(h)
    <3>1. CASE req[h].job = k
      <4>1. req[h].pc = "loaded" /\ req[h] \in Request
        BY <1>1, <2>4, BusyRequest DEF ClaimStart, ClaimIf
      <4>2. req' = [req EXCEPT ![h].pc = "claimed"]
        BY <1>1, <1>2, <2>4, ClaimMovesJob
      <4>3. req'[h].pc = "claimed" /\ req'[h].job = k
        BY <1>1, <3>1, <4>1, <4>2 DEF Request
      <4>4. h \in ClaimedBy(k)'
        BY <4>3 DEF ClaimedBy
      <4>5. QED
        BY <4>4 DEF HandedOver
    <3>2. CASE req[h].job # k
      <4>1. NotArchived(req[h].job) /\ jobs[req[h].job].status = "UPLOADED"
        BY <1>2, <2>4 DEF ClaimStart, ClaimIf
      <4>2. WriteStatus(req[h].job, "NORMALIZING", "NORMALIZING", "")
        BY <2>4, <4>1 DEF ClaimStart, ClaimIf
      <4>3. OtherRowsStay(req[h].job)
        BY <4>2, WriteLeavesOthers
      <4>4. req[h].job \in DOMAIN jobs
        BY <1>1, <2>4, BusyRequest DEF ClaimStart, ClaimIf
      <4>5. QED
        BY <1>3, <3>2, <4>3, <4>4
    <3>3. QED
      BY <3>1, <3>2
  <2>5. CASE FailDispatch(h)
    <3>1. req[h].job \in DOMAIN jobs /\ req[h].job \in 1 .. MaxJobs
      BY <1>1, <2>5, BusyRequest DEF FailDispatch, Request
    <3>2. attempts[req[h].job] = 1
      BY <2>5 DEF FailDispatch, OInv, RefusedWasPublished
    <3>3. req[h].job # k
      BY <1>1, <3>1, <3>2 DEF IInv, AttemptsHaveStarted
    <3>4. WriteStatus(req[h].job, "FAILED", req[h].step, req[h].step)
      BY <2>5 DEF FailDispatch
    <3>5. QED
      BY <1>3, <3>1, <3>3, <3>4, WriteLeavesOthers
  <2>6. CASE PublishUploaded(h) \/ Abandon(h)
    BY <1>2, <2>6 DEF PublishUploaded, Abandon
  <2>7. QED
    BY <1>7, <2>1, <2>2, <2>3, <2>4, <2>5, <2>6 DEF RequestStep
<1>8. QED
  BY <1>5, <1>6, <1>7 DEF Next

LEMMA HandedOverStep ==
  OInv /\ StartsAreHandedOver /\ [Next]_vars /\ [~CutOff]_vars => StartsAreHandedOver'
<1> SUFFICES ASSUME OInv, StartsAreHandedOver, [Next]_vars, [~CutOff]_vars
             PROVE  StartsAreHandedOver'
  OBVIOUS
<1>1. CASE UNCHANGED vars
  <2>1. UNCHANGED <<jobs, req, attempts>>
    BY <1>1 DEF vars
  <2>2. QED
    BY <2>1 DEF StartsAreHandedOver, HandedOver, ClaimedBy
<1>2. CASE ~(UNCHANGED vars)
  <2>1. Next /\ ~CutOff
    BY <1>2
  <2>2. SUFFICES ASSUME NEW k \in DOMAIN jobs', jobs'[k].status # "UPLOADED"
                 PROVE  HandedOver(k)'
    BY DEF StartsAreHandedOver
  <2>3. DOMAIN jobs \subseteq 1 .. MaxJobs
    BY JobRows, BoundsAssumption DEF OInv, IInv, TypeOK
  <2>4. CASE k \in DOMAIN jobs
    <3>1. CASE jobs[k].status = "UPLOADED"
      BY <2>1, <2>2, <2>4, <3>1, StartIsClaimed
    <3>2. CASE jobs[k].status # "UPLOADED"
      BY <2>1, <2>3, <2>4, <3>2, HandedOverStays DEF StartsAreHandedOver
    <3>3. QED
      BY <3>1, <3>2
  <2>5. CASE k \notin DOMAIN jobs
    <3>1. ASSUME NEW d \in Dataset, NEW source \in 0 .. MaxJobs, CreatesJob(d, source) PROVE FALSE
      <4>1. /\ DOMAIN jobs' = DOMAIN jobs \cup {Len(jobs) + 1}
            /\ jobs'[Len(jobs) + 1].status = "UPLOADED"
        BY <3>1, CreatedRow
      <4>2. k = Len(jobs) + 1
        BY <2>5, <4>1
      <4>3. QED
        BY <2>2, <4>1, <4>2
    <3>2. ASSUME NEW j \in DOMAIN jobs, MovesRow(j) PROVE FALSE
      <4>1. PICK s \in Status, st \in Status, f \in StageOrNone : WriteStatus(j, s, st, f)
        BY <3>2 DEF MovesRow
      <4>2. DOMAIN jobs' = DOMAIN jobs
        BY <4>1, WrittenRow
      <4>3. QED
        BY <2>2, <2>5, <4>2
    <3>3. ASSUME NEW d \in Dataset, ArchiveDataset(d) PROVE FALSE
      BY <2>2, <2>5, <3>3 DEF ArchiveDataset
    <3>4. QED
      <4>1. ~(UNCHANGED jobs)
        BY <2>5
      <4>2. QED
        BY <2>1, <3>1, <3>2, <3>3, <4>1, RowChanges
  <2>6. QED
    BY <2>4, <2>5
<1>3. QED
  BY <1>1, <1>2

\* A claim that is cut off is never made good: nothing publishes the job again.
LEMMA CutOffStrands == OInv /\ CutOff => ~StartsAreHandedOver'
<1> SUFFICES ASSUME OInv, CutOff PROVE ~StartsAreHandedOver'
  OBVIOUS
<1>1. PICK h \in Handler : req[h].pc = "claimed" /\ Abandon(h)
  BY DEF CutOff
<1>2. PICK k : k = req[h].job
  OBVIOUS
<1>3. /\ IInv /\ req \in [Handler -> Request \cup {Idle}] /\ Idle.pc = "idle"
  BY DEF OInv, IInv, TypeOK, Idle
<1>4. k \in DOMAIN jobs /\ attempts[k] = 0 /\ jobs[k].status # "UPLOADED"
  BY <1>1, <1>2, <1>3, Claims
<1>5. UNCHANGED <<jobs, attempts>> /\ req' = [req EXCEPT ![h] = Idle]
  BY <1>1 DEF Abandon
<1>6. ASSUME NEW g \in Handler, req'[g].pc = "claimed", req'[g].job = k PROVE FALSE
  <2>1. g # h /\ req'[g] = req[g]
    BY <1>3, <1>5, <1>6
  <2>2. QED
    BY <1>1, <1>2, <1>3, <1>6, <2>1, Claims
<1>7. ~HandedOver(k)'
  BY <1>4, <1>5, <1>6 DEF HandedOver, ClaimedBy
<1>8. QED
  BY <1>4, <1>5, <1>7 DEF StartsAreHandedOver

\* Every job that left UPLOADED is handed to the publisher, or about to be, exactly
\* when no request is cut off between its claim and its publish: no other step, and
\* no interleaving of starts, retries and late events, strands a start.
THEOREM OnlyACutOffStrandsAStart ==
  Spec => ([]StartsAreHandedOver <=> [][~CutOff]_vars)
<1>1. Init => StartsAreHandedOver
  <2>1. Init => jobs = <<>>
    BY DEF Init
  <2>2. QED
    BY <2>1 DEF StartsAreHandedOver
<1>2. Spec /\ [][~CutOff]_vars => []StartsAreHandedOver
  BY <1>1, HandedOverStep, OutcomeInvariant, PTL DEF Spec
<1>3. OInv /\ StartsAreHandedOver' => [~CutOff]_vars
  BY CutOffStrands
<1>4. Spec /\ []StartsAreHandedOver => [][~CutOff]_vars
  BY <1>3, OutcomeInvariant, PTL
<1>5. QED
  BY <1>2, <1>4, PTL
=============================================================================
