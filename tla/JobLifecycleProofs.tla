------------------------- MODULE JobLifecycleProofs -------------------------
(* The safety of JobLifecycle, for every set of datasets, every set of     *)
(* request handlers and every bound.                                       *)
EXTENDS JobLifecycle, SequenceTheorems, TLAPS

-----------------------------------------------------------------------------
(* What the two ways of changing analysis_jobs do to the rows.             *)

LEMMA JobRows ==
  ASSUME TypeOK
  PROVE  /\ Len(jobs) \in Nat /\ DOMAIN jobs = 1 .. Len(jobs)
         /\ \A j \in DOMAIN jobs : /\ jobs[j] \in JobRow
                                   /\ jobs[j].dataset \in Dataset
                                   /\ jobs[j].status \in Status
<1>1. jobs \in Seq(JobRow)
  BY DEF TypeOK
<1>2. Len(jobs) \in Nat /\ DOMAIN jobs = 1 .. Len(jobs)
  BY <1>1, LenProperties
<1>3. \A j \in DOMAIN jobs : jobs[j] \in JobRow
  BY <1>1, <1>2, ElementOfSeq
<1>4. QED
  BY <1>2, <1>3 DEF JobRow

LEMMA WriteStatusEffect ==
  ASSUME TypeOK, NEW j \in DOMAIN jobs, NEW s \in Status, NEW st \in Status,
         NEW f \in Status \cup {""}, WriteStatus(j, s, st, f)
  PROVE  /\ jobs' \in Seq(JobRow) /\ Len(jobs') = Len(jobs)
         /\ DOMAIN jobs' = DOMAIN jobs
         /\ \A i \in DOMAIN jobs : /\ jobs'[i].dataset = jobs[i].dataset
                                   /\ jobs'[i].retryOf = jobs[i].retryOf
                                   /\ i # j => jobs'[i] = jobs[i]
         /\ jobs'[j].status = s
         /\ datasets' \in [Dataset -> DatasetRow]
         /\ \A d \in Dataset : /\ datasets'[d].archived = datasets[d].archived
                               /\ datasets'[d].status \in {datasets[d].status, s}
<1> DEFINE row == [jobs[j] EXCEPT !.status = s, !.step = st, !.failedStage = f,
                                  !.resultReady = (s = "COMPLETED")]
<1>1. j \in 1 .. Len(jobs) /\ jobs[j] \in JobRow /\ jobs[j].dataset \in Dataset
  BY JobRows
<1>2. row \in JobRow /\ row.dataset = jobs[j].dataset /\ row.retryOf = jobs[j].retryOf
                     /\ row.status = s
  BY <1>1 DEF JobRow
<1>3. jobs' = [jobs EXCEPT ![j] = row]
  BY DEF WriteStatus, WriteRow
<1> HIDE DEF row
<1>4. /\ jobs' \in Seq(JobRow) /\ Len(jobs') = Len(jobs)
      /\ \A i \in 1 .. Len(jobs) : jobs'[i] = IF i = j THEN row ELSE jobs[i]
  <2>1. jobs \in Seq(JobRow)
    BY DEF TypeOK
  <2>2. row \in JobRow /\ j \in 1 .. Len(jobs)
    BY <1>1, <1>2
  <2>3. [jobs EXCEPT ![j] = row] \in Seq(JobRow) /\ Len([jobs EXCEPT ![j] = row]) = Len(jobs)
    BY <2>1, <2>2, ExceptSeq
  <2>4. \A i \in 1 .. Len(jobs) : [jobs EXCEPT ![j] = row][i] = IF i = j THEN row ELSE jobs[i]
    <3>1. jobs \in [1 .. Len(jobs) -> JobRow]
      BY <2>1, LenProperties
    <3>2. QED
      BY <3>1, <2>2
  <2>5. QED
    BY <2>3, <2>4, <1>3
<1>5. DOMAIN jobs = 1 .. Len(jobs) /\ DOMAIN jobs' = 1 .. Len(jobs)
  BY <1>4, JobRows, LenProperties
<1>6. datasets \in [Dataset -> DatasetRow]
  BY DEF TypeOK
<1>7. datasets' = [datasets EXCEPT ![jobs[j].dataset] = [@ EXCEPT !.status = s]]
  BY DEF WriteStatus, SetDatasetStatus
<1>8. datasets' \in [Dataset -> DatasetRow]
  BY <1>6, <1>7 DEF DatasetRow
<1>9. \A d \in Dataset : /\ datasets'[d].archived = datasets[d].archived
                         /\ datasets'[d].status \in {datasets[d].status, s}
  BY <1>6, <1>7 DEF DatasetRow
<1>10. QED
  BY <1>1, <1>2, <1>4, <1>5, <1>8, <1>9

LEMMA NewJobEffect ==
  ASSUME TypeOK, NEW d \in Dataset, NEW source \in 0 .. MaxJobs,
         jobs' = Append(jobs, NewJob(d, source)), SetDatasetStatus(d, "UPLOADED")
  PROVE  /\ jobs' \in Seq(JobRow) /\ Len(jobs') = Len(jobs) + 1
         /\ DOMAIN jobs' = DOMAIN jobs \cup {Len(jobs) + 1}
         /\ \A i \in DOMAIN jobs : jobs'[i] = jobs[i]
         /\ LET new == jobs'[Len(jobs) + 1] IN
              new.dataset = d /\ new.status = "UPLOADED" /\ new.retryOf = source
         /\ datasets' \in [Dataset -> DatasetRow]
         /\ \A e \in Dataset : /\ datasets'[e].archived = datasets[e].archived
                               /\ datasets'[e].status \in {datasets[e].status, "UPLOADED"}
         /\ datasets'[d].status = "UPLOADED"
<1>1. NewJob(d, source) \in JobRow
  BY DEF NewJob, JobRow, Status, Active
<1>2. /\ jobs' \in Seq(JobRow) /\ Len(jobs') = Len(jobs) + 1
      /\ \A i \in 1 .. Len(jobs) : jobs'[i] = jobs[i]
      /\ jobs'[Len(jobs) + 1] = NewJob(d, source)
  BY <1>1, AppendProperties DEF TypeOK
<1>9. /\ NewJob(d, source).dataset = d /\ NewJob(d, source).status = "UPLOADED"
      /\ NewJob(d, source).retryOf = source
  BY DEF NewJob
<1>3. DOMAIN jobs = 1 .. Len(jobs) /\ Len(jobs) \in Nat /\ DOMAIN jobs' = 1 .. Len(jobs) + 1
  BY <1>2, JobRows, LenProperties
<1>4. datasets \in [Dataset -> DatasetRow]
  BY DEF TypeOK
<1>5. datasets' = [datasets EXCEPT ![d] = [@ EXCEPT !.status = "UPLOADED"]]
  BY DEF SetDatasetStatus
<1>6. datasets' \in [Dataset -> DatasetRow]
  BY <1>4, <1>5 DEF DatasetRow, Status, Active
<1>7. /\ \A e \in Dataset : /\ datasets'[e].archived = datasets[e].archived
                            /\ datasets'[e].status \in {datasets[e].status, "UPLOADED"}
      /\ datasets'[d].status = "UPLOADED"
  BY <1>4, <1>5 DEF DatasetRow
<1>8. QED
  BY <1>2, <1>3, <1>6, <1>7, <1>9

-----------------------------------------------------------------------------
(* A step leaves the jobs alone, writes one row's status or creates a row. *)

\* Nothing brings an ended job back, or any job to UPLOADED.
MovesJob(j, s) ==
  /\ s \in Status \ {"UPLOADED"}
  /\ jobs[j].status \in Terminal => s \in Terminal
  /\ \E st \in Status, f \in Status \cup {""} : WriteStatus(j, s, st, f)

CreatesJob(d, source) ==
  /\ Len(jobs) < MaxJobs
  /\ jobs' = Append(jobs, NewJob(d, source))
  /\ SetDatasetStatus(d, "UPLOADED")
  /\ \/ source = 0 /\ datasets[d].status = "ABSENT"
     \/ /\ source \in DOMAIN jobs /\ jobs[source].dataset = d
        /\ \A r \in DOMAIN jobs : jobs[r].retryOf # source
        /\ ~datasets[d].archived
        /\ ~HasActiveJob(d)

LEMMA BusyRequest ==
  ASSUME IInv, NEW h \in Handler, req[h].pc # "idle"
  PROVE  /\ req[h] \in Request /\ req[h] # Idle
         /\ req[h].job \in DOMAIN jobs
<1>1. Idle.pc = "idle"
  BY DEF Idle
<1>2. req[h] # Idle
  BY <1>1
<1>3. req[h] \in Request \cup {Idle}
  BY DEF IInv, TypeOK
<1>4. QED
  BY <1>2, <1>3 DEF IInv, RequestsHaveRows

LEMMA ClaimMovesJob ==
  ASSUME IInv, NEW h \in Handler, ClaimStart(h)
  PROVE  \/ UNCHANGED <<jobs, datasets>> /\ req' = [req EXCEPT ![h] = Idle]
         \/ /\ req[h].job \in DOMAIN jobs /\ MovesJob(req[h].job, "NORMALIZING")
            /\ jobs[req[h].job].status = "UPLOADED"
            /\ req' = [req EXCEPT ![h].pc = "claimed"]
<1>1. req[h].job \in DOMAIN jobs
  BY BusyRequest DEF ClaimStart, ClaimIf
<1>2. CASE NotArchived(req[h].job) /\ jobs[req[h].job].status = "UPLOADED"
  <2>1. WriteStatus(req[h].job, "NORMALIZING", "NORMALIZING", "")
    BY <1>2 DEF ClaimStart, ClaimIf
  <2>2. MovesJob(req[h].job, "NORMALIZING")
    BY <2>1, <1>2 DEF MovesJob, Status, Active, Terminal
  <2>3. QED
    BY <1>1, <1>2, <2>2 DEF ClaimStart, ClaimIf
<1>3. CASE ~(NotArchived(req[h].job) /\ jobs[req[h].job].status = "UPLOADED")
  BY <1>3 DEF ClaimStart, ClaimIf
<1>4. QED
  BY <1>2, <1>3

LEMMA FailDispatchMovesJob ==
  ASSUME IInv, NEW h \in Handler, FailDispatch(h)
  PROVE  req[h].job \in DOMAIN jobs /\ MovesJob(req[h].job, "FAILED")
<1>1. req[h].job \in DOMAIN jobs
  BY BusyRequest DEF FailDispatch
<1>2. req[h] \in Request
  BY BusyRequest DEF FailDispatch
<1>3. req[h].step \in Status
  BY <1>2 DEF Request
<1>4. QED
  BY <1>1, <1>3 DEF FailDispatch, MovesJob, Status, Terminal

LEMMA EventMovesJob ==
  ASSUME IInv, NEW m \in topic, HandlePipelineEvent(m)
  PROVE  m.job \in DOMAIN jobs /\ MovesJob(m.job, MovesTo(m))
<1>1. m \in Message
  BY DEF IInv, TypeOK
<1>2. MovesTo(m) \in {"BUILDING_RELATIONS", "SCORING", "COMPLETED", "FAILED"}
  BY <1>1 DEF MovesTo, Message, Progress
<1>3. MovesTo(m) = "FAILED" => m.stage \in Status
  BY <1>1 DEF MovesTo, Message, Progress, FailedStage, Status, Active, Terminal,
              HandlePipelineEvent
<1>4. m.stage \in Status \cup {""}
  BY <1>1 DEF Message, FailedStage, Status, Active, Terminal
<1>5. (IF MovesTo(m) = "FAILED" THEN m.stage ELSE MovesTo(m)) \in Status
  BY <1>2, <1>3 DEF Status, Active, Terminal
<1>6. WriteStatus(m.job, MovesTo(m), IF MovesTo(m) = "FAILED" THEN m.stage ELSE MovesTo(m),
                  m.stage)
  BY DEF HandlePipelineEvent
<1>7. m.job \in DOMAIN jobs /\ jobs[m.job].status \notin Terminal
  BY DEF HandlePipelineEvent
<1>8. QED
  BY <1>2, <1>4, <1>5, <1>6, <1>7 DEF MovesJob, Status, Active, Terminal

LEMMA RetryCreatesJob ==
  ASSUME IInv, NEW h \in Handler, NEW j \in DOMAIN jobs, RetryNew(h, j)
  PROVE  CreatesJob(jobs[j].dataset, j)
BY DEF RetryNew, CreateRetry, RetryAllowed, NotArchived, CreatesJob

LEMMA JobsStep ==
  ASSUME IInv, Next
  PROVE  \/ UNCHANGED <<jobs, datasets>>
         \/ \E d \in Dataset : ArchiveDataset(d)
         \/ \E j \in DOMAIN jobs, s \in Status : MovesJob(j, s)
         \/ \E d \in Dataset, source \in 0 .. MaxJobs : CreatesJob(d, source)
<1>1. ASSUME NEW d \in Dataset, UploadDataset(d)
      PROVE  CreatesJob(d, 0)
  BY <1>1 DEF UploadDataset, CreatesJob
<1>3. ASSUME NEW h \in Handler, RequestStep(h)
      PROVE  \/ UNCHANGED <<jobs, datasets>>
             \/ \E j \in DOMAIN jobs, s \in Status : MovesJob(j, s)
             \/ \E d \in Dataset, source \in 0 .. MaxJobs : CreatesJob(d, source)
  <2>1. ASSUME NEW d \in Dataset, LoadForStart(h, d)
        PROVE  UNCHANGED <<jobs, datasets>>
    BY <2>1 DEF LoadForStart
  <2>2. ASSUME NEW j \in DOMAIN jobs, RetryExisting(h, j)
        PROVE  UNCHANGED <<jobs, datasets>>
    BY <2>2 DEF RetryExisting
  <2>3. ASSUME NEW j \in DOMAIN jobs, RetryNew(h, j)
        PROVE  \E d \in Dataset, source \in 0 .. MaxJobs : CreatesJob(d, source)
    <3>1. CreatesJob(jobs[j].dataset, j)
      BY <2>3, RetryCreatesJob
    <3>2. jobs[j].dataset \in Dataset /\ j \in 0 .. MaxJobs
      BY JobRows, BoundsAssumption DEF IInv, TypeOK
    <3>3. QED
      BY <3>1, <3>2
  <2>4. CASE ClaimStart(h)
    BY <2>4, ClaimMovesJob DEF Status, Active
  <2>5. CASE PublishUploaded(h)
    BY <2>5 DEF PublishUploaded
  <2>6. CASE FailDispatch(h)
    BY <2>6, FailDispatchMovesJob DEF Status, Terminal
  <2>7. CASE Abandon(h)
    BY <2>7 DEF Abandon
  <2>8. QED
    BY <1>3, <2>1, <2>2, <2>3, <2>4, <2>5, <2>6, <2>7 DEF RequestStep
<1>4. ASSUME NEW m \in topic, PipelineStep(m)
      PROVE  \/ UNCHANGED <<jobs, datasets>>
             \/ \E j \in DOMAIN jobs, s \in Status : MovesJob(j, s)
  <2>1. CASE Normalize(m) \/ BuildRelations(m) \/ Score(m)
    BY <2>1 DEF Normalize, BuildRelations, Score, Answer
  <2>2. CASE HandlePipelineEvent(m)
    BY <2>2, EventMovesJob DEF MovesJob
  <2>3. QED
    BY <1>4, <2>1, <2>2 DEF PipelineStep
<1>5. QED
  BY <1>1, <1>3, <1>4, BoundsAssumption DEF Next

-----------------------------------------------------------------------------
(* The parts of the invariant that speak of the rows alone.                *)

LEMMA OnlyLatestStep ==
  ASSUME IInv, Next
  PROVE  OnlyLatestIsActive'
<1> SUFFICES ASSUME NEW i \in DOMAIN jobs', NEW j \in DOMAIN jobs',
                    jobs'[i].dataset = jobs'[j].dataset, i < j
             PROVE  jobs'[i].status \in Terminal
  BY DEF OnlyLatestIsActive
<1>1. TypeOK /\ OnlyLatestIsActive
  BY DEF IInv
<1>2. CASE UNCHANGED <<jobs, datasets>> \/ \E d \in Dataset : ArchiveDataset(d)
  BY <1>1, <1>2 DEF OnlyLatestIsActive, ArchiveDataset
<1>3. ASSUME NEW k \in DOMAIN jobs, NEW s \in Status, MovesJob(k, s)
      PROVE  jobs'[i].status \in Terminal
  <2>1. PICK st \in Status, f \in Status \cup {""} : WriteStatus(k, s, st, f)
    BY <1>3 DEF MovesJob
  <2>2. /\ DOMAIN jobs' = DOMAIN jobs
        /\ jobs'[i].dataset = jobs[i].dataset /\ jobs'[j].dataset = jobs[j].dataset
        /\ i # k => jobs'[i] = jobs[i]
        /\ jobs'[k].status = s
    BY <1>1, <2>1, WriteStatusEffect
  <2>3. jobs[i].status \in Terminal
    BY <1>1, <2>2 DEF OnlyLatestIsActive
  <2>4. QED
    BY <1>3, <2>2, <2>3 DEF MovesJob
<1>4. ASSUME NEW d \in Dataset, NEW source \in 0 .. MaxJobs, CreatesJob(d, source)
      PROVE  jobs'[i].status \in Terminal
  <2>1. /\ DOMAIN jobs' = DOMAIN jobs \cup {Len(jobs) + 1}
        /\ \A k \in DOMAIN jobs : jobs'[k] = jobs[k]
        /\ jobs'[Len(jobs) + 1].dataset = d
    BY <1>1, <1>4, NewJobEffect DEF CreatesJob
  <2>2. DOMAIN jobs = 1 .. Len(jobs) /\ Len(jobs) \in Nat
    BY <1>1, JobRows
  <2>3. i \in DOMAIN jobs /\ jobs'[i] = jobs[i]
    BY <2>1, <2>2
  <2>4. CASE j \in DOMAIN jobs
    BY <1>1, <2>1, <2>3, <2>4 DEF OnlyLatestIsActive
  <2>5. CASE j = Len(jobs) + 1
    <3>1. i \in JobsOf(d)
      BY <2>1, <2>3, <2>5 DEF JobsOf
    <3>2. datasets[d].status # "ABSENT"
      BY <3>1 DEF IInv, DatasetsHaveJobs
    <3>3. ~HasActiveJob(d)
      BY <1>4, <3>2 DEF CreatesJob
    <3>4. QED
      BY <2>3, <3>1, <3>3 DEF HasActiveJob
  <2>6. QED
    BY <2>1, <2>4, <2>5
<1>5. QED
  BY <1>2, <1>3, <1>4, JobsStep

LEMMA ArchivedStep ==
  ASSUME IInv, Next
  PROVE  ArchivedIsQuiet'
<1> SUFFICES ASSUME NEW d \in Dataset, datasets'[d].archived,
                    NEW i \in DOMAIN jobs', jobs'[i].dataset = d
             PROVE  jobs'[i].status \in Terminal
  BY DEF ArchivedIsQuiet, HasActiveJob, JobsOf
<1>1. TypeOK /\ ArchivedIsQuiet
  BY DEF IInv
<1>2. ASSUME datasets[d].archived
      PROVE  \A k \in DOMAIN jobs : jobs[k].dataset = d => jobs[k].status \in Terminal
  BY <1>1, <1>2 DEF ArchivedIsQuiet, HasActiveJob, JobsOf
<1>3. CASE UNCHANGED <<jobs, datasets>>
  BY <1>2, <1>3
<1>4. ASSUME NEW e \in Dataset, ArchiveDataset(e)
      PROVE  jobs'[i].status \in Terminal
  <2>1. UNCHANGED jobs /\ ~HasActiveJob(e) /\ (d # e => datasets[d].archived)
    BY <1>1, <1>4 DEF ArchiveDataset, TypeOK
  <2>2. CASE d = e
    BY <2>1, <2>2 DEF HasActiveJob, JobsOf
  <2>3. CASE d # e
    BY <1>2, <2>1, <2>3
  <2>4. QED
    BY <2>2, <2>3
<1>5. ASSUME NEW k \in DOMAIN jobs, NEW s \in Status, MovesJob(k, s)
      PROVE  jobs'[i].status \in Terminal
  <2>1. PICK st \in Status, f \in Status \cup {""} : WriteStatus(k, s, st, f)
    BY <1>5 DEF MovesJob
  <2>2. /\ DOMAIN jobs' = DOMAIN jobs /\ jobs'[i].dataset = jobs[i].dataset
        /\ i # k => jobs'[i] = jobs[i]
        /\ jobs'[k].status = s
        /\ datasets[d].archived
    BY <1>1, <2>1, WriteStatusEffect
  <2>3. jobs[i].status \in Terminal
    BY <1>2, <2>2
  <2>4. QED
    BY <1>5, <2>2, <2>3 DEF MovesJob
<1>6. ASSUME NEW e \in Dataset, NEW source \in 0 .. MaxJobs, CreatesJob(e, source)
      PROVE  jobs'[i].status \in Terminal
  <2>1. /\ DOMAIN jobs' = DOMAIN jobs \cup {Len(jobs) + 1}
        /\ \A k \in DOMAIN jobs : jobs'[k] = jobs[k]
        /\ jobs'[Len(jobs) + 1].dataset = e
        /\ datasets[d].archived
    BY <1>1, <1>6, NewJobEffect DEF CreatesJob
  <2>2. d # e
    <3>1. ~datasets[e].archived
      BY <1>6 DEF CreatesJob, IInv, DatasetsHaveJobs
    <3>2. QED
      BY <3>1, <2>1
  <2>3. QED
    BY <1>2, <2>1, <2>2
<1>7. QED
  BY <1>3, <1>4, <1>5, <1>6, JobsStep

LEMMA EarlierRetriedStep ==
  ASSUME IInv, Next
  PROVE  EarlierJobsAreRetried'
<1> SUFFICES ASSUME NEW i \in DOMAIN jobs', NEW j \in DOMAIN jobs',
                    jobs'[i].dataset = jobs'[j].dataset, i < j
             PROVE  \E r \in DOMAIN jobs' : jobs'[r].retryOf = i
  BY DEF EarlierJobsAreRetried
<1>1. TypeOK /\ EarlierJobsAreRetried
  BY DEF IInv
<1>2. CASE UNCHANGED <<jobs, datasets>> \/ \E d \in Dataset : ArchiveDataset(d)
  BY <1>1, <1>2 DEF EarlierJobsAreRetried, ArchiveDataset
<1>3. ASSUME NEW k \in DOMAIN jobs, NEW s \in Status, MovesJob(k, s)
      PROVE  \E r \in DOMAIN jobs' : jobs'[r].retryOf = i
  <2>1. PICK st \in Status, f \in Status \cup {""} : WriteStatus(k, s, st, f)
    BY <1>3 DEF MovesJob
  <2>2. /\ DOMAIN jobs' = DOMAIN jobs
        /\ \A r \in DOMAIN jobs : /\ jobs'[r].dataset = jobs[r].dataset
                                  /\ jobs'[r].retryOf = jobs[r].retryOf
    BY <1>1, <2>1, WriteStatusEffect
  <2>3. PICK r \in DOMAIN jobs : jobs[r].retryOf = i
    BY <1>1, <2>2 DEF EarlierJobsAreRetried
  <2>4. QED
    BY <2>2, <2>3
<1>4. ASSUME NEW d \in Dataset, NEW source \in 0 .. MaxJobs, CreatesJob(d, source)
      PROVE  \E r \in DOMAIN jobs' : jobs'[r].retryOf = i
  <2> DEFINE new == Len(jobs) + 1
  <2>1. /\ DOMAIN jobs' = DOMAIN jobs \cup {new}
        /\ \A k \in DOMAIN jobs : jobs'[k] = jobs[k]
        /\ jobs'[new].dataset = d /\ jobs'[new].retryOf = source
    BY <1>1, <1>4, NewJobEffect DEF CreatesJob
  <2>2. DOMAIN jobs = 1 .. Len(jobs) /\ Len(jobs) \in Nat
    BY <1>1, JobRows
  <2>3. i \in DOMAIN jobs /\ jobs'[i] = jobs[i]
    BY <2>1, <2>2
  <2>4. CASE j \in DOMAIN jobs
    <3>1. PICK r \in DOMAIN jobs : jobs[r].retryOf = i
      BY <1>1, <2>1, <2>3, <2>4 DEF EarlierJobsAreRetried
    <3>2. QED
      BY <2>1, <3>1
  <2>5. CASE j = new /\ i = source
    BY <2>1, <2>5
  <2>6. CASE j = new /\ i # source
    <3>1. i \in JobsOf(d)
      BY <2>1, <2>3, <2>6 DEF JobsOf
    <3>2. source \in DOMAIN jobs /\ jobs[source].dataset = d
          /\ \A r \in DOMAIN jobs : jobs[r].retryOf # source
      BY <3>1, <1>4 DEF CreatesJob, IInv, DatasetsHaveJobs
    <3>3. jobs[i].dataset = d
      BY <3>1 DEF JobsOf
    <3>4. i < source
      BY <1>1, <2>2, <2>3, <2>6, <3>2, <3>3 DEF EarlierJobsAreRetried
    <3>5. PICK r \in DOMAIN jobs : jobs[r].retryOf = i
      BY <1>1, <2>3, <3>2, <3>3, <3>4 DEF EarlierJobsAreRetried
    <3>6. QED
      BY <2>1, <3>5
  <2>7. QED
    BY <2>1, <2>4, <2>5, <2>6
<1>5. QED
  BY <1>2, <1>3, <1>4, JobsStep

LEMMA DatasetsStep ==
  ASSUME IInv, Next
  PROVE  DatasetsHaveJobs'
<1> SUFFICES ASSUME NEW d \in Dataset
             PROVE  /\ datasets'[d].status # "ABSENT" <=> JobsOf(d)' # {}
                    /\ datasets'[d].archived => JobsOf(d)' # {}
  BY DEF DatasetsHaveJobs
<1>1. /\ TypeOK
      /\ datasets[d].status # "ABSENT" <=> JobsOf(d) # {}
      /\ datasets[d].archived => JobsOf(d) # {}
  BY DEF IInv, DatasetsHaveJobs
<1>2. CASE UNCHANGED <<jobs, datasets>>
  BY <1>1, <1>2 DEF JobsOf
<1>3. ASSUME NEW e \in Dataset, ArchiveDataset(e)
      PROVE  /\ datasets'[d].status # "ABSENT" <=> JobsOf(d)' # {}
             /\ datasets'[d].archived => JobsOf(d)' # {}
  <2>1. /\ UNCHANGED jobs /\ datasets'[d].status = datasets[d].status
        /\ datasets'[d].archived => datasets[d].archived \/ datasets[d].status # "ABSENT"
    BY <1>1, <1>3 DEF ArchiveDataset, TypeOK, DatasetRow
  <2>2. QED
    BY <1>1, <2>1 DEF JobsOf
<1>4. ASSUME NEW k \in DOMAIN jobs, NEW s \in Status, MovesJob(k, s)
      PROVE  /\ datasets'[d].status # "ABSENT" <=> JobsOf(d)' # {}
             /\ datasets'[d].archived => JobsOf(d)' # {}
  <2>1. PICK st \in Status, f \in Status \cup {""} : WriteStatus(k, s, st, f)
    BY <1>4 DEF MovesJob
  <2>2. /\ DOMAIN jobs' = DOMAIN jobs
        /\ \A r \in DOMAIN jobs : jobs'[r].dataset = jobs[r].dataset
        /\ datasets'[d].archived = datasets[d].archived
    BY <1>1, <2>1, WriteStatusEffect
  <2>3. JobsOf(d)' = JobsOf(d)
    BY <2>2 DEF JobsOf
  <2>4. datasets'[d].status = IF d = jobs[k].dataset THEN s ELSE datasets[d].status
    BY <1>1, <2>1, JobRows DEF WriteStatus, SetDatasetStatus, TypeOK, DatasetRow
  <2>5. s # "ABSENT"
    BY DEF Status, Active, Terminal
  <2>6. d = jobs[k].dataset => JobsOf(d) # {}
    BY DEF JobsOf
  <2>7. QED
    BY <1>1, <2>2, <2>3, <2>4, <2>5, <2>6
<1>5. ASSUME NEW e \in Dataset, NEW source \in 0 .. MaxJobs, CreatesJob(e, source)
      PROVE  /\ datasets'[d].status # "ABSENT" <=> JobsOf(d)' # {}
             /\ datasets'[d].archived => JobsOf(d)' # {}
  <2>1. /\ DOMAIN jobs' = DOMAIN jobs \cup {Len(jobs) + 1}
        /\ \A k \in DOMAIN jobs : jobs'[k] = jobs[k]
        /\ jobs'[Len(jobs) + 1].dataset = e
        /\ datasets'[d].archived = datasets[d].archived
        /\ datasets'[e].status = "UPLOADED"
        /\ d # e => datasets'[d].status = datasets[d].status
    BY <1>1, <1>5, NewJobEffect DEF CreatesJob, SetDatasetStatus, TypeOK
  <2>2. JobsOf(d)' = IF d = e THEN JobsOf(d) \cup {Len(jobs) + 1} ELSE JobsOf(d)
    BY <2>1 DEF JobsOf
  <2>3. QED
    BY <1>1, <2>1, <2>2
<1>6. QED
  BY <1>2, <1>3, <1>4, <1>5, JobsStep

LEMMA RetriesStep ==
  ASSUME IInv, Next
  PROVE  RetriesFormChain'
<1> DEFINE Earlier(j) == {i \in JobsOf(jobs[j].dataset) : i < j}
           ChainedAt(j) == IF Earlier(j) = {} THEN jobs[j].retryOf = 0
                           ELSE /\ jobs[j].retryOf \in Earlier(j)
                                /\ \A i \in Earlier(j) : i <= jobs[j].retryOf
<1> SUFFICES ASSUME NEW j \in DOMAIN jobs'
             PROVE  ChainedAt(j)'
  BY DEF RetriesFormChain
<1>1. TypeOK /\ \A k \in DOMAIN jobs : ChainedAt(k)
  BY DEF IInv, RetriesFormChain
<1>2. DOMAIN jobs = 1 .. Len(jobs) /\ Len(jobs) \in Nat
  BY <1>1, JobRows
<1>3. CASE UNCHANGED <<jobs, datasets>> \/ \E d \in Dataset : ArchiveDataset(d)
  BY <1>1, <1>3 DEF ArchiveDataset, JobsOf
<1>4. ASSUME NEW k \in DOMAIN jobs, NEW s \in Status, MovesJob(k, s)
      PROVE  ChainedAt(j)'
  <2>1. PICK st \in Status, f \in Status \cup {""} : WriteStatus(k, s, st, f)
    BY <1>4 DEF MovesJob
  <2>2. /\ DOMAIN jobs' = DOMAIN jobs
        /\ \A r \in DOMAIN jobs : /\ jobs'[r].dataset = jobs[r].dataset
                                  /\ jobs'[r].retryOf = jobs[r].retryOf
    BY <1>1, <2>1, WriteStatusEffect
  <2>3. Earlier(j)' = Earlier(j)
    BY <2>2 DEF JobsOf
  <2>4. QED
    BY <1>1, <2>2, <2>3
<1>5. ASSUME NEW d \in Dataset, NEW source \in 0 .. MaxJobs, CreatesJob(d, source)
      PROVE  ChainedAt(j)'
  <2> DEFINE new == Len(jobs) + 1
  <2>1. /\ DOMAIN jobs' = DOMAIN jobs \cup {new}
        /\ \A k \in DOMAIN jobs : jobs'[k] = jobs[k]
        /\ jobs'[new].dataset = d /\ jobs'[new].retryOf = source
    BY <1>1, <1>5, NewJobEffect DEF CreatesJob
  <2>2. CASE j \in DOMAIN jobs
    <3>1. Earlier(j)' = Earlier(j)
      BY <1>2, <2>1, <2>2 DEF JobsOf
    <3>2. QED
      BY <1>1, <2>1, <2>2, <3>1
  <2>3. CASE j = new
    <3>1. Earlier(j)' = JobsOf(d)
      BY <1>2, <2>1, <2>3 DEF JobsOf
    <3>2. CASE source = 0 /\ datasets[d].status = "ABSENT"
      <4>1. JobsOf(d) = {}
        BY <3>2 DEF IInv, DatasetsHaveJobs
      <4>2. QED
        BY <2>1, <2>3, <3>1, <3>2, <4>1
    <3>3. CASE /\ source \in DOMAIN jobs /\ jobs[source].dataset = d
               /\ \A r \in DOMAIN jobs : jobs[r].retryOf # source
      <4>1. source \in JobsOf(d)
        BY <3>3 DEF JobsOf
      <4>2. ASSUME NEW i \in JobsOf(d)
            PROVE  i <= source
        <5>1. i \in DOMAIN jobs /\ jobs[i].dataset = jobs[source].dataset
          BY <3>3, <4>2 DEF JobsOf
        <5>2. ~(source < i)
          BY <3>3, <5>1 DEF IInv, EarlierJobsAreRetried
        <5>3. QED
          BY <1>2, <3>3, <5>1, <5>2
      <4>3. QED
        BY <2>1, <2>3, <3>1, <4>1, <4>2
    <3>4. QED
      BY <1>5, <3>2, <3>3 DEF CreatesJob
  <2>4. QED
    BY <2>1, <2>2, <2>3
<1>6. QED
  BY <1>3, <1>4, <1>5, JobsStep
-----------------------------------------------------------------------------
(* Types, and the parts of the invariant that speak of the requests.       *)

LEMMA RowsStep ==
  ASSUME IInv, Next
  PROVE  /\ datasets' \in [Dataset -> DatasetRow]
         /\ jobs' \in Seq(JobRow) /\ Len(jobs') <= MaxJobs
         /\ DOMAIN jobs \subseteq DOMAIN jobs'
         /\ \A j \in DOMAIN jobs :
              jobs[j].status # "UPLOADED" => jobs'[j].status # "UPLOADED"
<1>1. TypeOK
  BY DEF IInv
<1>2. Len(jobs) \in Nat /\ Len(jobs) <= MaxJobs /\ MaxJobs \in Nat
  BY <1>1, JobRows, BoundsAssumption DEF TypeOK
<1>3. CASE UNCHANGED <<jobs, datasets>>
  BY <1>1, <1>3 DEF TypeOK
<1>4. ASSUME NEW d \in Dataset, ArchiveDataset(d)
      PROVE  UNCHANGED jobs /\ datasets' \in [Dataset -> DatasetRow]
  BY <1>1, <1>4 DEF ArchiveDataset, TypeOK, DatasetRow
<1>5. ASSUME NEW j \in DOMAIN jobs, NEW s \in Status, MovesJob(j, s)
      PROVE  /\ datasets' \in [Dataset -> DatasetRow]
             /\ jobs' \in Seq(JobRow) /\ Len(jobs') = Len(jobs)
             /\ DOMAIN jobs' = DOMAIN jobs
             /\ \A i \in DOMAIN jobs : i # j => jobs'[i] = jobs[i]
             /\ jobs'[j].status # "UPLOADED"
  <2>1. PICK st \in Status, f \in Status \cup {""} : WriteStatus(j, s, st, f)
    BY <1>5 DEF MovesJob
  <2>2. s # "UPLOADED"
    BY <1>5 DEF MovesJob
  <2>3. QED
    BY <1>1, <2>1, <2>2, WriteStatusEffect
<1>6. ASSUME NEW d \in Dataset, NEW source \in 0 .. MaxJobs, CreatesJob(d, source)
      PROVE  /\ datasets' \in [Dataset -> DatasetRow]
             /\ jobs' \in Seq(JobRow) /\ Len(jobs') = Len(jobs) + 1 /\ Len(jobs) < MaxJobs
             /\ DOMAIN jobs \subseteq DOMAIN jobs'
             /\ \A i \in DOMAIN jobs : jobs'[i] = jobs[i]
  BY <1>1, <1>6, NewJobEffect DEF CreatesJob
<1>7. jobs \in Seq(JobRow)
  BY <1>1 DEF TypeOK
<1>8. CASE \E d \in Dataset : ArchiveDataset(d)
  BY <1>2, <1>4, <1>7, <1>8
<1>9. CASE \E j \in DOMAIN jobs, s \in Status : MovesJob(j, s)
  BY <1>2, <1>5, <1>9
<1>10. CASE \E d \in Dataset, source \in 0 .. MaxJobs : CreatesJob(d, source)
  BY <1>2, <1>6, <1>10
<1>11. CASE UNCHANGED <<jobs, datasets>>
  BY <1>2, <1>3, <1>7, <1>11
<1>12. QED
  BY <1>8, <1>9, <1>10, <1>11, JobsStep

\* A request that begins works on a row that exists.
Loads(h, j) ==
  /\ req[h] = Idle
  /\ j \in DOMAIN jobs'
  /\ \E st \in Status : req' = [req EXCEPT ![h] = [pc |-> "loaded", job |-> j, step |-> st]]

\* What a step does to the requests and to the publishes.
LEMMA RequestsStep ==
  ASSUME IInv, Next
  PROVE  \/ UNCHANGED <<req, attempts>>
         \/ \E h \in Handler :
              \/ UNCHANGED attempts /\ req' = [req EXCEPT ![h] = Idle]
              \/ UNCHANGED attempts /\ \E j \in 1 .. MaxJobs : Loads(h, j)
              \/ ClaimStart(h) \/ PublishUploaded(h)
<1>1. ASSUME NEW d \in Dataset, UploadDataset(d) \/ ArchiveDataset(d)
      PROVE  UNCHANGED <<req, attempts>>
  BY <1>1 DEF UploadDataset, ArchiveDataset
<1>2. ASSUME NEW m \in topic, PipelineStep(m)
      PROVE  UNCHANGED <<req, attempts>>
  BY <1>2 DEF PipelineStep, Normalize, BuildRelations, Score, Answer, HandlePipelineEvent
<1>3. DOMAIN jobs = 1 .. Len(jobs) /\ Len(jobs) \in Nat /\ Len(jobs) <= MaxJobs
  BY JobRows DEF IInv, TypeOK
<1>4. \A j \in DOMAIN jobs : jobs[j].step \in Status
  BY JobRows DEF IInv, JobRow
<1>5. ASSUME NEW h \in Handler, NEW j \in DOMAIN jobs, req[h] = Idle, UNCHANGED <<jobs, attempts>>,
             req' = [req EXCEPT ![h] = [pc |-> "loaded", job |-> j, step |-> jobs[j].step]]
      PROVE  UNCHANGED attempts /\ \E k \in 1 .. MaxJobs : Loads(h, k)
  <2>1. j \in DOMAIN jobs' /\ j \in 1 .. MaxJobs
    BY <1>3, <1>5, BoundsAssumption
  <2>2. Loads(h, j)
    BY <1>4, <1>5, <2>1 DEF Loads
  <2>3. QED
    BY <1>5, <2>1, <2>2
<1>6. ASSUME NEW h \in Handler, RequestStep(h)
      PROVE  \/ UNCHANGED attempts /\ req' = [req EXCEPT ![h] = Idle]
             \/ UNCHANGED attempts /\ \E j \in 1 .. MaxJobs : Loads(h, j)
             \/ ClaimStart(h) \/ PublishUploaded(h)
  <2>1. ASSUME NEW d \in Dataset, LoadForStart(h, d)
        PROVE  UNCHANGED attempts /\ \E j \in 1 .. MaxJobs : Loads(h, j)
    <3>1. PICK j \in DOMAIN jobs :
            req' = [req EXCEPT ![h] = [pc |-> "loaded", job |-> j, step |-> jobs[j].step]]
      BY <2>1 DEF LoadForStart, JobsOf
    <3>2. req[h] = Idle /\ UNCHANGED <<jobs, attempts>>
      BY <2>1 DEF LoadForStart
    <3>3. QED
      BY <1>5, <3>1, <3>2
  <2>2. ASSUME NEW j \in DOMAIN jobs, RetryExisting(h, j)
        PROVE  UNCHANGED attempts /\ \E k \in 1 .. MaxJobs : Loads(h, k)
    <3>1. PICK r \in DOMAIN jobs :
            req' = [req EXCEPT ![h] = [pc |-> "loaded", job |-> r, step |-> jobs[r].step]]
      BY <2>2 DEF RetryExisting
    <3>2. req[h] = Idle /\ UNCHANGED <<jobs, attempts>>
      BY <2>2 DEF RetryExisting
    <3>3. QED
      BY <1>5, <3>1, <3>2
  <2>3. ASSUME NEW j \in DOMAIN jobs, RetryNew(h, j)
        PROVE  UNCHANGED attempts /\ \E k \in 1 .. MaxJobs : Loads(h, k)
    <3>1. /\ UNCHANGED attempts /\ req[h] = Idle
          /\ req' = [req EXCEPT ![h] = [pc |-> "loaded", job |-> Len(jobs) + 1,
                                        step |-> "UPLOADED"]]
      BY <2>3 DEF RetryNew, CreateRetry
    <3>2. CreatesJob(jobs[j].dataset, j) /\ jobs[j].dataset \in Dataset /\ j \in 0 .. MaxJobs
      BY <1>3, <2>3, RetryCreatesJob, JobRows, BoundsAssumption DEF IInv
    <3>3. Len(jobs) + 1 \in DOMAIN jobs' /\ Len(jobs) + 1 \in 1 .. MaxJobs
      BY <1>3, <3>2, NewJobEffect, BoundsAssumption DEF IInv, CreatesJob
    <3>4. QED
      BY <3>1, <3>3 DEF Loads, Status, Active
  <2>4. CASE FailDispatch(h) \/ Abandon(h)
    BY <2>4 DEF FailDispatch, Abandon
  <2>5. QED
    BY <1>6, <2>1, <2>2, <2>3, <2>4 DEF RequestStep
<1>7. QED
  BY <1>1, <1>2, <1>6 DEF Next

LEMMA RequestTypesStep ==
  ASSUME IInv, Next
  PROVE  /\ req' \in [Handler -> Request \cup {Idle}]
         /\ attempts' \in [1 .. MaxJobs -> Nat]
         /\ RequestsHaveRows'
<1>1. /\ req \in [Handler -> Request \cup {Idle}] /\ attempts \in [1 .. MaxJobs -> Nat]
      /\ \A g \in Handler : req[g] # Idle => req[g].job \in DOMAIN jobs
  BY DEF IInv, TypeOK, RequestsHaveRows
<1>2. DOMAIN jobs \subseteq DOMAIN jobs'
  BY RowsStep
<1>3. CASE UNCHANGED <<req, attempts>>
  BY <1>1, <1>2, <1>3 DEF RequestsHaveRows
<1>4. ASSUME NEW h \in Handler, UNCHANGED attempts /\ req' = [req EXCEPT ![h] = Idle]
      PROVE  /\ req' \in [Handler -> Request \cup {Idle}]
             /\ attempts' \in [1 .. MaxJobs -> Nat]
             /\ RequestsHaveRows'
  <2>1. \A g \in Handler : req'[g] = IF g = h THEN Idle ELSE req[g]
    BY <1>1, <1>4
  <2>2. QED
    BY <1>1, <1>2, <1>4, <2>1 DEF RequestsHaveRows
<1>5. ASSUME NEW h \in Handler, UNCHANGED attempts, NEW j \in 1 .. MaxJobs, Loads(h, j)
      PROVE  /\ req' \in [Handler -> Request \cup {Idle}]
             /\ attempts' \in [1 .. MaxJobs -> Nat]
             /\ RequestsHaveRows'
  <2>1. PICK st \in Status :
          req' = [req EXCEPT ![h] = [pc |-> "loaded", job |-> j, step |-> st]]
    BY <1>5 DEF Loads
  <2> DEFINE loaded == [pc |-> "loaded", job |-> j, step |-> st]
  <2>2. loaded \in Request /\ loaded.job = j
    BY DEF Request
  <2> HIDE DEF loaded
  <2>3. \A g \in Handler : req'[g] = IF g = h THEN loaded ELSE req[g]
    BY <1>1, <2>1 DEF loaded
  <2>4. req' \in [Handler -> Request \cup {Idle}]
    BY <1>1, <2>1, <2>2 DEF loaded
  <2>5. QED
    BY <1>1, <1>2, <1>5, <2>2, <2>3, <2>4 DEF RequestsHaveRows, Loads
<1>6. ASSUME NEW h \in Handler, req[h] \in Request, NEW pc \in {"claimed", "refused"},
             req' = [req EXCEPT ![h].pc = pc], req[h].job \in DOMAIN jobs
      PROVE  req' \in [Handler -> Request \cup {Idle}] /\ RequestsHaveRows'
  <2> DEFINE moved == [req[h] EXCEPT !.pc = pc]
  <2>1. moved \in Request /\ moved.job = req[h].job
    BY <1>6 DEF Request
  <2>2. req' = [req EXCEPT ![h] = moved]
    BY <1>6
  <2> HIDE DEF moved
  <2>3. \A g \in Handler : req'[g] = IF g = h THEN moved ELSE req[g]
    BY <1>1, <2>2
  <2>4. QED
    BY <1>1, <1>2, <1>6, <2>1, <2>2, <2>3 DEF RequestsHaveRows
<1>7. ASSUME NEW h \in Handler, ClaimStart(h)
      PROVE  /\ req' \in [Handler -> Request \cup {Idle}]
             /\ attempts' \in [1 .. MaxJobs -> Nat]
             /\ RequestsHaveRows'
  <2>1. req[h] \in Request /\ req[h].job \in DOMAIN jobs /\ UNCHANGED attempts
    BY <1>7, BusyRequest DEF ClaimStart, ClaimIf
  <2>2. req' = [req EXCEPT ![h] = Idle] \/ req' = [req EXCEPT ![h].pc = "claimed"]
    BY <1>7, ClaimMovesJob
  <2>3. QED
    BY <1>1, <1>4, <1>6, <2>1, <2>2
<1>8. ASSUME NEW h \in Handler, PublishUploaded(h)
      PROVE  /\ req' \in [Handler -> Request \cup {Idle}]
             /\ attempts' \in [1 .. MaxJobs -> Nat]
             /\ RequestsHaveRows'
  <2>1. req[h] \in Request /\ req[h].job \in DOMAIN jobs
    BY <1>8, BusyRequest DEF PublishUploaded
  <2>2. attempts' \in [1 .. MaxJobs -> Nat]
    <3>1. attempts' = [attempts EXCEPT ![req[h].job] = @ + 1]
      BY <1>8 DEF PublishUploaded
    <3>2. attempts \in [1 .. MaxJobs -> Nat]
      BY <1>1
    <3>3. req[h].job \in 1 .. MaxJobs
      BY <2>1 DEF Request
    <3>4. attempts[req[h].job] + 1 \in Nat
      BY <3>2, <3>3
    <3>5. QED
      BY <3>1, <3>2, <3>4
  <2>3. CASE req' = [req EXCEPT ![h] = Idle]
    <3>1. \A g \in Handler : req'[g] = IF g = h THEN Idle ELSE req[g]
      BY <1>1, <2>3
    <3>2. QED
      BY <1>1, <1>2, <2>2, <2>3, <3>1 DEF RequestsHaveRows
  <2>4. CASE req' = [req EXCEPT ![h].pc = "refused"]
    BY <1>6, <2>1, <2>2, <2>4
  <2>5. QED
    BY <1>8, <2>3, <2>4 DEF PublishUploaded
<1>9. QED
  BY <1>3, <1>4, <1>5, <1>7, <1>8, RequestsStep

LEMMA TopicStep ==
  ASSUME IInv, Next
  PROVE  topic' \subseteq Message
<1>1. topic \subseteq Message /\ DOMAIN jobs \subseteq 1 .. MaxJobs
  BY JobRows, BoundsAssumption DEF IInv, TypeOK
<1>2. ASSUME NEW d \in Dataset, UploadDataset(d) \/ ArchiveDataset(d)
      PROVE  UNCHANGED topic
  BY <1>2 DEF UploadDataset, ArchiveDataset
<1>3. ASSUME NEW h \in Handler, PublishUploaded(h)
      PROVE  topic' \subseteq Message
  <2>1. req[h].job \in DOMAIN jobs /\ jobs[req[h].job].dataset \in Dataset
    BY <1>3, BusyRequest, JobRows DEF PublishUploaded, IInv
  <2>2. Uploaded(req[h].job) \in Message
    BY <1>1, <2>1 DEF Uploaded, Message, Progress
  <2>3. QED
    BY <1>1, <1>3, <2>2 DEF PublishUploaded
<1>4. ASSUME NEW h \in Handler, RequestStep(h), ~PublishUploaded(h)
      PROVE  UNCHANGED topic
  BY <1>4 DEF RequestStep, LoadForStart, RetryExisting, RetryNew, CreateRetry, ClaimStart,
              ClaimIf, FailDispatch, Abandon
<1>5. ASSUME NEW m \in topic, NEW next \in Progress, NEW stage \in FailedStage,
             m.key \in Progress, Answer(m, next, stage)
      PROVE  topic' \subseteq Message
  <2>1. m \in Message
    BY <1>1
  <2>2. m \in [key : Progress, dataset : Dataset, job : 1 .. MaxJobs, stage : {""}]
    BY <1>5, <2>1 DEF Message, Progress
  <2>3. [m EXCEPT !.key = next] \in Message
    BY <2>2 DEF Message
  <2>4. [m EXCEPT !.key = "pipeline.failed", !.stage = stage] \in Message
    BY <2>2 DEF Message
  <2>5. QED
    BY <1>1, <1>5, <2>3, <2>4 DEF Answer
<1>6. ASSUME NEW m \in topic, PipelineStep(m)
      PROVE  topic' \subseteq Message
  <2>1. CASE Normalize(m)
    BY <1>5, <2>1 DEF Normalize, Progress, FailedStage
  <2>2. CASE BuildRelations(m)
    BY <1>5, <2>2 DEF BuildRelations, Progress, FailedStage
  <2>3. CASE Score(m)
    BY <1>5, <2>3 DEF Score, Progress, FailedStage
  <2>4. CASE HandlePipelineEvent(m)
    BY <1>1, <2>4 DEF HandlePipelineEvent
  <2>5. QED
    BY <1>6, <2>1, <2>2, <2>3, <2>4 DEF PipelineStep
<1>7. QED
  BY <1>1, <1>2, <1>3, <1>4, <1>6 DEF Next

LEMMA TypeStep ==
  ASSUME IInv, Next
  PROVE  TypeOK'
BY RowsStep, RequestTypesStep, TopicStep DEF TypeOK

\* The claim of a request, seen from the request.
LEMMA Claims ==
  ASSUME IInv
  PROVE  /\ \A h \in Handler : req[h].pc = "claimed" =>
              /\ req[h].job \in DOMAIN jobs /\ req[h].job \in 1 .. MaxJobs
              /\ attempts[req[h].job] = 0
              /\ jobs[req[h].job].status # "UPLOADED"
         /\ \A g, h \in Handler :
              req[g].pc = "claimed" /\ req[h].pc = "claimed" /\ req[g].job = req[h].job
                => g = h
<1>1. StartPublishesOnce /\ DOMAIN jobs \subseteq 1 .. MaxJobs
  BY JobRows, BoundsAssumption DEF IInv, TypeOK
<1>2. ASSUME NEW h \in Handler, req[h].pc = "claimed"
      PROVE  req[h].job \in DOMAIN jobs /\ h \in ClaimedBy(req[h].job)
  BY <1>2, BusyRequest DEF ClaimedBy
<1>3. QED
  BY <1>1, <1>2 DEF StartPublishesOnce, ClaimedBy

\* No step but a claim and a publish can disturb what is said of claims.
LEMMA ClaimsKept ==
  ASSUME IInv, Next, UNCHANGED attempts,
         \A h \in Handler : req'[h].pc = "claimed" => req'[h] = req[h]
  PROVE  StartPublishesOnce' /\ AttemptsHaveStarted'
<1>1. /\ \A j \in 1 .. MaxJobs : attempts[j] <= 1
      /\ \A j \in 1 .. MaxJobs :
           attempts[j] # 0 => j \in DOMAIN jobs /\ jobs[j].status # "UPLOADED"
  BY DEF IInv, StartPublishesOnce, AttemptsHaveStarted
<1>2. /\ DOMAIN jobs \subseteq DOMAIN jobs'
      /\ \A j \in DOMAIN jobs : jobs[j].status # "UPLOADED" => jobs'[j].status # "UPLOADED"
  BY RowsStep
<1>3. AttemptsHaveStarted'
  BY <1>1, <1>2 DEF AttemptsHaveStarted
<1>4. ASSUME NEW j \in DOMAIN jobs', NEW g \in ClaimedBy(j)', NEW h \in ClaimedBy(j)'
      PROVE  g = h /\ attempts[j] = 0 /\ jobs'[j].status # "UPLOADED"
  <2>1. /\ g \in Handler /\ req[g].pc = "claimed" /\ req[g].job = j
        /\ h \in Handler /\ req[h].pc = "claimed" /\ req[h].job = j
    BY <1>4 DEF ClaimedBy
  <2>2. QED
    BY <1>2, <2>1, Claims
<1>5. QED
  BY <1>1, <1>3, <1>4 DEF StartPublishesOnce

LEMMA ClaimStep ==
  ASSUME IInv, Next, NEW h \in Handler, ClaimStart(h)
  PROVE  StartPublishesOnce' /\ AttemptsHaveStarted'
<1>1. req \in [Handler -> Request \cup {Idle}] /\ req[h] \in Request /\ UNCHANGED attempts
  BY BusyRequest DEF ClaimStart, ClaimIf, IInv, TypeOK
<1>2. CASE req' = [req EXCEPT ![h] = Idle]
  <2>1. \A g \in Handler : req'[g].pc = "claimed" => req'[g] = req[g]
    BY <1>1, <1>2 DEF Idle
  <2>2. QED
    BY <1>1, <2>1, ClaimsKept
<1>3. CASE /\ req[h].job \in DOMAIN jobs /\ MovesJob(req[h].job, "NORMALIZING")
           /\ jobs[req[h].job].status = "UPLOADED"
           /\ req' = [req EXCEPT ![h].pc = "claimed"]
  <2> DEFINE j == req[h].job
  <2>1. PICK st \in Status, f \in Status \cup {""} : WriteStatus(j, "NORMALIZING", st, f)
    BY <1>3 DEF MovesJob
  <2>2. /\ DOMAIN jobs' = DOMAIN jobs /\ jobs'[j].status = "NORMALIZING"
        /\ \A i \in DOMAIN jobs : i # j => jobs'[i] = jobs[i]
    BY <1>3, <2>1, WriteStatusEffect DEF IInv, Status, Active
  <2>3. \A g \in Handler : /\ req'[g].job = req[g].job
                           /\ g # h => req'[g] = req[g]
    BY <1>1, <1>3 DEF Request
  <2>4. j \in 1 .. MaxJobs /\ attempts[j] = 0
    BY <1>1, <1>3 DEF Request, IInv, AttemptsHaveStarted
  <2>5. \A g \in Handler : req[g].pc = "claimed" => req[g].job # j
    BY <1>3, Claims
  <2>6. AttemptsHaveStarted'
    BY <1>1, <2>2, <2>4 DEF IInv, AttemptsHaveStarted
  <2>7. ASSUME NEW i \in DOMAIN jobs', NEW g \in ClaimedBy(i)', NEW k \in ClaimedBy(i)'
        PROVE  g = k /\ attempts[i] = 0 /\ jobs'[i].status # "UPLOADED"
    <3>1. /\ g \in Handler /\ k \in Handler /\ req[g].job = i /\ req[k].job = i
          /\ g # h => req[g].pc = "claimed"
          /\ k # h => req[k].pc = "claimed"
      BY <2>3, <2>7 DEF ClaimedBy
    <3>2. CASE i = j
      BY <2>2, <2>4, <2>5, <3>1, <3>2
    <3>3. CASE i # j
      BY <2>2, <3>1, <3>3, Claims
    <3>4. QED
      BY <3>2, <3>3
  <2>8. QED
    BY <1>1, <2>6, <2>7 DEF StartPublishesOnce, IInv
<1>4. QED
  BY <1>2, <1>3, ClaimMovesJob

LEMMA PublishStep ==
  ASSUME IInv, NEW h \in Handler, PublishUploaded(h)
  PROVE  StartPublishesOnce' /\ AttemptsHaveStarted'
<1> DEFINE j == req[h].job
<1>1. /\ req \in [Handler -> Request \cup {Idle}] /\ req[h] \in Request
      /\ attempts \in [1 .. MaxJobs -> Nat]
  BY BusyRequest DEF PublishUploaded, IInv, TypeOK
<1>2. /\ j \in DOMAIN jobs /\ j \in 1 .. MaxJobs /\ attempts[j] = 0
      /\ jobs[j].status # "UPLOADED"
  BY Claims DEF PublishUploaded
<1>3. /\ UNCHANGED jobs /\ attempts' = [attempts EXCEPT ![j] = @ + 1]
      /\ req' = [req EXCEPT ![h] = Idle] \/ req' = [req EXCEPT ![h].pc = "refused"]
  BY DEF PublishUploaded
<1>4. \A i \in 1 .. MaxJobs : attempts'[i] = IF i = j THEN 1 ELSE attempts[i]
  BY <1>1, <1>2, <1>3
<1>5. \A g \in Handler : req'[g].pc = "claimed" => g # h /\ req'[g] = req[g]
  <2>1. CASE req' = [req EXCEPT ![h] = Idle]
    BY <1>1, <2>1 DEF Idle
  <2>2. CASE req' = [req EXCEPT ![h].pc = "refused"]
    BY <1>1, <2>2 DEF Request
  <2>3. QED
    BY <1>3, <2>1, <2>2
<1>6. AttemptsHaveStarted'
  BY <1>2, <1>3, <1>4 DEF IInv, AttemptsHaveStarted
<1>7. \A i \in 1 .. MaxJobs : attempts'[i] <= 1
  BY <1>4 DEF IInv, StartPublishesOnce
<1>8. ASSUME NEW i \in DOMAIN jobs', NEW g \in ClaimedBy(i)', NEW k \in ClaimedBy(i)'
      PROVE  g = k /\ attempts'[i] = 0 /\ jobs'[i].status # "UPLOADED"
  <2>1. /\ g \in Handler /\ g # h /\ req[g].pc = "claimed" /\ req[g].job = i
        /\ k \in Handler /\ k # h /\ req[k].pc = "claimed" /\ req[k].job = i
    BY <1>5, <1>8 DEF ClaimedBy
  <2>2. req[h].pc = "claimed"
    BY DEF PublishUploaded
  <2>3. i # j
    BY <2>1, <2>2, Claims
  <2>4. QED
    BY <1>3, <1>4, <2>1, <2>3, Claims
<1>9. QED
  BY <1>6, <1>7, <1>8 DEF StartPublishesOnce

LEMMA PublishesStep ==
  ASSUME IInv, Next
  PROVE  StartPublishesOnce' /\ AttemptsHaveStarted'
<1>1. req \in [Handler -> Request \cup {Idle}]
  BY DEF IInv, TypeOK
<1>2. CASE UNCHANGED <<req, attempts>>
  BY <1>2, ClaimsKept
<1>3. ASSUME NEW h \in Handler, UNCHANGED attempts, req' = [req EXCEPT ![h] = Idle]
      PROVE  StartPublishesOnce' /\ AttemptsHaveStarted'
  <2>1. \A g \in Handler : req'[g].pc = "claimed" => req'[g] = req[g]
    BY <1>1, <1>3 DEF Idle
  <2>2. QED
    BY <1>3, <2>1, ClaimsKept
<1>4. ASSUME NEW h \in Handler, UNCHANGED attempts, NEW j \in 1 .. MaxJobs, Loads(h, j)
      PROVE  StartPublishesOnce' /\ AttemptsHaveStarted'
  <2>1. \A g \in Handler : req'[g].pc = "claimed" => req'[g] = req[g]
    BY <1>1, <1>4 DEF Loads
  <2>2. QED
    BY <1>4, <2>1, ClaimsKept
<1>5. QED
  BY <1>2, <1>3, <1>4, ClaimStep, PublishStep, RequestsStep

-----------------------------------------------------------------------------
(* The invariant is inductive.                                             *)

LEMMA InitIInv == Init => IInv
<1> SUFFICES ASSUME Init PROVE IInv
  OBVIOUS
<1>1. /\ datasets = [d \in Dataset |-> [status |-> "ABSENT", archived |-> FALSE]]
      /\ jobs = <<>> /\ req = [h \in Handler |-> Idle] /\ topic = {}
      /\ attempts = [j \in 1 .. MaxJobs |-> 0]
  BY DEF Init
<1>2. /\ jobs \in Seq(JobRow) /\ Len(jobs) = 0 /\ DOMAIN jobs = {}
  BY <1>1
<1>3. TypeOK
  BY <1>1, <1>2, BoundsAssumption DEF TypeOK, DatasetRow
<1>4. OnlyLatestIsActive /\ RetriesFormChain /\ EarlierJobsAreRetried
  BY <1>2 DEF OnlyLatestIsActive, RetriesFormChain, EarlierJobsAreRetried
<1>5. ArchivedIsQuiet /\ DatasetsHaveJobs
  BY <1>1, <1>2 DEF ArchivedIsQuiet, HasActiveJob, DatasetsHaveJobs, JobsOf
<1>6. StartPublishesOnce /\ RequestsHaveRows /\ AttemptsHaveStarted
  BY <1>1, <1>2 DEF StartPublishesOnce, RequestsHaveRows, AttemptsHaveStarted, ClaimedBy
<1>7. QED
  BY <1>3, <1>4, <1>5, <1>6 DEF IInv

LEMMA IInvStep == IInv /\ [Next]_vars => IInv'
<1> SUFFICES ASSUME IInv, [Next]_vars PROVE IInv'
  OBVIOUS
<1>1. CASE Next
  BY <1>1, TypeStep, OnlyLatestStep, RetriesStep, ArchivedStep, PublishesStep, RequestTypesStep,
     DatasetsStep, EarlierRetriedStep DEF IInv
<1>2. CASE UNCHANGED vars
  <2>1. UNCHANGED <<datasets, jobs, req, topic, attempts>>
    BY <1>2 DEF vars
  <2>2. TypeOK' /\ OnlyLatestIsActive' /\ RetriesFormChain' /\ ArchivedIsQuiet'
    BY <2>1 DEF IInv, TypeOK, OnlyLatestIsActive, RetriesFormChain, ArchivedIsQuiet,
                HasActiveJob, JobsOf
  <2>3. StartPublishesOnce' /\ RequestsHaveRows' /\ AttemptsHaveStarted'
    BY <2>1 DEF IInv, StartPublishesOnce, ClaimedBy, RequestsHaveRows, AttemptsHaveStarted
  <2>4. DatasetsHaveJobs' /\ EarlierJobsAreRetried'
    BY <2>1 DEF IInv, DatasetsHaveJobs, EarlierJobsAreRetried, JobsOf
  <2>5. QED
    BY <2>2, <2>3, <2>4 DEF IInv
<1>3. QED
  BY <1>1, <1>2

LEMMA Invariant == Spec => []IInv
BY InitIInv, IInvStep, PTL DEF Spec

-----------------------------------------------------------------------------
(* What the service guarantees, whatever the interleaving of requests,     *)
(* lost and repeated messages and requests that are cut off.               *)

\* The rows, the requests and the messages keep their types.
THEOREM TypeCorrect == Spec => []TypeOK
BY Invariant, PTL DEF IInv

\* Start, retry and event transactions never leave a dataset with two jobs under way.
THEOREM OneRunAtATime == Spec => []OnlyLatestIsActive
BY Invariant, PTL DEF IInv

\* Concurrent retries make one chain: a job has at most one retry, its successor.
THEOREM RetriesAreOneChain == Spec => []RetriesFormChain
BY Invariant, PTL DEF IInv

\* An archived dataset has no job under way, however a start or a retry races the archive.
THEOREM ArchivedStaysQuiet == Spec => []ArchivedIsQuiet
BY Invariant, PTL DEF IInv

\* A job's dataset.uploaded is handed to the publisher at most once.
THEOREM StartIsPublishedOnce == Spec => []StartPublishesOnce
BY Invariant, PTL DEF IInv

\* Every uploaded dataset has a job, so the branch of StartAnalysis that creates a
\* missing one is never taken.
THEOREM UploadedHasJob == Spec => []DatasetsHaveJobs
BY Invariant, PTL DEF IInv
=============================================================================
