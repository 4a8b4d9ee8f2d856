------------------------------- MODULE JobViews -------------------------------
(***************************************************************************)
(* What the upload service shows of a row of JobLifecycle: the status of a *)
(* job, which a dashboard polls until it has ended.  It writes nothing.    *)
(***************************************************************************)
EXTENDS JobLifecycle

orderedPipelineStatuses ==
  <<"UPLOADED", "NORMALIZING", "NORMALIZED", "BUILDING_RELATIONS", "SCORING",
    "COMPLETED">>

\* A status that is not one of the pipeline's counts as the first.
statusIndex(status) ==
  IF \E i \in 1..6 : orderedPipelineStatuses[i] = status
  THEN CHOOSE i \in 1..6 : orderedPipelineStatuses[i] = status ELSE 1

statusProgress(status) == 20 * (statusIndex(status) - 1)

\* Mutant: the progress of a failed job is that of its status.
progressOfStatus(job) == statusProgress(job.status)

\* A failed job has the progress of the step it failed at.
progressPercent(job) ==
  statusProgress(IF job.status = "FAILED" THEN job.step ELSE job.status)

\* The stage a failed job is shown to have failed at, the first for a step
\* FAILED; the stages before the job's are completed.
buildStatusStages(job) ==
  LET status == statusIndex(job.status)
      step == statusIndex(job.step)
      current == IF status > step THEN status ELSE step
      state(i) ==
        IF job.status = "FAILED" /\ i = step THEN "failed"
        ELSE IF job.status = "COMPLETED" \/ i < current THEN "completed"
        ELSE IF i = current THEN "current" ELSE "pending"
  IN [i \in 1..6 |-> state(i)]

buildAnalysisStatusResponse(job) ==
  [status |-> job.status, progress |-> progressPercent(job),
   stages |-> buildStatusStages(job)]

-----------------------------------------------------------------------------
\* Failures that name no stage the job can be shown to have reached.
Unplaced(job) == job.status = "FAILED" /\ job.failedStage \in {"UPLOADED", "FAILED"}

Completed(view) == {i \in 1..6 : view.stages[i] = "completed"}

\* Between two polls of a job neither its progress nor its completed stages go
\* back, and a stage is shown as failed exactly when the job is: whatever events,
\* late or repeated, and failed dispatches come in between.  Only a failed
\* dispatch and a failure without a known stage set the page back, and to zero.
PollNeverGoesBack ==
  [][\A j \in DOMAIN jobs : jobs'[j] # jobs[j] =>
       LET before == buildAnalysisStatusResponse(jobs[j])
           after == buildAnalysisStatusResponse(jobs'[j])
       IN /\ IF Unplaced(jobs'[j])
             THEN after.progress = 0 /\ Completed(after) = {}
             ELSE /\ before.progress <= after.progress
                  /\ Completed(before) \subseteq Completed(after)
          /\ after.status = "FAILED" <=>
               \E i \in 1..6 : after.stages[i] = "failed"]_jobs
=============================================================================
