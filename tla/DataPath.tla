------------------------------- MODULE DataPath -------------------------------
(***************************************************************************)
(* The way of one file from its upload to its risk scores: the upload      *)
(* request and the two stores it writes, the workers that normalize the    *)
(* object (the event is delivered at least once), the file they leave on   *)
(* the shared volume, the relations snapshot and the scoring of it.        *)
(* The retries of the consumers, the dispatch of a start and the lifecycle *)
(* of the job are modelled in modules of their own.                        *)
(***************************************************************************)
EXTENDS CsvRows, RelationFeatures

CONSTANTS
  Cases,   \* the files uploaded, each with the number of faults it may meet
  Workers, \* deliveries of dataset.uploaded that are handled at once
  None,    \* no file, no snapshot
  IntMax,    \* the largest Int of scoring
  AmountMax, \* the largest amount its table takes, in hundredths
  TextMax    \* the largest number that stands for a text its table takes

\* What may go wrong: calls of the upload service ("put", "commit", "delete"), the
\* death of it, a repeated delivery, the object store and the disk of a worker, a
\* publication, relations reading the volume, and, of a scoring run, the inputs it
\* asks relations for and its database, whose causes ScoringRuns tells apart.
Faults == {"put", "commit", "delete", "crash", "redeliver", "store", "disk",
           "publish", "volume", "inputs", "database"}

ASSUME DataPathAssumption ==
  /\ NoCategory = Blank /\ {IntMax, AmountMax, TextMax} \subseteq Nat
  /\ None \notin Seq(NormalizedReturnRecord)
  /\ \A c \in Cases : Represented(c.file) /\ c.faults \in Nat

VARIABLES
  file,     \* the uploaded file
  budget,   \* bound: the faults that may still happen to it
  upload,   \* what the request is doing
  object,   \* the object is in the object store
  row,      \* the dataset, its file and its job are in the database
  started,  \* an analysis of the dataset has been started
  pending,  \* deliveries of dataset.uploaded
  worker,   \* per worker, what it is doing and the temporary file it writes
  final,    \* the normalized file of the dataset on the shared volume
  events,   \* dataset.normalized deliveries, the announced record counts
  snapshot, \* the records relations has loaded
  scored,   \* the returns of the snapshot have their risk scores
  failed,   \* the stages that published pipeline.failed
  happened  \* the kinds of the faults that have happened

upVars == <<upload, object, row>>
vars == <<file, budget, upVars, started, pending, worker, final, events, snapshot,
          scored, failed, happened>>

Idle == [at |-> "idle", columns |-> <<>>, line |-> 1, temp |-> <<>>]

Fault(kind) == /\ budget > 0
               /\ budget' = budget - 1
               /\ happened' = happened \cup {kind}

NoFault == UNCHANGED <<budget, happened>>

Init ==
  /\ \E c \in Cases : file = c.file /\ budget = c.faults
  /\ upload = "validating" /\ object = FALSE /\ row = FALSE
  /\ started = FALSE /\ pending = 0 /\ worker = [w \in Workers |-> Idle]
  /\ final = None /\ events = <<>>
  /\ snapshot = None /\ scored = FALSE
  /\ failed = {} /\ happened = {}

-----------------------------------------------------------------------------
\* The whole file is spooled and validated before anything is written.
Validate ==
  /\ upload = "validating"
  /\ upload' = IF Accepted(file) THEN "putting" ELSE "rejected"
  /\ UNCHANGED <<file, budget, object, row, started, pending, worker, final, events,
                 snapshot, scored, failed, happened>>

\* A Put that returns an error may have stored the object; nothing cleans up.
PutObject ==
  /\ upload = "putting"
  /\ \/ upload' = "committing" /\ object' = TRUE /\ NoFault
     \/ upload' = "failed" /\ Fault("put") /\ object' \in BOOLEAN
  /\ UNCHANGED <<file, row, started, pending, worker, final, events, snapshot,
                 scored, failed>>
\* Mutant: a failed transaction ends the request without the deletion.
CommitRowsOnly ==
  /\ upload = "committing"
  /\ \/ upload' = "created" /\ row' = TRUE /\ NoFault
     \/ upload' = "failed" /\ Fault("commit") /\ row' \in BOOLEAN
  /\ UNCHANGED <<file, object, started, pending, worker, final, events, snapshot,
                 scored, failed>>

\* One transaction; when its outcome is lost the request takes it as failed.
CommitRows ==
  /\ upload = "committing"
  /\ \/ upload' = "created" /\ row' = TRUE /\ NoFault
     \/ upload' = "compensating" /\ Fault("commit") /\ row' \in BOOLEAN
  /\ UNCHANGED <<file, object, started, pending, worker, final, events, snapshot,
                 scored, failed>>

\* The object is deleted, or the failure to delete it only logged.
Compensate ==
  /\ upload = "compensating"
  /\ upload' = "failed"
  /\ \/ object' = FALSE /\ NoFault
     \/ Fault("delete") /\ UNCHANGED object
  /\ UNCHANGED <<file, row, started, pending, worker, final, events, snapshot,
                 scored, failed>>

\* The service dies in the middle: the call it is in may have taken effect.
CrashUpload ==
  /\ upload \in {"putting", "committing", "compensating"}
  /\ Fault("crash")
  /\ upload' = "failed"
  /\ CASE upload = "putting" -> object' \in BOOLEAN /\ UNCHANGED row
       [] upload = "committing" -> row' \in BOOLEAN /\ UNCHANGED object
       [] upload = "compensating" -> object' \in BOOLEAN /\ UNCHANGED row
  /\ UNCHANGED <<file, started, pending, worker, final, events, snapshot, scored,
                 failed>>

-----------------------------------------------------------------------------
\* A start request dispatches dataset.uploaded, once for the job.
StartAnalysis ==
  /\ row /\ ~started
  /\ started' = TRUE
  /\ pending' = pending + 1
  /\ UNCHANGED <<file, budget, upVars, worker, final, events, snapshot, scored,
                 failed, happened>>

Redeliver ==
  /\ started /\ Fault("redeliver")
  /\ pending' = pending + 1
  /\ UNCHANGED <<file, upVars, started, worker, final, events, snapshot, scored,
                 failed>>
\* Mutant: the delivery is done with whatever came of it.
EndedForGood(w, acknowledged) ==
  /\ worker' = [worker EXCEPT ![w] = Idle]
  /\ acknowledged \in BOOLEAN
  /\ UNCHANGED pending

\* The worker ends, with or without having its delivery acknowledged.
Ended(w, acknowledged) ==
  /\ worker' = [worker EXCEPT ![w] = Idle]
  /\ pending' = IF acknowledged THEN pending ELSE pending + 1

TakeDelivery(w) ==
  /\ worker[w] = Idle /\ pending > 0
  /\ pending' = pending - 1
  /\ worker' = [worker EXCEPT ![w].at = "reading"]
  /\ UNCHANGED <<file, budget, upVars, started, final, events, snapshot, scored, failed,
                 happened>>

\* What was written is removed; the failure is still to be reported.
GivesUp(w) == worker' = [worker EXCEPT ![w] = [Idle EXCEPT !.at = "failing"]]

\* The object is opened, a temporary file created and the header read.
OpenSource(w) ==
  /\ worker[w].at = "reading"
  /\ \/ /\ IF object /\ validateHeaders(file.header)
           THEN worker' = [worker EXCEPT ![w].at = "writing",
                                         ![w].columns = columns(file.header)]
           ELSE GivesUp(w)
        /\ NoFault
     \/ \E kind \in {"store", "disk"} : Fault(kind) /\ GivesUp(w)
  /\ UNCHANGED <<file, upVars, started, pending, final, events, snapshot, scored,
                 failed>>
\* Mutant: rows are written to the dataset's file itself.
WriteInPlace(w, rows) ==
  /\ worker' = [worker EXCEPT ![w].line = @ + 1, ![w].temp = rows]
  /\ final' = rows

\* Rows are written to a temporary file of the worker's own.
Write(w, rows) ==
  /\ worker' = [worker EXCEPT ![w].line = @ + 1, ![w].temp = rows]
  /\ UNCHANGED final

\* A row that repeats a return is left out when it is the same and otherwise
\* ends the event, as a row that cannot be normalized does.
NormalizeLine(w) ==
  LET line == worker[w].line
      at == worker[w].columns
      record == normalizeCSVRow(file.rows[line], at)
      same == {r \in Range(worker[w].temp) : r.returnId = record.returnId}
  IN /\ worker[w].at = "writing" /\ line <= Len(file.rows)
     /\ IF /\ Normalizable(file, at, line)
           /\ same \subseteq {record}
        THEN Write(w, worker[w].temp \o (IF same = {} THEN <<record>> ELSE <<>>))
        ELSE GivesUp(w) /\ UNCHANGED final
     /\ UNCHANGED <<file, budget, upVars, started, pending, events, snapshot, scored,
                    failed, happened>>

\* The rename replaces the dataset's file at once; without rows it fails.
Rename(w) ==
  /\ worker[w].at = "writing" /\ worker[w].line > Len(file.rows)
  /\ IF worker[w].temp # <<>>
     THEN /\ final' = worker[w].temp
          /\ worker' = [worker EXCEPT ![w].at = "announcing"]
     ELSE GivesUp(w) /\ UNCHANGED final
  /\ UNCHANGED <<file, budget, upVars, started, pending, events, snapshot, scored,
                 failed, happened>>

\* dataset.normalized is published with the count of the rows written.
Announce(w) ==
  /\ worker[w].at = "announcing"
  /\ \/ /\ events' = Append(events, Len(worker[w].temp))
        /\ Ended(w, TRUE)
        /\ NoFault
     \/ /\ Fault("publish")
        /\ Ended(w, FALSE)
        /\ UNCHANGED events
  /\ UNCHANGED <<file, upVars, started, final, snapshot, scored, failed>>

\* pipeline.failed is published and the delivery done with, or neither.
ReportFailure(w) ==
  /\ worker[w].at = "failing"
  /\ \/ /\ failed' = failed \cup {"NORMALIZATION"}
        /\ Ended(w, TRUE)
        /\ NoFault
     \/ /\ Fault("publish")
        /\ Ended(w, FALSE)
        /\ UNCHANGED failed
  /\ UNCHANGED <<file, upVars, started, final, events, snapshot, scored>>

\* The object cannot be read on, or the rows not be written or moved.
WorkerFails(w) ==
  /\ worker[w].at = "writing"
  /\ \E kind \in {"store", "disk"} : Fault(kind)
  /\ GivesUp(w)
  /\ UNCHANGED <<file, upVars, started, pending, final, events, snapshot, scored,
                 failed>>

\* The service dies before it has published: the delivery comes back.
WorkerDies(w) ==
  /\ worker[w].at # "idle"
  /\ Fault("crash")
  /\ Ended(w, FALSE)
  /\ UNCHANGED <<file, upVars, started, final, events, snapshot, scored, failed>>

-----------------------------------------------------------------------------
\* The failure is published and the delivery requeued, behind those already here.
Unloaded ==
  /\ failed' = failed \cup {"RELATIONS"}
  /\ events' = Append(Tail(events), Head(events))
  /\ UNCHANGED snapshot

\* ProcessNormalizedDataset: the announced file becomes the snapshot, unless the
\* volume cannot be read.
LoadSnapshot ==
  /\ events # <<>>
  /\ \/ /\ IF final # None /\ Loads(final, Head(events))
           THEN snapshot' = final /\ events' = Tail(events) /\ UNCHANGED failed
           ELSE Unloaded
        /\ NoFault
     \/ Fault("volume") /\ Unloaded
  /\ UNCHANGED <<file, upVars, started, pending, worker, final, scored>>

\* A number beyond TextMax stands for a text the results table refuses: longer
\* than its column, with a NUL in it, or a return id that is not UTF-8 and that the
\* response turns into the id of another return.
Fits(text) == text \in (-TextMax..TextMax) \cup {Blank}

\* What the response and the results table hold of a record: an Int of minutes,
\* DECIMAL(19,4) amounts and VARCHAR texts.  The upload limits none of these.
Storable(r) ==
  /\ r.minutes <= IntMax
  /\ r.orderAmount <= AmountMax /\ r.refundAmount <= AmountMax
  /\ \A text \in {r.orderId, r.customerId, r.returnId, r.agentId, r.category,
                   r.reason} : Fits(text)

\* A record that cannot be read or inserted fails the run, and so do the calls of
\* relations and the statements that fail on their own.
ScoreSnapshot ==
  /\ snapshot # None /\ ~scored /\ "SCORING" \notin failed
  /\ \/ /\ IF \A r \in Range(snapshot) : Storable(r)
           THEN scored' = TRUE /\ UNCHANGED failed
           ELSE failed' = failed \cup {"SCORING"} /\ UNCHANGED scored
        /\ NoFault
     \/ /\ \E kind \in {"inputs", "database"} : Fault(kind)
        /\ failed' = failed \cup {"SCORING"}
        /\ UNCHANGED scored
  /\ UNCHANGED <<file, upVars, started, pending, worker, final, events, snapshot>>

WorkerStep(w) ==
  OpenSource(w) \/ NormalizeLine(w) \/ Rename(w) \/ Announce(w) \/ ReportFailure(w)

Next ==
  \/ Validate \/ PutObject \/ CommitRows \/ Compensate \/ CrashUpload
  \/ StartAnalysis \/ Redeliver
  \/ \E w \in Workers :
       TakeDelivery(w) \/ WorkerStep(w) \/ WorkerFails(w) \/ WorkerDies(w)
  \/ LoadSnapshot \/ ScoreSnapshot

\* The consumers keep consuming; nothing is assumed of the request.
Fairness ==
  /\ \A w \in Workers : WF_vars(TakeDelivery(w)) /\ WF_vars(WorkerStep(w))
  /\ WF_vars(LoadSnapshot) /\ WF_vars(ScoreSnapshot)

Spec == Init /\ [][Next]_vars /\ Fairness
-----------------------------------------------------------------------------
Records == IF snapshot = None THEN {} ELSE Range(snapshot)
Features(r) == calculateFeatures(r, snapshot)
RiskScore(r) == calculateScore(Rules(r, Features(r)))
Raw(field) == {Cell(file.rows[k], columns(file.header), field) : k \in DOMAIN file.rows}

\* Return ids that differ in the file are the same once they are rewritten.
IdsMeet == \E a, b \in Raw("return_id") : a # b /\ Rewritten(a) = Rewritten(b)

TypeOK ==
  /\ budget \in Nat
  /\ upload \in {"validating", "rejected", "putting", "committing",
                 "compensating", "created", "failed"}
  /\ object \in BOOLEAN /\ row \in BOOLEAN
  /\ started \in BOOLEAN
  /\ pending \in Nat
  /\ \A w \in Workers : worker[w].at \in {"idle", "reading", "writing",
                                           "announcing", "failing"}
  /\ final = None \/ Len(final) <= MaxRows
  /\ events \in Seq(1..MaxRows)
  /\ scored => \A r \in Records : RiskScore(r) \in 0..100
  /\ failed \subseteq {"NORMALIZATION", "RELATIONS", "SCORING"}
  /\ happened \subseteq Faults

\* A registered dataset has its object unless the commit's answer was lost, and
\* an object without a dataset is left only by a lost answer of the store, a
\* failed deletion or a crash: UploadDatasetDetailed's compensation.
StoreMatchesDatabase ==
  upload \in {"rejected", "created", "failed"} =>
    /\ row /\ ~object => happened \cap {"commit"} # {}
    /\ object /\ ~row => happened \cap {"put", "delete", "crash"} # {}

\* What dataset.normalized announces is on the volume as a whole, whatever
\* another worker is writing at the time (the temporary file and its rename).
AnnouncedFileIsWhole ==
  \A n \in DOMAIN events : final # None /\ Loads(final, events[n])

\* A file that passed the upload's validation is normalized, loaded and scored:
\* the three readers of it agree.  Normalization fails only when return ids that
\* differ become the same, when the upload's lost commit took the object away, or
\* when the object or the disk fails; relations only when it cannot read the volume;
\* and scoring only on a record its types or its table cannot hold, which the upload
\* accepts, or when it is not given the snapshot or its database fails.
AcceptedIsScored ==
  /\ "NORMALIZATION" \in failed =>
       \/ IdsMeet
       \/ happened \cap {"commit", "store", "disk"} # {}
  /\ "RELATIONS" \in failed => "volume" \in happened
  /\ "SCORING" \in failed =>
       \/ \E r \in Records : ~Storable(r)
       \/ happened \cap {"inputs", "database"} # {}

\* A row the upload accepted and normalization left out was announced by a
\* warning, unless it repeats another only after its id was rewritten, or the
\* report had reached its limit (UploadDatasetDetailed's answer).
DropsAreWarned ==
  final # None =>
    \A j, k \in DOMAIN file.rows :
      j < k /\ NormalizedRow(file, j) = NormalizedRow(file, k) =>
      \/ [row |-> k, code |-> "DUPLICATE_ROW"] \in Range(Warnings(file))
      \/ IdsMeet
      \/ Len(Warnings(file)) = MaxErrors

\* What relations and scoring compare is as the upload accepted it: a decision
\* they know, a timestamp in the one layout or a date without a time, and an
\* order amount, unless it was under half a cent.
LoadedAsAccepted ==
  \A r \in Records :
    /\ r.status \in {"APPROVED", "DECLINED"}
    /\ r.timestamp \in {"RFC3339", "2006-01-02"}
    /\ r.orderAmount = 0 => \E amount \in Raw("order_amount") : amount < 5

\* Two computations that never meet agree: a related return of the features
\* is one of the graph, and being related is mutual (calculateFeatures and
\* relatedReturns, each with conditions of its own).
RelatedIsMutual ==
  \A r, q \in Records :
    /\ q.returnId \in Range(Features(r).topRelatedReturns) =>
         q \in AllRelated(r, snapshot)
    /\ q \in AllRelated(r, snapshot) => r \in AllRelated(q, snapshot)

\* A graph of at least seven nodes shows the selected return and both ends of
\* every edge: the related returns leave room for the six nodes of its own.  The
\* edges that lead to no related return are relations of the return as its own
\* page lists them.
GraphIsClosed ==
  \A r \in Records, limit \in 7..9 :
    LET nodes == GraphNodes(r, snapshot, limit)
    IN /\ <<"return", r.returnId>> \in nodes
       /\ \A edge \in GraphEdges(r, snapshot, limit) :
            /\ {edge[1], edge[3]} \subseteq nodes
            /\ edge[2] = "RELATED" \/ edge \in buildReturnRelations(r)

\* The features, the customer history, the behaviour summary and the agent
\* summary count the same records in code of their own and agree.  The override
\* count, which goes through a rounded rate, is cut off: below 200 decisions it is
\* short by one at most and never above, and each 200 more let it be off by another
\* one either way.  A customer's average ratio, rounded twice, is between the ratios
\* of the features.
AnalyticsAgree ==
  \A r \in Records :
    LET f == Features(r)
        history == buildCustomerHistory(r.customerId, snapshot)
        behavior == GetCustomerBehaviorSummary(r.customerId, snapshot)
        summary == buildAgentSummary(r.agentId, snapshot)
        overrides == Count(snapshot, LAMBDA q : q.agentId = r.agentId /\ q.override)
        ratios == {Features(q).refundAmountRatio :
                     q \in Those(snapshot, LAMBDA q : q.customerId = r.customerId)}
    IN /\ history.returnCount = f.customerReturnCount
       /\ history.approvedRefunds = f.customerApprovedRefundCount
       /\ history.linkedAgents[r.agentId] = f.customerAgentPairCount
       /\ behavior.averageRefundRatio \in Min(ratios)..Max(ratios)
       /\ behavior.totalRefundAmount >= r.refundAmount
       /\ summary.approvalRate = f.agentApprovalRate
       /\ summary.repeatedCustomerPairCount >= f.customerAgentPairCount
       /\ ManualOverrideCount(summary)
            \in (overrides - (summary.decisionsCount + 199) \div 200)
                ..(overrides + summary.decisionsCount \div 200)

\* The thresholds of scoring's rules and of the explanation signals of relations
\* are kept in two services: a rule about relations that fires has its signal,
\* except the approval rate between them.
RulesAreExplained ==
  \A r \in Records :
    LET f == Features(r)
        signals == explanationSignals(f)
        rules == Rules(r, f)
    IN /\ "CUSTOMER_FREQUENT_RETURNS" \in rules => "customer" \in signals
       /\ "REPEATED_AGENT_CUSTOMER_PAIR" \in rules => "pair" \in signals
       /\ "SUSPICIOUS_CLUSTER" \in rules => "cluster" \in signals
       /\ "FULL_AMOUNT_REFUND" \in rules => "ratio" \in signals
       /\ "AGENT_HIGH_APPROVAL_RATE" \in rules =>
            "rate" \in signals \/ f.agentApprovalRate \in 86..89

\* A dataset whose analysis was started is scored, or its failure reported.
UploadSettles == started ~> scored \/ failed # {}

\* The ranked analytics are deterministic: what the ranking says of an agent, its
\* top category with the rest, does not change from one request to the next.
AnalyticsDeterministic ==
  snapshot # None =>
    \A sortBy \in {"averageClusterSize", "approvalRate", "manualOverrideRate"} :
      \A agent \in Range(GetRankedAgents(snapshot, 10, sortBy)) :
        Cardinality(TopCategories(agent, snapshot)) = 1
=============================================================================
