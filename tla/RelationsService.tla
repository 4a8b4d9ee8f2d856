--------------------------- MODULE RelationsService ---------------------------
(***************************************************************************)
(* The relations service for one dataset: the snapshot it keeps in memory, *)
(* the goroutine that consumes dataset.normalized, the HTTP rebuild, and   *)
(* the queue of refund.relations.built events that scoring reads.          *)
(* Datasets share no state but the map entry of their own id, so one is    *)
(* enough.  A snapshot is represented by its feature version: the records  *)
(* are those of the dataset's normalized file, the version is the time     *)
(* (UnixNano) of the load, so a later load has a larger one.               *)
(***************************************************************************)
EXTENDS Integers, Sequences, FiniteSets

CONSTANTS
  Jobs,        \* analysis jobs of the dataset (UUIDs)
  RebuildJob,  \* the job id of a rebuild, relations-job-<datasetId>: not a UUID
  MaxLoads,    \* bound: loads of the file, hence feature versions
  MaxRebuilds, \* bound: rebuild requests
  MaxFaults    \* bound: faults, of whatever kinds, and rebuild requests together

Faults == {"copy", "broker", "unreadable", "disconnect", "restart", "crash",
           "publish", "recalculate", "redeliver", "inputs", "database"}

ASSUME RelationsAssumption ==
  /\ RebuildJob \notin Jobs
  /\ MaxLoads \in Nat /\ MaxRebuilds \in Nat
  /\ MaxFaults \in Nat

VARIABLES
  snap,      \* feature version of the snapshot in memory, 0 when there is none
  clock,     \* the last feature version handed out
  readable,  \* the normalized file loads with the announced record count
  records,   \* what scoring can do with its records, see Suitable
  connected, \* the broker connection of the service, never re-established
  inbox,     \* relations.dataset-normalized.queue: the job of each delivery
  handling,  \* the delivery being handled, ver = 0 until it is loaded, sent
             \* once relations.built is out
  rebuild,   \* the version a rebuild request has cloned, 0 when there is none
  rebuilds,  \* rebuild requests so far
  bound,     \* scoring has bound its queue to the exchange
  built,     \* scoring.refund-relations-built.queue
  outcome,   \* per job, the first terminal event published for it
  happened,  \* the kinds of faults that have happened
  faults     \* how many faults that was

workVars == <<snap, clock, readable, records, connected, inbox, handling,
              rebuild, rebuilds, bound, built, outcome>>
relVars == <<workVars, happened, faults>>

Event == [job: Jobs \cup {RebuildJob}, ver: 1..MaxLoads]
NoDelivery == [job |-> RebuildJob, ver |-> 0, sent |-> FALSE]

\* What the file's values are to scoring: they fit; the response with them is no
\* RelationsScoringInputs (minutes beyond an Int); or a column of
\* scoring_results cannot hold one of them.
Suitable == {"fit", "unparsable", "unstorable"}

\* Bound: what else may come between a file and its scores.
MoreMayHappen == faults + rebuilds < MaxFaults

\* A fault of a kind: any kind may come again.
Fault(kind) == /\ MoreMayHappen
               /\ faults' = faults + 1
               /\ happened' = happened \cup {kind}
NoFault == UNCHANGED <<happened, faults>>

\* The lifecycle queue is read in order and a terminal job ignores what
\* follows, so the first terminal event decides.  A rebuild's job id is not a
\* UUID: its events are rejected and decide nothing.
Settle(job, status) ==
  outcome' = IF job \in Jobs /\ outcome[job] = "pending"
             THEN [outcome EXCEPT ![job] = status] ELSE outcome

\* A publication reaches the queues bound at that moment, and is neither
\* persistent nor confirmed.
Deliver(event) == built' = IF bound THEN Append(built, event) ELSE built

RelInit ==
  /\ snap = 0 /\ clock = 0 /\ readable = TRUE /\ connected = TRUE
  /\ records \in Suitable
  /\ inbox = <<>> /\ handling = NoDelivery
  /\ rebuild = 0 /\ rebuilds = 0
  /\ bound = FALSE /\ built = <<>>
  /\ outcome = [j \in Jobs |-> "unsent"]
  /\ happened = {} /\ faults = 0

-----------------------------------------------------------------------------
\* The upload service publishes dataset.normalized for a job; a retry job is
\* only created once the dataset's last job has failed.
SendNormalized(job) ==
  /\ outcome[job] = "unsent"
  /\ \A other \in Jobs : outcome[other] \in {"unsent", "FAILED"}
  /\ outcome' = [outcome EXCEPT ![job] = "pending"]
  /\ inbox' = Append(inbox, job)
  /\ UNCHANGED <<snap, clock, readable, records, connected, handling,
                 rebuild, rebuilds, bound, built, happened, faults>>

\* The upload consumer's retry goes back to the exchange: the relations queue,
\* bound to the same routing key, gets a second copy.
CopyNormalized(job) ==
  /\ outcome[job] # "unsent"
  /\ Fault("copy")
  /\ inbox' = Append(inbox, job)
  /\ UNCHANGED <<snap, clock, readable, records, connected, handling,
                 rebuild, rebuilds, bound, built, outcome>>

Receive ==
  /\ connected /\ handling = NoDelivery /\ inbox # <<>>
  /\ handling' = [job |-> Head(inbox), ver |-> 0, sent |-> FALSE]
  /\ inbox' = Tail(inbox)
  /\ UNCHANGED <<snap, clock, readable, records, connected, rebuild,
                 rebuilds, bound, built, outcome, happened, faults>>

\* loadDatasetFromPath and replaceDataset: every load is a new version.
LoadDataset ==
  /\ handling.job \in Jobs /\ handling.ver = 0
  /\ readable /\ clock < MaxLoads
  /\ clock' = clock + 1
  /\ snap' = clock'
  /\ handling' = [handling EXCEPT !.ver = clock']
  /\ UNCHANGED <<readable, records, connected, inbox, rebuild, rebuilds,
                 bound, built, outcome, happened, faults>>

\* A failed load keeps the snapshot, publishes pipeline.failed and requeues
\* the delivery, which comes back after those the broker has pushed already
\* (the consumer sets no prefetch limit).  Without a connection both calls
\* fail, and the broker has requeued the delivery before.
LoadFails ==
  /\ handling.job \in Jobs /\ handling.ver = 0
  /\ ~readable
  /\ IF connected THEN /\ Settle(handling.job, "FAILED")
                       /\ inbox' = Append(inbox, handling.job)
                  ELSE UNCHANGED <<inbox, outcome>>
  /\ handling' = NoDelivery
  /\ UNCHANGED <<snap, clock, readable, records, connected, rebuild,
                 rebuilds, bound, built, happened, faults>>

\* relations.built is published.  Without a connection that fails, and so does
\* the attempt to requeue the delivery.
PublishBuilt ==
  /\ handling.ver > 0 /\ ~handling.sent
  /\ IF connected
     THEN /\ Deliver([job |-> handling.job, ver |-> handling.ver])
          /\ handling' = [handling EXCEPT !.sent = TRUE]
     ELSE handling' = NoDelivery /\ UNCHANGED built
  /\ UNCHANGED <<snap, clock, readable, records, connected, inbox, rebuild,
                 rebuilds, bound, outcome, happened, faults>>

\* Then the delivery is acknowledged: until it is, it may come back.
AckNormalized ==
  /\ handling.sent
  /\ handling' = NoDelivery
  /\ UNCHANGED <<snap, clock, readable, records, connected, inbox, rebuild,
                 rebuilds, bound, built, outcome, happened, faults>>

\* POST rebuild: the state is cloned under the lock, and published after it.
BeginRebuild ==
  /\ snap > 0 /\ rebuild = 0 /\ rebuilds < MaxRebuilds /\ MoreMayHappen
  /\ rebuild' = snap
  /\ rebuilds' = rebuilds + 1
  /\ UNCHANGED <<snap, clock, readable, records, connected, inbox, handling,
                 bound, built, outcome, happened, faults>>

\* Without a connection the publication fails and the request answers 500.
EndRebuild ==
  /\ rebuild > 0
  /\ IF connected THEN Deliver([job |-> RebuildJob, ver |-> rebuild])
                  ELSE UNCHANGED built
  /\ rebuild' = 0
  /\ UNCHANGED <<snap, clock, readable, records, connected, inbox, handling,
                 rebuilds, bound, outcome, happened, faults>>

-----------------------------------------------------------------------------
\* The shared volume: the file cannot be read for a while.
FileLost ==
  /\ readable /\ Fault("unreadable") /\ readable' = FALSE
  /\ UNCHANGED <<snap, clock, records, connected, inbox, handling, rebuild,
                 rebuilds, bound, built, outcome>>

FileRestored ==
  /\ ~readable /\ readable' = TRUE
  /\ UNCHANGED <<snap, clock, records, connected, inbox, handling, rebuild,
                 rebuilds, bound, built, outcome, happened, faults>>

\* Mutant: a delivery comes back although none is unacknowledged.
RequeuedAlways == <<handling.job>> \o inbox

\* The queue when the unacknowledged delivery comes back to its head.
Requeued == IF connected /\ handling # NoDelivery
            THEN <<handling.job>> \o inbox ELSE inbox

\* The delivery channel closes: the goroutine ends without an error once it is
\* done with what it holds, and the service goes on serving HTTP.
Disconnect ==
  /\ connected /\ Fault("disconnect")
  /\ connected' = FALSE
  /\ inbox' = Requeued
  /\ UNCHANGED <<snap, clock, readable, records, handling, rebuild, rebuilds,
                 bound, built, outcome>>

\* The broker restarts: the connection ends too, and the events of relations,
\* not persistent, are gone.
BrokerRestarts ==
  /\ Fault("broker")
  /\ connected' = FALSE
  /\ inbox' = Requeued
  /\ built' = <<>>
  /\ UNCHANGED <<snap, clock, readable, records, handling, rebuild, rebuilds,
                 bound, outcome>>

\* The snapshots are in memory only; an unacknowledged delivery comes back.
RestartRelations ==
  /\ Fault("restart")
  /\ snap' = 0 /\ rebuild' = 0 /\ connected' = TRUE
  /\ inbox' = Requeued
  /\ handling' = NoDelivery
  /\ UNCHANGED <<clock, readable, records, rebuilds, bound, built, outcome>>

RelNext ==
  \/ \E job \in Jobs : SendNormalized(job) \/ CopyNormalized(job)
  \/ Receive \/ LoadDataset \/ LoadFails \/ PublishBuilt
  \/ AckNormalized
  \/ BeginRebuild \/ EndRebuild
  \/ FileLost \/ FileRestored
  \/ Disconnect \/ RestartRelations
=============================================================================
