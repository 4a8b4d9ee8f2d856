------------------------------ MODULE ScoringRuns ------------------------------
(***************************************************************************)
(* The scoring service's calculations of one dataset, composed with the    *)
(* relations service that feeds it.  A replica runs a listener thread and  *)
(* request threads, serialised per dataset by a lock of the process; the   *)
(* replicas share only the database, whose steps are separate actions.     *)
(***************************************************************************)
EXTENDS RelationsService

CONSTANTS Replicas, \* processes of the service
          Free, NoEvent

ASSUME ScoringAssumption ==
  /\ IsFiniteSet(Replicas)
  /\ Free \notin {"listener", "http"}
  /\ NoEvent \notin [job: Jobs \cup {RebuildJob}, ver: 1..MaxLoads]

VARIABLES
  calcs,  \* scoring_calculations with their event, by calculation version
  thread, \* per replica and thread, what it is doing
  lock    \* per replica, the thread that holds the dataset's lock

scoVars == <<calcs, thread, lock>>
vars == <<relVars, scoVars>>

Threads == Replicas \X {"listener", "http"}
Steps == {"idle", "waiting", "loading", "checking", "versioning", "inserting",
          "reporting", "failing"}
Idle == [at |-> "idle", event |-> NoEvent, held |-> FALSE, only |-> FALSE,
         ver |-> 0, next |-> 0]

\* findProcessedEvent: the event's row is in the database.
Processed(event) ==
  event # NoEvent /\ \E i \in 1..Len(calcs) : calcs[i].event = event

\* The thread goes on to another step, keeping or giving back the lock.
Move(t, to) == thread' = [thread EXCEPT ![t].at = to]
Keep == UNCHANGED lock
Release(t) == lock' = [lock EXCEPT ![t[1]] = Free]

\* Where a call ends: a listener, with nothing left but its delivery, still
\* reports; a request answers and is done.
Ended(t, to) ==
  thread' = IF t[2] = "listener"
            THEN [thread EXCEPT ![t].at = to, ![t].ver = 0, ![t].next = 0]
            ELSE [thread EXCEPT ![t] = Idle]

\* Mutant: deliveries are acknowledged when they are received.
ReturnedNone(t) == built

\* The queue when the thread's delivery, if the broker still has it, returns.
Returned(t) == IF thread[t].held THEN <<thread[t].event>> \o built ELSE built

ScoInit ==
  /\ calcs = <<>>
  /\ thread = [t \in Threads |-> Idle]
  /\ lock = [r \in Replicas |-> Free]

Init == RelInit /\ ScoInit

-----------------------------------------------------------------------------
\* The topology is declared when the service is ready.
BindQueue ==
  /\ ~bound /\ bound' = TRUE
  /\ UNCHANGED <<snap, clock, readable, records, connected, inbox, handling,
                 rebuild, rebuilds, built, outcome, happened, faults, scoVars>>

TakeEvent(r) ==
  /\ built # <<>>
  /\ thread[<<r, "listener">>] = Idle
  /\ thread' = [thread EXCEPT ![<<r, "listener">>] =
                  [Idle EXCEPT !.at = "waiting", !.event = Head(built),
                               !.held = TRUE]]
  /\ built' = Tail(built)
  /\ UNCHANGED <<snap, clock, readable, records, connected, inbox, handling,
                 rebuild, rebuilds, bound, outcome, happened, faults, calcs,
                 lock>>

\* A request: recalculate, or (only) a view of results there are none of.
Request(r, only) ==
  /\ thread[<<r, "http">>] = Idle
  /\ only => calcs = <<>>
  /\ Fault("recalculate")
  /\ thread' = [thread EXCEPT ![<<r, "http">>] =
                  [Idle EXCEPT !.at = "waiting", !.only = only]]
  /\ UNCHANGED <<snap, clock, readable, records, connected, inbox, handling,
                 rebuild, rebuilds, bound, built, outcome, calcs, lock>>

\* Mutant: no lock per dataset.
LockNever(t) == TRUE

\* The lock of the dataset in this replica is free.
LockFree(t) == lock[t[1]] = Free

\* The call of GET scoring-inputs fails: no connection, an answer in the 400s or
\* 500s, an empty one, or one that breaks the contract.
CallFails == Fault("inputs")

\* A statement of the database, the commit included, fails.
StatementFails == Fault("database")

\* The run is given up, and the lock with it.
GivenUp(t) == Ended(t, "failing") /\ Release(t)

\* With the lock: an event already processed, or results that have come into
\* being for a view, end the call, as a query that fails does.
Enter(t) ==
  /\ thread[t].at = "waiting"
  /\ LockFree(t)
  /\ \/ /\ IF Processed(thread[t].event) \/ (thread[t].only /\ calcs # <<>>)
           THEN Ended(t, "reporting") /\ Keep
           ELSE Move(t, "loading") /\ lock' = [lock EXCEPT ![t[1]] = t[2]]
        /\ NoFault
     \/ /\ thread[t].event # NoEvent \/ thread[t].only
        /\ StatementFails
        /\ Ended(t, "failing") /\ Keep
  /\ UNCHANGED <<workVars, calcs>>

\* The snapshot relations holds now is the one the event announced.
Announced(event, ver) == event # NoEvent => event.ver = ver

\* GET scoring-inputs: 404 without a snapshot; the records must be such as the
\* response class can hold, and an event must find its version.
LoadInputs(t) ==
  /\ thread[t].at = "loading"
  /\ \/ /\ IF /\ snap > 0 /\ records # "unparsable"
              /\ Announced(thread[t].event, snap)
           THEN /\ thread' = [thread EXCEPT ![t].at = "checking",
                                            ![t].ver = snap]
                /\ Keep
           ELSE GivenUp(t)
        /\ NoFault
     \/ CallFails /\ GivenUp(t)
  /\ UNCHANGED <<workVars, calcs>>

\* saveRun begins its transaction: the event is looked up again.
CheckAgain(t) ==
  /\ thread[t].at = "checking"
  /\ \/ /\ IF Processed(thread[t].event)
           THEN Ended(t, "reporting") /\ Release(t)
           ELSE Move(t, "versioning") /\ Keep
        /\ NoFault
     \/ StatementFails /\ GivenUp(t)
  /\ UNCHANGED <<workVars, calcs>>

\* latestVersion, a statement of its own in the same transaction.
ReadVersion(t) ==
  /\ thread[t].at = "versioning"
  /\ \/ /\ thread' = [thread EXCEPT ![t].at = "inserting",
                                   ![t].next = Len(calcs) + 1]
        /\ Keep /\ NoFault
     \/ StatementFails /\ GivenUp(t)
  /\ UNCHANGED <<workVars, calcs>>

\* Mutant: scoring_processed_events has no key.
UniqueVersion(event, version) == version \notin 1..Len(calcs)

\* The keys of scoring_calculations and scoring_processed_events.
Unique(event, version) == version \notin 1..Len(calcs) /\ ~Processed(event)

\* Mutant: a key that is taken always means a duplicate.
OnConflictDuplicate(event) == "reporting"

\* Mutant: a key that is taken is always a failure.
OnConflictFailure(event) == "failing"

\* A key is taken: by another delivery of the event, which then is a duplicate,
\* or by another calculation, and the run fails.
OnConflict(event) == IF Processed(event) THEN "reporting" ELSE "failing"

\* The rows of the thread's run are all inserted, and committed.
Insertable(t) == /\ records # "unstorable"
                 /\ Unique(thread[t].event, thread[t].next)
StoreRun(t) ==
  calcs' = Append(calcs, [event |-> thread[t].event, ver |-> thread[t].ver,
                          by |-> t[1]])

\* The transaction commits; one of its inserts meets a key that is taken, or a
\* column that cannot hold the value; or a statement fails, the commit perhaps
\* after it has taken effect.
SaveRun(t) ==
  /\ thread[t].at = "inserting"
  /\ \/ Insertable(t) /\ StoreRun(t) /\ Ended(t, "reporting") /\ NoFault
     \/ /\ ~Insertable(t)
        /\ Ended(t, IF records = "unstorable" THEN "failing"
                    ELSE OnConflict(thread[t].event))
        /\ UNCHANGED calcs /\ NoFault
     \/ /\ StatementFails
        /\ Ended(t, "failing")
        /\ UNCHANGED calcs \/ (Insertable(t) /\ StoreRun(t))
  /\ Release(t)
  /\ UNCHANGED workVars

\* scoring.completed; when it cannot be published the catch block reports a
\* failure of the run that was stored.
ReportCompleted(r) == LET t == <<r, "listener">> IN
  /\ thread[t].at = "reporting"
  /\ \/ /\ Settle(thread[t].event.job, "COMPLETED")
        /\ thread' = [thread EXCEPT ![t] = Idle]
        /\ NoFault
     \/ Fault("publish") /\ Move(t, "failing") /\ UNCHANGED outcome
  /\ UNCHANGED <<snap, clock, readable, records, connected, inbox, handling,
                 rebuild, rebuilds, bound, built, calcs, lock>>

\* pipeline.failed; when it cannot be published the delivery is requeued.
ReportFailed(r) == LET t == <<r, "listener">> IN
  /\ thread[t].at = "failing"
  /\ \/ Settle(thread[t].event.job, "FAILED") /\ NoFault /\ UNCHANGED built
     \/ /\ Fault("publish")
        /\ built' = Returned(t)
        /\ UNCHANGED outcome
  /\ thread' = [thread EXCEPT ![t] = Idle]
  /\ UNCHANGED <<snap, clock, readable, records, connected, inbox, handling,
                 rebuild, rebuilds, bound, calcs, lock>>

\* A replica loses its channel: its delivery comes back, to any replica, and
\* the thread that has it goes on.
LoseChannel(r) == LET t == <<r, "listener">> IN
  /\ thread[t].held
  /\ Fault("redeliver")
  /\ built' = Returned(t)
  /\ thread' = [thread EXCEPT ![t].held = FALSE]
  /\ UNCHANGED <<snap, clock, readable, records, connected, inbox, handling,
                 rebuild, rebuilds, bound, outcome, calcs, lock>>

\* A replica dies: its lock goes with it, its delivery comes back.
Crash(r) == LET t == <<r, "listener">> IN
  /\ Fault("crash")
  /\ \E th \in {t, <<r, "http">>} : thread[th] # Idle
  /\ built' = Returned(t)
  /\ thread' = [thread EXCEPT ![t] = Idle, ![<<r, "http">>] = Idle]
  /\ lock' = [lock EXCEPT ![r] = Free]
  /\ UNCHANGED <<snap, clock, readable, records, connected, inbox, handling,
                 rebuild, rebuilds, bound, outcome, calcs>>

\* The broker restarts: the deliveries in scoring's hands are gone with the rest.
RestartBroker ==
  /\ BrokerRestarts
  /\ thread' = [t \in Threads |-> [thread[t] EXCEPT !.held = FALSE]]
  /\ UNCHANGED <<calcs, lock>>

ThreadStep(t) == Enter(t) \/ LoadInputs(t) \/ CheckAgain(t)
                 \/ ReadVersion(t) \/ SaveRun(t)
ListenerStep(r) == \/ ThreadStep(<<r, "listener">>)
                   \/ ReportCompleted(r) \/ ReportFailed(r)

ScoNext ==
  \/ BindQueue
  \/ \E r \in Replicas : TakeEvent(r) \/ LoseChannel(r) \/ Crash(r)
  \/ \E r \in Replicas, only \in BOOLEAN : Request(r, only)
  \/ \E t \in Threads : ThreadStep(t)
  \/ \E r \in Replicas : ReportCompleted(r) \/ ReportFailed(r)

Next == \/ RelNext /\ UNCHANGED scoVars
        \/ RestartBroker
        \/ ScoNext

\* What the consumer's goroutine of relations does with its deliveries.
ConsumerStep == \/ Receive \/ LoadDataset \/ LoadFails
                \/ PublishBuilt \/ AckNormalized

\* Both services keep consuming, relations only while it has a connection.
Fairness ==
  /\ WF_vars(ConsumerStep /\ UNCHANGED scoVars)
  /\ \A r \in Replicas : /\ WF_vars(TakeEvent(r) \/ ListenerStep(r))
                         /\ WF_vars(ThreadStep(<<r, "http">>))

Spec == Init /\ [][Next]_vars /\ Fairness
-----------------------------------------------------------------------------
Counted == 0..MaxLoads

TypeOK ==
  /\ snap \in Counted /\ clock \in Counted /\ rebuild \in Counted
  /\ readable \in BOOLEAN /\ connected \in BOOLEAN /\ bound \in BOOLEAN
  /\ inbox \in Seq(Jobs)
  /\ records \in Suitable
  /\ handling \in [job: Jobs \cup {RebuildJob}, ver: Counted, sent: BOOLEAN]
  /\ rebuilds \in 0..MaxRebuilds
  /\ built \in Seq(Event)
  /\ outcome \in [Jobs -> {"unsent", "pending", "COMPLETED", "FAILED"}]
  /\ happened \subseteq Faults /\ faults \in 0..MaxFaults
  /\ calcs \in Seq([event: Event \cup {NoEvent}, ver: 1..MaxLoads, by: Replicas])
  /\ thread \in [Threads -> [at: Steps, event: Event \cup {NoEvent},
                             held: BOOLEAN, only: BOOLEAN, ver: Counted, next: Nat]]
  /\ lock \in [Replicas -> {Free, "listener", "http"}]

\* However deliveries are duplicated, returned by a crash or raced by another
\* replica, the calculations are a ledger: one entry per event at most, with
\* the features the event announced (saveRun's keys and the version check).
Ledger == INSTANCE ScoringLedger WITH
            Keys <- Event, NoKey <- NoEvent, Versions <- 1..MaxLoads,
            ledger <- [i \in 1..Len(calcs) |->
                         [key |-> calcs[i].event, ver |-> calcs[i].ver]]
LedgerSpec == Ledger!LSpec

\* A job the lifecycle shows COMPLETED has its results in the database
\* (RelationsBuiltConsumer reports only after the run is stored).
CompletedHasRun ==
  \A j \in Jobs : outcome[j] = "COMPLETED" =>
    \E i \in 1..Len(calcs) : calcs[i].event # NoEvent /\ calcs[i].event.job = j

\* A job fails only when its records do not suit scoring, a copy replaced its
\* snapshot, its file was lost, a restart of relations lost the snapshot, an event
\* could not be published, the call of relations or a statement of the database
\* failed, or another replica's calculation took the version number.  A crash of
\* scoring, a delivery made twice, a broker restart or a lost connection, however
\* many of them, never turns into a failure.
FailedHasCause ==
  \A j \in Jobs : outcome[j] = "FAILED" =>
    \/ records # "fit"
    \/ happened \cap {"copy", "unreadable", "restart", "publish", "inputs",
                     "database"} # {}
    \/ Cardinality(Replicas) > 1 /\ ("recalculate" \in happened \/ rebuilds > 0)

\* The runs of one replica never go back to older features: its lock covers
\* the step from loading the snapshot to storing the run.
FeaturesAdvance ==
  \A i, j \in 1..Len(calcs) :
    i < j /\ calcs[i].by = calcs[j].by => calcs[i].ver <= calcs[j].ver

\* A delivery of the job waits, or is handled but not announced yet.
Awaited(j) == \/ handling.job = j /\ ~handling.sent
              \/ \E i \in DOMAIN inbox : inbox[i] = j

\* A delivery that is awaited when scoring has bound its queue is settled, unless
\* the broker restarts or relations loses a connection it never reopens.
DeliveriesSettle ==
  \A j \in Jobs :
    bound /\ outcome[j] = "pending" /\ Awaited(j)
      ~> outcome[j] # "pending" \/ happened \cap {"broker", "disconnect"} # {}
=============================================================================
