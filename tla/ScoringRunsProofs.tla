--------------------------- MODULE ScoringRunsProofs ---------------------------
(* The safety of ScoringRuns, for every set of jobs and of replicas and    *)
(* every bound, and that its calculations are the promised ledger.         *)
EXTENDS ScoringRuns, SequenceTheorems, FiniteSetTheorems, TLAPS

-----------------------------------------------------------------------------
(* The invariant.                                                          *)

\* The jobs whose dataset.normalized was sent; the events that relations can have
\* published so far; what a calculation can have been made for.
Sent == {j \in Jobs : outcome[j] # "unsent"}
Known == [job : Sent \cup {j \in {RebuildJob} : rebuilds > 0}, ver : 1..clock]
Asked == Known \cup {e \in {NoEvent} : "recalculate" \in happened}
Calculation == [event : Asked, ver : 1..clock, by : Replicas]
ThreadRow == [at : Steps, event : Known \cup {NoEvent}, held : BOOLEAN, only : BOOLEAN,
              ver : 0..clock, next : Nat]
Deliveries == [job : Sent, ver : 0..clock, sent : BOOLEAN] \cup {NoDelivery}
FaultsOK == happened \subseteq Faults /\ faults \in 0..MaxFaults

\* The relations service: a snapshot is the last load, lost only by a restart.
RelationsOK ==
  /\ clock \in Counted /\ snap \in {0, clock} /\ rebuild \in 0..clock
  /\ rebuilds \in 0..MaxRebuilds /\ (rebuild > 0 => rebuilds > 0)
  /\ readable \in BOOLEAN /\ connected \in BOOLEAN /\ bound \in BOOLEAN
  /\ inbox \in Seq(Sent)
  /\ handling \in Deliveries
  /\ built \in Seq(Known)
  /\ outcome \in [Jobs -> {"unsent", "pending", "COMPLETED", "FAILED"}]
  /\ records \in Suitable /\ FaultsOK
  /\ clock > 0 => Sent # {}
  /\ "restart" \notin happened => snap = clock
  /\ ~readable => "unreadable" \in happened

Locked == {"loading", "checking", "versioning", "inserting"}
Loaded == {"checking", "versioning", "inserting"}

\* A thread between Enter and the end of its call holds its replica's lock, so no
\* calculation of its replica has newer features than the ones it has loaded, nor
\* a version number from the one it has read on.
ThreadOK(t) ==
  LET s == thread[t] IN
  /\ s \in ThreadRow
  /\ t[2] = "listener" =>
       /\ s.only = FALSE /\ (s.at # "idle" \/ s.held => s.event # NoEvent)
       /\ s.at = "reporting" => Processed(s.event)
  /\ t[2] = "http" =>
       /\ s.event = NoEvent /\ s.held = FALSE /\ s.at \notin {"reporting", "failing"}
       /\ s.at # "idle" => "recalculate" \in happened
  /\ s.at \in Locked <=> lock[t[1]] = t[2]
  /\ s.at \in Loaded =>
       /\ s.ver >= 1 /\ Announced(s.event, s.ver)
       /\ \A i \in 1..Len(calcs) : calcs[i].by = t[1] => calcs[i].ver <= s.ver
  /\ s.at = "inserting" =>
       /\ s.next \in 1..Len(calcs) + 1
       /\ \A i \in s.next..Len(calcs) : calcs[i].by # t[1]

ScoringOK ==
  /\ calcs \in Seq(Calculation)
  /\ thread \in [Threads -> ThreadRow]
  /\ lock \in [Replicas -> {Free, "listener", "http"}]
  /\ \A t \in Threads : ThreadOK(t)

\* As long as nothing has happened that may fail a job, and nothing of its file can, one job at most was sent
\* and its file was loaded once, so every event names the one snapshot there is.
Causes == {"copy", "unreadable", "restart", "publish", "inputs", "database"}
Quiet ==
  /\ records = "fit"
  /\ \A f \in Causes : f \notin happened
  /\ Cardinality(Replicas) > 1 => "recalculate" \notin happened /\ rebuilds = 0
QuietOK ==
  Quiet =>
    /\ \A j \in Jobs : outcome[j] # "FAILED"
    /\ \A r \in Replicas : thread[<<r, "listener">>].at # "failing"
    /\ \A i, j \in Sent : i = j
    /\ clock <= 1
    /\ handling # NoDelivery /\ handling.ver = 0 => clock = 0 /\ (connected => inbox = <<>>)
    /\ connected /\ inbox # <<>> => clock = 0 /\ Len(inbox) = 1 /\ handling = NoDelivery

IInv == RelationsOK /\ ScoringOK /\ QuietOK /\ CompletedHasRun /\ FeaturesAdvance

-----------------------------------------------------------------------------
(* What only grows, and what is kept when it does.                         *)

Grows ==
  /\ clock \in Nat /\ clock' \in Nat /\ clock <= clock'
  /\ rebuilds \in Nat /\ rebuilds' \in Nat /\ rebuilds <= rebuilds'
  /\ Sent \subseteq Sent' /\ happened \subseteq happened' /\ records' = records

LEMMA SetsGrow ==
  ASSUME Grows
  PROVE  /\ Known \subseteq Known' /\ Asked \subseteq Asked'
         /\ Calculation \subseteq Calculation' /\ ThreadRow \subseteq ThreadRow'
         /\ Quiet' => Quiet
<1>1. /\ clock \in Nat /\ clock' \in Nat /\ clock <= clock'
      /\ rebuilds \in Nat /\ rebuilds' \in Nat /\ rebuilds <= rebuilds'
      /\ Sent \subseteq Sent' /\ happened \subseteq happened' /\ records' = records
  BY DEF Grows
<1>2. 1..clock \subseteq 1..clock' /\ 0..clock \subseteq 0..clock' /\ (rebuilds > 0 => rebuilds' > 0)
  BY <1>1
<1>3. Sent \cup {j \in {RebuildJob} : rebuilds > 0} \subseteq
        Sent' \cup {j \in {RebuildJob} : rebuilds' > 0}
  BY <1>1, <1>2
<1>4. Known \subseteq Known'
  BY <1>2, <1>3 DEF Known
<1>5. Asked \subseteq Asked'
  BY <1>1, <1>4 DEF Asked
<1>6. Calculation \subseteq Calculation'
  BY <1>2, <1>5 DEF Calculation
<1>7. ThreadRow \subseteq ThreadRow'
  BY <1>2, <1>4 DEF ThreadRow
<1>8. Quiet' => Quiet
  BY <1>1 DEF Quiet
<1>9. QED
  BY <1>4, <1>5, <1>6, <1>7, <1>8

LEMMA Carried ==
  ASSUME RelationsOK, Grows
  PROVE  /\ inbox \in Seq(Sent') /\ built \in Seq(Known')
         /\ handling \in Deliveries'
         /\ Sent # {} => Sent' # {}
<1>1. inbox \in Seq(Sent) /\ built \in Seq(Known)
      /\ handling \in Deliveries
  BY DEF RelationsOK
<1>2. Sent \subseteq Sent' /\ 0..clock \subseteq 0..clock'
  BY DEF Grows
<1>3. inbox \in Seq(Sent')
  BY <1>1, <1>2, SeqMonotonic
<1>4. built \in Seq(Known')
  BY <1>1, SetsGrow, SeqMonotonic
<1>5. handling \in Deliveries'
  BY <1>1, <1>2 DEF Deliveries
<1>6. QED
  BY <1>2, <1>3, <1>4, <1>5

\* Of the numbers and sets that Grows speaks of, most steps change none.
LEMMA Still ==
  ASSUME RelationsOK, UNCHANGED <<clock, rebuilds, outcome, records>>, happened \subseteq happened'
  PROVE  Grows /\ Sent' = Sent
BY RelationsAssumption DEF Grows, Sent, RelationsOK, Counted

\* A fault is one more, of a kind there is.
LEMMA FaultCounted ==
  ASSUME FaultsOK, rebuilds \in 0..MaxRebuilds, NoFault \/ \E f \in Faults : Fault(f)
  PROVE  FaultsOK' /\ happened \subseteq happened'
<1>1. CASE NoFault
  BY <1>1 DEF NoFault, FaultsOK
<1>2. ASSUME NEW f \in Faults, Fault(f)
      PROVE  FaultsOK' /\ happened \subseteq happened'
  BY <1>2, RelationsAssumption DEF Fault, MoreMayHappen, FaultsOK
<1>3. QED
  BY <1>1, <1>2

LEMMA Settled ==
  ASSUME RelationsOK, NEW job, NEW status \in {"COMPLETED", "FAILED"}, Settle(job, status)
  PROVE  /\ outcome' \in [Jobs -> {"unsent", "pending", "COMPLETED", "FAILED"}]
         /\ Sent' = Sent
         /\ \A j \in Jobs : outcome'[j] # outcome[j] => j = job /\ outcome'[j] = status
<1>1. outcome \in [Jobs -> {"unsent", "pending", "COMPLETED", "FAILED"}]
  BY DEF RelationsOK
<1>2. CASE UNCHANGED outcome
  BY <1>1, <1>2 DEF Sent
<1>3. CASE /\ job \in Jobs /\ outcome[job] = "pending"
           /\ outcome' = [outcome EXCEPT ![job] = status]
  <2>1. outcome' \in [Jobs -> {"unsent", "pending", "COMPLETED", "FAILED"}]
    BY <1>1, <1>3
  <2>2. \A j \in Jobs : outcome'[j] = IF j = job THEN status ELSE outcome[j]
    BY <1>1, <1>3
  <2>3. Sent' = Sent
    BY <1>3, <2>2 DEF Sent
  <2>4. QED
    BY <2>1, <2>2, <2>3
<1>4. QED
  BY <1>2, <1>3 DEF Settle

\* The queue of events stays one of known events.
LEMMA Delivered ==
  ASSUME RelationsOK, NEW event \in Known, Deliver(event)
  PROVE  built' \in Seq(Known)
<1>1. built \in Seq(Known)
  BY DEF RelationsOK
<1>2. Append(built, event) \in Seq(Known)
  BY <1>1, AppendProperties
<1>3. QED
  BY <1>1, <1>2 DEF Deliver

LEMMA RequeuedInbox ==
  ASSUME RelationsOK
  PROVE  Requeued \in Seq(Sent)
<1>1. inbox \in Seq(Sent) /\ handling \in Deliveries
  BY DEF RelationsOK
<1>2. ASSUME handling # NoDelivery
      PROVE  <<handling.job>> \o inbox \in Seq(Sent)
  <2>1. <<handling.job>> \in Seq(Sent)
    BY <1>1, <1>2 DEF Deliveries
  <2>2. QED
    BY <1>1, <2>1, ConcatProperties
<1>3. QED
  BY <1>1, <1>2 DEF Requeued

-----------------------------------------------------------------------------
(* The relations side of every step.                                       *)

LEMMA RelationsSend ==
  ASSUME RelationsOK, NEW job \in Jobs, SendNormalized(job) \/ CopyNormalized(job)
  PROVE  RelationsOK' /\ Grows
<1>1. /\ UNCHANGED <<snap, clock, readable, records, connected, handling, rebuild, rebuilds,
                     bound, built>>
      /\ inbox' = Append(inbox, job)
      /\ FaultsOK' /\ happened \subseteq happened'
  BY FaultCounted DEF SendNormalized, CopyNormalized, NoFault, RelationsOK, Faults
<1>2. /\ outcome' \in [Jobs -> {"unsent", "pending", "COMPLETED", "FAILED"}]
      /\ Sent \subseteq Sent' /\ job \in Sent'
  <2>1. outcome \in [Jobs -> {"unsent", "pending", "COMPLETED", "FAILED"}]
    BY DEF RelationsOK
  <2>2. CASE outcome' = [outcome EXCEPT ![job] = "pending"]
    BY <2>1, <2>2 DEF Sent
  <2>3. CASE outcome[job] # "unsent" /\ UNCHANGED outcome
    BY <2>1, <2>3 DEF Sent
  <2>4. QED
    BY <2>2, <2>3 DEF SendNormalized, CopyNormalized
<1>3. Grows
  BY <1>1, <1>2, RelationsAssumption DEF Grows, RelationsOK, Counted
<1>4. inbox' \in Seq(Sent')
  <2>1. inbox \in Seq(Sent')
    BY <1>3, Carried
  <2>2. QED
    BY <1>1, <1>2, <2>1, AppendProperties
<1>5. Sent' # {}
  BY <1>2
<1>6. QED
  BY <1>1, <1>2, <1>3, <1>4, <1>5, Carried DEF RelationsOK

LEMMA RelationsReceive ==
  ASSUME RelationsOK, Receive
  PROVE  RelationsOK' /\ Grows
<1>1. /\ UNCHANGED <<snap, clock, readable, records, connected, rebuild, rebuilds, bound, built,
                     outcome, happened, faults>>
      /\ handling' = [job |-> Head(inbox), ver |-> 0, sent |-> FALSE]
      /\ inbox' = Tail(inbox) /\ inbox # <<>>
  BY DEF Receive
<1>2. Grows /\ Sent' = Sent
  BY <1>1, Still
<1>3. inbox' \in Seq(Sent) /\ Head(inbox) \in Sent
  BY <1>1, HeadTailProperties DEF RelationsOK
<1>4. 0 \in 0..clock
  BY RelationsAssumption DEF RelationsOK, Counted
<1>5. handling' \in [job : Sent, ver : 0..clock, sent : BOOLEAN]
  BY <1>1, <1>3, <1>4
<1>6. QED
  BY <1>1, <1>2, <1>3, <1>5, Carried DEF RelationsOK, Deliveries, FaultsOK

LEMMA RelationsLoad ==
  ASSUME RelationsOK, LoadDataset
  PROVE  RelationsOK' /\ Grows
<1>1. /\ UNCHANGED <<readable, records, connected, inbox, rebuild, rebuilds, bound, built, outcome,
                     happened, faults>>
      /\ clock' = clock + 1 /\ snap' = clock' /\ clock < MaxLoads
      /\ handling' = [handling EXCEPT !.ver = clock'] /\ handling.job \in Jobs
  BY DEF LoadDataset
<1>2. clock \in Nat /\ clock' \in Counted /\ clock' \in Nat /\ rebuilds \in Nat
      /\ rebuild \in 0..clock'
  BY <1>1, RelationsAssumption DEF RelationsOK, Counted
<1>3. Sent' = Sent
  BY <1>1 DEF Sent
<1>4. Grows
  BY <1>1, <1>2, <1>3 DEF Grows
<1>5. handling \in [job : Sent, ver : 0..clock, sent : BOOLEAN]
  BY <1>1, RelationsAssumption DEF RelationsOK, Deliveries, NoDelivery
<1>6. clock' \in 0..clock'
  BY <1>2
<1>7. handling' \in [job : Sent, ver : 0..clock', sent : BOOLEAN] /\ Sent # {}
  BY <1>1, <1>5, <1>6
<1>8. QED
  BY <1>1, <1>2, <1>3, <1>4, <1>7, Carried DEF RelationsOK, Deliveries, FaultsOK

LEMMA RelationsLoadFails ==
  ASSUME RelationsOK, LoadFails
  PROVE  RelationsOK' /\ Grows
<1>1. /\ UNCHANGED <<snap, clock, readable, records, connected, rebuild, rebuilds, bound, built,
                     happened, faults>>
      /\ handling' = NoDelivery /\ handling.job \in Jobs
  BY DEF LoadFails
<1>2. /\ outcome' \in [Jobs -> {"unsent", "pending", "COMPLETED", "FAILED"}]
      /\ Sent' = Sent
  BY <1>1, Settled DEF LoadFails, RelationsOK, Sent
<1>3. inbox' \in Seq(Sent)
  <2>1. inbox \in Seq(Sent)
    BY DEF RelationsOK
  <2>2. handling.job \in Sent
    BY <1>1, RelationsAssumption DEF RelationsOK, Deliveries, NoDelivery
  <2>3. Append(inbox, handling.job) \in Seq(Sent)
    BY <2>1, <2>2, AppendProperties
  <2>4. QED
    BY <2>1, <2>3 DEF LoadFails
<1>4. Grows
  BY <1>1, <1>2, RelationsAssumption DEF Grows, RelationsOK, Counted
<1>5. QED
  BY <1>1, <1>2, <1>3, <1>4, Carried DEF RelationsOK, Deliveries, FaultsOK

LEMMA RelationsPublish ==
  ASSUME RelationsOK, PublishBuilt \/ AckNormalized
  PROVE  RelationsOK' /\ Grows
<1>1. UNCHANGED <<snap, clock, readable, records, connected, inbox, rebuild, rebuilds, bound, outcome,
                  happened, faults>>
  BY DEF PublishBuilt, AckNormalized
<1>2. Grows /\ Sent' = Sent
  BY <1>1, Still
<1>3. /\ built' \in Seq(Known)
      /\ handling' \in [job : Sent, ver : 0..clock, sent : BOOLEAN] \cup {NoDelivery}
  <2>1. built \in Seq(Known)
    BY DEF RelationsOK
  <2>2. CASE AckNormalized \/ (PublishBuilt /\ ~connected)
    BY <2>1, <2>2 DEF AckNormalized, PublishBuilt
  <2>3. CASE PublishBuilt /\ connected
    <3>1. /\ handling.ver > 0 /\ handling' = [handling EXCEPT !.sent = TRUE]
          /\ Deliver([job |-> handling.job, ver |-> handling.ver])
      BY <2>3 DEF PublishBuilt
    <3>2. handling \in [job : Sent, ver : 0..clock, sent : BOOLEAN] /\ clock \in Nat
      BY <3>1, RelationsAssumption DEF RelationsOK, Deliveries, NoDelivery, Counted
    <3>3. handling.job \in Sent /\ handling.ver \in 1..clock
      BY <3>1, <3>2
    <3>4. [job |-> handling.job, ver |-> handling.ver] \in Known
      BY <3>3 DEF Known
    <3>5. built' \in Seq(Known)
      BY <3>1, <3>4, Delivered
    <3>6. QED
      BY <3>1, <3>2, <3>5
  <2>4. QED
    BY <2>2, <2>3
<1>4. built' \in Seq(Known')
  BY <1>2, <1>3, SetsGrow, SeqMonotonic
<1>5. QED
  BY <1>1, <1>2, <1>3, <1>4, Carried DEF RelationsOK, Deliveries, FaultsOK

LEMMA RelationsRebuild ==
  ASSUME RelationsOK, BeginRebuild \/ EndRebuild
  PROVE  RelationsOK' /\ Grows
<1>1. CASE BeginRebuild
  <2>1. /\ UNCHANGED <<snap, clock, readable, records, connected, inbox, handling, bound, built,
                       outcome, happened, faults>>
        /\ rebuild' = snap /\ rebuilds' = rebuilds + 1 /\ rebuilds < MaxRebuilds
    BY <1>1 DEF BeginRebuild
  <2>2. /\ clock \in Nat /\ rebuilds \in Nat /\ rebuilds' \in Nat /\ rebuilds' \in 0..MaxRebuilds
        /\ rebuild' \in 0..clock /\ rebuilds' > 0 /\ rebuilds <= rebuilds'
    BY <2>1, RelationsAssumption DEF RelationsOK, Counted
  <2>3. Sent' = Sent
    BY <2>1 DEF Sent
  <2>4. Grows
    BY <2>1, <2>2, <2>3 DEF Grows
  <2>5. QED
    BY <2>1, <2>2, <2>3, <2>4, Carried DEF RelationsOK, FaultsOK
<1>2. CASE EndRebuild
  <2>1. /\ UNCHANGED <<snap, clock, readable, records, connected, inbox, handling, rebuilds, bound,
                       outcome, happened, faults>>
        /\ rebuild' = 0 /\ rebuild > 0
    BY <1>2 DEF EndRebuild
  <2>2. Grows /\ Sent' = Sent
    BY <2>1, Still
  <2>3. [job |-> RebuildJob, ver |-> rebuild] \in Known
    <3>1. rebuild \in 1..clock /\ rebuilds > 0
      BY <2>1, RelationsAssumption DEF RelationsOK, Counted
    <3>2. QED
      BY <3>1 DEF Known
  <2>4. built' \in Seq(Known)
    BY <1>2, <2>3, Delivered DEF EndRebuild, RelationsOK
  <2>5. built' \in Seq(Known')
    BY <2>2, <2>4, SetsGrow, SeqMonotonic
  <2>6. 0 \in 0..clock
    BY RelationsAssumption DEF RelationsOK, Counted
  <2>7. QED
    BY <2>1, <2>2, <2>5, <2>6, Carried DEF RelationsOK, FaultsOK
<1>3. QED
  BY <1>1, <1>2

LEMMA RelationsFaults ==
  ASSUME RelationsOK, FileLost \/ FileRestored \/ Disconnect \/ BrokerRestarts \/ RestartRelations
  PROVE  RelationsOK' /\ Grows
<1>1. /\ UNCHANGED <<clock, rebuilds, bound, outcome, records>>
      /\ FaultsOK' /\ happened \subseteq happened'
  BY FaultCounted DEF FileLost, FileRestored, Disconnect, BrokerRestarts, RestartRelations, NoFault,
                      RelationsOK, Faults
<1>2. Grows /\ Sent' = Sent
  BY <1>1, Still
<1>3. Requeued \in Seq(Sent)
  BY RequeuedInbox
<1>4. CASE FileLost
  BY <1>1, <1>2, <1>4, Carried DEF FileLost, Fault, RelationsOK
<1>5. CASE FileRestored
  BY <1>1, <1>2, <1>5, Carried DEF FileRestored, RelationsOK
<1>6. CASE Disconnect
  BY <1>1, <1>2, <1>3, <1>6, Carried DEF Disconnect, RelationsOK
<1>7. CASE BrokerRestarts
  <2>1. built' \in Seq(Known')
    BY <1>7, EmptySeq DEF BrokerRestarts
  <2>2. QED
    BY <1>1, <1>2, <1>3, <1>7, <2>1, Carried DEF BrokerRestarts, RelationsOK
<1>8. CASE RestartRelations
  <2>1. 0 \in 0..clock
    BY RelationsAssumption DEF RelationsOK, Counted
  <2>2. "restart" \in happened'
    BY <1>8 DEF RestartRelations, Fault
  <2>3. /\ UNCHANGED <<readable, built>> /\ snap' = 0 /\ rebuild' = 0 /\ connected' = TRUE
        /\ inbox' = Requeued /\ handling' = NoDelivery
    BY <1>8 DEF RestartRelations
  <2>4. QED
    BY <1>1, <1>2, <1>3, <2>1, <2>2, <2>3, Carried DEF RelationsOK, Deliveries
<1>9. QED
  BY <1>4, <1>5, <1>6, <1>7, <1>8

LEMMA Pairs ==
  /\ \A r \in Replicas : <<r, "listener">> \in Threads /\ <<r, "http">> \in Threads
  /\ \A t \in Threads : /\ t[1] \in Replicas /\ t[2] \in {"listener", "http"}
                        /\ t = <<t[1], t[2]>>
  /\ \A t, o \in Threads : t[1] = o[1] /\ t[2] = o[2] => t = o
BY DEF Threads

LEMMA ListenerEvent ==
  ASSUME ScoringOK, NEW r \in Replicas,
         thread[<<r, "listener">>].at # "idle" \/ thread[<<r, "listener">>].held
  PROVE  thread[<<r, "listener">>].event \in Known /\ thread[<<r, "listener">>].event # NoEvent
<1>1. ThreadOK(<<r, "listener">>)
  BY Pairs DEF ScoringOK
<1>2. QED
  BY <1>1 DEF ThreadOK, ThreadRow

LEMMA ReturnedEvents ==
  ASSUME RelationsOK, ScoringOK, NEW r \in Replicas
  PROVE  Returned(<<r, "listener">>) \in Seq(Known)
<1> DEFINE t == <<r, "listener">>
<1>1. built \in Seq(Known)
  BY DEF RelationsOK
<1>2. ASSUME thread[t].held
      PROVE  <<thread[t].event>> \o built \in Seq(Known)
  <2>1. thread[t].event \in Known
    BY <1>2, ListenerEvent
  <2>2. <<thread[t].event>> \in Seq(Known)
    BY <2>1
  <2>3. QED
    BY <1>1, <2>2, ConcatProperties
<1>3. QED
  BY <1>1, <1>2 DEF Returned

\* The steps of a run that write nothing of relations: each may meet a fault.
LEMMA ThreadFaults ==
  ASSUME NEW t \in Threads, ThreadStep(t)
  PROVE  UNCHANGED workVars /\ (NoFault \/ \E f \in Faults : Fault(f))
<1>1. "inputs" \in Faults /\ "database" \in Faults
  BY DEF Faults
<1>2. CASE Enter(t)
  BY <1>1, <1>2 DEF Enter, StatementFails
<1>3. CASE LoadInputs(t)
  BY <1>1, <1>3 DEF LoadInputs, CallFails
<1>4. CASE CheckAgain(t)
  BY <1>1, <1>4 DEF CheckAgain, StatementFails
<1>5. CASE ReadVersion(t)
  BY <1>1, <1>5 DEF ReadVersion, StatementFails
<1>6. CASE SaveRun(t)
  BY <1>1, <1>6 DEF SaveRun, StatementFails
<1>7. QED
  BY <1>2, <1>3, <1>4, <1>5, <1>6 DEF ThreadStep

\* The steps of scoring that write none of the variables of relations but its queue,
\* the faults and the outcomes.
LEMMA RelationsOfScoring ==
  ASSUME RelationsOK, ScoringOK, ScoNext
  PROVE  RelationsOK' /\ Grows
<1>1. ASSUME UNCHANGED <<snap, clock, readable, records, connected, inbox, handling, rebuild,
                         rebuilds>>,
             bound' \in BOOLEAN, built' \in Seq(Known), Sent' = Sent,
             outcome' \in [Jobs -> {"unsent", "pending", "COMPLETED", "FAILED"}],
             FaultsOK', happened \subseteq happened'
      PROVE  RelationsOK' /\ Grows
  <2>1. Grows
    BY <1>1, RelationsAssumption DEF Grows, RelationsOK, Counted
  <2>2. built' \in Seq(Known')
    BY <1>1, <2>1, SetsGrow, SeqMonotonic
  <2>3. QED
    BY <1>1, <2>1, <2>2, Carried DEF RelationsOK
<1>2. /\ bound \in BOOLEAN /\ built \in Seq(Known) /\ FaultsOK
      /\ rebuilds \in 0..MaxRebuilds
      /\ outcome \in [Jobs -> {"unsent", "pending", "COMPLETED", "FAILED"}]
  BY DEF RelationsOK
<1>3. UNCHANGED outcome => Sent' = Sent
  BY DEF Sent
<1>4. NoFault \/ (\E f \in Faults : Fault(f)) => FaultsOK' /\ happened \subseteq happened'
  BY <1>2, FaultCounted
<1>5. CASE BindQueue
  BY <1>1, <1>2, <1>3, <1>4, <1>5 DEF BindQueue, NoFault
<1>6. ASSUME NEW r \in Replicas, TakeEvent(r)
      PROVE  RelationsOK' /\ Grows
  <2>1. built' \in Seq(Known)
    BY <1>2, <1>6, HeadTailProperties DEF TakeEvent
  <2>2. QED
    BY <1>1, <1>2, <1>3, <1>4, <1>6, <2>1 DEF TakeEvent, NoFault
<1>7. ASSUME NEW r \in Replicas, LoseChannel(r)
      PROVE  RelationsOK' /\ Grows
  <2>1. built' \in Seq(Known)
    BY <1>7, ReturnedEvents DEF LoseChannel
  <2>2. FaultsOK' /\ happened \subseteq happened'
    BY <1>4, <1>7 DEF LoseChannel, Faults
  <2>3. QED
    BY <1>1, <1>2, <1>3, <1>7, <2>1, <2>2 DEF LoseChannel
<1>8. ASSUME NEW r \in Replicas, Crash(r)
      PROVE  RelationsOK' /\ Grows
  <2>1. built' \in Seq(Known)
    BY <1>8, ReturnedEvents DEF Crash
  <2>2. FaultsOK' /\ happened \subseteq happened'
    BY <1>4, <1>8 DEF Crash, Faults
  <2>3. QED
    BY <1>1, <1>2, <1>3, <1>8, <2>1, <2>2 DEF Crash
<1>9. ASSUME NEW r \in Replicas, NEW only \in BOOLEAN, Request(r, only)
      PROVE  RelationsOK' /\ Grows
  <2>1. FaultsOK' /\ happened \subseteq happened'
    BY <1>4, <1>9 DEF Request, Faults
  <2>2. QED
    BY <1>1, <1>2, <1>3, <1>9, <2>1 DEF Request
<1>10. ASSUME NEW t \in Threads, ThreadStep(t)
       PROVE  RelationsOK' /\ Grows
  <2>1. UNCHANGED workVars /\ (NoFault \/ \E f \in Faults : Fault(f))
    BY <1>10, ThreadFaults
  <2>2. QED
    BY <1>1, <1>2, <1>3, <1>4, <2>1 DEF workVars
<1>11. ASSUME NEW r \in Replicas, ReportCompleted(r)
       PROVE  RelationsOK' /\ Grows
  <2>1. /\ outcome' \in [Jobs -> {"unsent", "pending", "COMPLETED", "FAILED"}] /\ Sent' = Sent
        /\ FaultsOK' /\ happened \subseteq happened'
    <3>1. CASE Fault("publish") /\ UNCHANGED outcome
      BY <1>2, <1>3, <1>4, <3>1 DEF Faults
    <3>2. CASE Settle(thread[<<r, "listener">>].event.job, "COMPLETED") /\ NoFault
      BY <1>2, <1>4, <3>2, Settled
    <3>3. QED
      BY <1>11, <3>1, <3>2 DEF ReportCompleted
  <2>2. QED
    BY <1>1, <1>2, <1>11, <2>1 DEF ReportCompleted
<1>12. ASSUME NEW r \in Replicas, ReportFailed(r)
       PROVE  RelationsOK' /\ Grows
  <2>1. /\ outcome' \in [Jobs -> {"unsent", "pending", "COMPLETED", "FAILED"}] /\ Sent' = Sent
        /\ FaultsOK' /\ happened \subseteq happened' /\ built' \in Seq(Known)
    <3>1. CASE Fault("publish") /\ UNCHANGED outcome /\ built' = Returned(<<r, "listener">>)
      BY <1>2, <1>3, <1>4, <3>1, ReturnedEvents DEF Faults
    <3>2. CASE /\ Settle(thread[<<r, "listener">>].event.job, "FAILED")
               /\ NoFault /\ UNCHANGED built
      BY <1>2, <1>4, <3>2, Settled
    <3>3. QED
      BY <1>12, <3>1, <3>2 DEF ReportFailed
  <2>2. QED
    BY <1>1, <1>2, <1>12, <2>1 DEF ReportFailed
<1>13. QED
  BY <1>5, <1>6, <1>7, <1>8, <1>9, <1>10, <1>11, <1>12 DEF ScoNext

LEMMA RelationsStep ==
  ASSUME RelationsOK, ScoringOK, Next
  PROVE  RelationsOK' /\ Grows
<1>1. CASE RelNext
  BY <1>1, RelationsSend, RelationsReceive, RelationsLoad, RelationsLoadFails, RelationsPublish,
     RelationsRebuild, RelationsFaults DEF RelNext
<1>2. CASE RestartBroker
  BY <1>2, RelationsFaults DEF RestartBroker
<1>3. CASE ScoNext
  BY <1>3, RelationsOfScoring
<1>4. QED
  BY <1>1, <1>2, <1>3 DEF Next

-----------------------------------------------------------------------------
(* Threads and locks.                                                      *)

LEMMA KnownAreEvents ==
  ASSUME RelationsOK
  PROVE  Known \subseteq Event /\ NoEvent \notin Known /\ clock \in Nat /\ 0 \in 0..clock
<1>1. clock \in Nat /\ clock <= MaxLoads /\ MaxLoads \in Nat
  BY RelationsAssumption DEF RelationsOK, Counted
<1>2. 1..clock \subseteq 1..MaxLoads
  BY <1>1
<1>3. Known \subseteq Event
  BY <1>2 DEF Known, Event, Sent
<1>4. QED
  BY <1>1, <1>3, ScoringAssumption DEF Event

LEMMA IdleRow ==
  ASSUME RelationsOK
  PROVE  Idle \in ThreadRow /\ Idle.at = "idle" /\ Idle.event = NoEvent /\ Idle.held = FALSE
         /\ Idle.only = FALSE
BY KnownAreEvents DEF Idle, ThreadRow, Steps

\* A thread that a step leaves alone.
LEMMA ThreadKept ==
  ASSUME Grows, NEW t \in Threads, ThreadOK(t), thread'[t] = thread[t], UNCHANGED calcs,
         lock'[t[1]] = t[2] <=> lock[t[1]] = t[2]
  PROVE  ThreadOK(t)'
<1>1. thread[t] \in ThreadRow'
  BY SetsGrow DEF ThreadOK
<1>2. happened \subseteq happened'
  BY DEF Grows
<1>3. QED
  BY <1>1, <1>2 DEF ThreadOK, Processed, Announced

LEMMA ThreadIdles ==
  ASSUME RelationsOK', NEW t \in Threads, thread'[t] = Idle, lock'[t[1]] # t[2]
  PROVE  ThreadOK(t)'
<1>1. /\ Idle \in ThreadRow' /\ Idle.at = "idle" /\ Idle.event = NoEvent /\ Idle.held = FALSE
      /\ Idle.only = FALSE
  <2>1. 0 \in 0..clock'
    BY RelationsAssumption DEF RelationsOK, Counted
  <2>2. QED
    BY <2>1 DEF Idle, ThreadRow, Steps
<1>2. QED
  BY <1>1 DEF ThreadOK, Locked, Loaded

\* A calculation was stored by another replica, or by the other thread of this one
\* while this one did not hold the lock.
LEMMA ThreadBeside ==
  ASSUME Grows, NEW t \in Threads, ThreadOK(t), thread'[t] = thread[t],
         calcs \in Seq(Calculation), NEW c \in Calculation', calcs' = Append(calcs, c),
         c.by # t[1] \/ thread[t].at \notin Locked,
         lock'[t[1]] = t[2] <=> lock[t[1]] = t[2]
  PROVE  ThreadOK(t)'
<1>1. thread[t] \in ThreadRow'
  BY SetsGrow DEF ThreadOK
<1>2. happened \subseteq happened'
  BY DEF Grows
<1>3. calcs \in Seq(Calculation')
  BY SetsGrow, SeqMonotonic
<1>4. /\ Len(calcs) \in Nat /\ Len(calcs') = Len(calcs) + 1
      /\ \A i \in 1..Len(calcs) : calcs'[i] = calcs[i]
      /\ calcs'[Len(calcs) + 1] = c
  BY <1>3, AppendProperties, LenProperties
<1>5. ASSUME Processed(thread[t].event)
      PROVE  Processed(thread[t].event)'
  BY <1>4, <1>5 DEF Processed
<1>6. ASSUME thread[t].at \in Locked, NEW i \in 1..Len(calcs'), calcs'[i].by = t[1]
      PROVE  i \in 1..Len(calcs)
  BY <1>4, <1>6
<1>7. thread[t].at \in Loaded => thread[t].at \in Locked
  BY DEF Loaded, Locked
<1>8. thread[t].at \in Loaded =>
        /\ thread[t].ver >= 1 /\ Announced(thread[t].event, thread[t].ver)
        /\ \A i \in 1..Len(calcs') : calcs'[i].by = t[1] => calcs'[i].ver <= thread[t].ver
  BY <1>4, <1>6, <1>7 DEF ThreadOK
<1>9. thread[t].at = "inserting" =>
        /\ thread[t].next \in 1..Len(calcs') + 1
        /\ \A i \in thread[t].next..Len(calcs') : calcs'[i].by # t[1]
  <2>1. SUFFICES ASSUME thread[t].at = "inserting"
                 PROVE  /\ thread[t].next \in 1..Len(calcs') + 1
                        /\ \A i \in thread[t].next..Len(calcs') : calcs'[i].by # t[1]
    OBVIOUS
  <2>2. /\ thread[t].next \in 1..Len(calcs) + 1
        /\ \A i \in thread[t].next..Len(calcs) : calcs[i].by # t[1]
        /\ thread[t].at \in Locked
    BY <2>1 DEF ThreadOK, Locked
  <2>3. ASSUME NEW i \in thread[t].next..Len(calcs'), calcs'[i].by = t[1]
        PROVE  FALSE
    <3>1. i \in 1..Len(calcs')
      BY <1>4, <2>2
    <3>2. i \in 1..Len(calcs)
      BY <1>6, <2>2, <2>3, <3>1
    <3>3. i \in thread[t].next..Len(calcs)
      BY <1>4, <2>2, <3>2
    <3>4. QED
      BY <1>4, <2>2, <2>3, <3>2, <3>3
  <2>4. thread[t].next \in 1..Len(calcs') + 1
    BY <1>4, <2>2
  <2>5. QED
    BY <2>3, <2>4
<1>10. Announced(thread[t].event, thread[t].ver)' <=> Announced(thread[t].event, thread[t].ver)
  BY DEF Announced
<1>11. QED
  BY <1>1, <1>2, <1>5, <1>8, <1>9, <1>10 DEF ThreadOK

LEMMA LockOwner ==
  ASSUME ScoringOK, NEW t \in Threads, thread[t].at \in Locked
  PROVE  /\ lock[t[1]] = t[2]
         /\ \A o \in Threads : o # t /\ o[1] = t[1] => thread[o].at \notin Locked
<1>1. \A o \in Threads : thread[o].at \in Locked <=> lock[o[1]] = o[2]
  BY DEF ScoringOK, ThreadOK
<1>2. QED
  BY <1>1, Pairs

LEMMA Released ==
  ASSUME ScoringOK, NEW t \in Threads, thread[t].at \in Locked, Release(t)
  PROVE  /\ lock' \in [Replicas -> {Free, "listener", "http"}]
         /\ lock'[t[1]] # t[2]
         /\ \A o \in Threads : o # t => (lock'[o[1]] = o[2] <=> lock[o[1]] = o[2])
<1>1. lock \in [Replicas -> {Free, "listener", "http"}] /\ t[1] \in Replicas
  BY Pairs DEF ScoringOK
<1>2. /\ lock' \in [Replicas -> {Free, "listener", "http"}]
      /\ \A q \in Replicas : lock'[q] = IF q = t[1] THEN Free ELSE lock[q]
  BY <1>1 DEF Release
<1>3. lock[t[1]] = t[2]
  BY LockOwner
<1>4. \A o \in Threads : o # t /\ o[1] = t[1] => o[2] # t[2]
  BY Pairs
<1>5. \A o \in Threads : o[1] \in Replicas /\ o[2] # Free
  BY Pairs, ScoringAssumption
<1>6. QED
  BY <1>1, <1>2, <1>3, <1>4, <1>5

\* A step of one thread that stores no calculation.
LEMMA ThreadsKept ==
  ASSUME ScoringOK, Grows, NEW t \in Threads, UNCHANGED calcs, ThreadOK(t)',
         thread' \in [Threads -> ThreadRow'], lock' \in [Replicas -> {Free, "listener", "http"}],
         \A o \in Threads : o # t => /\ thread'[o] = thread[o]
                                     /\ lock'[o[1]] = o[2] <=> lock[o[1]] = o[2]
  PROVE  ScoringOK'
<1>1. calcs' \in Seq(Calculation')
  BY SetsGrow, SeqMonotonic DEF ScoringOK
<1>2. ASSUME NEW o \in Threads
      PROVE  ThreadOK(o)'
  <2>1. CASE o = t
    BY <2>1
  <2>2. CASE o # t
    BY <2>2, ThreadKept DEF ScoringOK
  <2>3. QED
    BY <2>1, <2>2
<1>3. QED
  BY <1>1, <1>2 DEF ScoringOK

\* A thread's row is replaced.
LEMMA ThreadReplaced ==
  ASSUME ScoringOK, Grows, NEW t \in Threads, NEW row \in ThreadRow',
         thread' = [thread EXCEPT ![t] = row]
  PROVE  /\ thread' \in [Threads -> ThreadRow'] /\ thread'[t] = row
         /\ \A o \in Threads : o # t => thread'[o] = thread[o]
<1>1. thread \in [Threads -> ThreadRow']
  BY SetsGrow DEF ScoringOK
<1>2. QED
  BY <1>1

\* A row whose step changes keeps everything else.
LEMMA RowAt ==
  ASSUME NEW row \in ThreadRow, NEW to \in Steps
  PROVE  LET moved == [row EXCEPT !.at = to] IN
         /\ moved \in ThreadRow /\ moved.at = to /\ moved.event = row.event
         /\ moved.held = row.held /\ moved.only = row.only /\ moved.ver = row.ver
         /\ moved.next = row.next
BY DEF ThreadRow

LEMMA Moved ==
  ASSUME ScoringOK, Grows, NEW t \in Threads, NEW to \in Steps, Move(t, to)
  PROVE  /\ thread' \in [Threads -> ThreadRow'] /\ thread'[t] \in ThreadRow'
         /\ \A o \in Threads : o # t => thread'[o] = thread[o]
         /\ thread'[t].at = to /\ thread'[t].event = thread[t].event
         /\ thread'[t].held = thread[t].held /\ thread'[t].only = thread[t].only
         /\ thread'[t].ver = thread[t].ver /\ thread'[t].next = thread[t].next
<1> DEFINE row == [thread[t] EXCEPT !.at = to]
<1>1. thread[t] \in ThreadRow
  BY DEF ScoringOK
<1>2. /\ row \in ThreadRow /\ row.at = to /\ row.event = thread[t].event
      /\ row.held = thread[t].held /\ row.only = thread[t].only
      /\ row.ver = thread[t].ver /\ row.next = thread[t].next
  BY <1>1, RowAt
<1>3. row \in ThreadRow'
  BY <1>2, SetsGrow
<1>4. thread' = [thread EXCEPT ![t] = row]
  BY DEF Move
<1> HIDE DEF row
<1>5. /\ thread' \in [Threads -> ThreadRow'] /\ thread'[t] = row
      /\ \A o \in Threads : o # t => thread'[o] = thread[o]
  BY <1>3, <1>4, ThreadReplaced
<1>6. QED
  BY <1>2, <1>3, <1>5

\* The end of a call, by which the thread has given its lock back.
LEMMA CallEnds ==
  ASSUME RelationsOK', ScoringOK, Grows, NEW t \in Threads, NEW to \in {"reporting", "failing"},
         Ended(t, to), thread[t].at # "idle", lock'[t[1]] # t[2],
         NEW event, event = thread[t].event,
         t[2] = "listener" /\ to = "reporting" => Processed(event)'
  PROVE  /\ thread' \in [Threads -> ThreadRow'] /\ ThreadOK(t)'
         /\ \A o \in Threads : o # t => thread'[o] = thread[o]
<1>1. CASE t[2] = "listener"
  <2> DEFINE row == [thread[t] EXCEPT !.at = to, !.ver = 0, !.next = 0]
  <2>1. thread \in [Threads -> ThreadRow] /\ thread[t] \in ThreadRow
    BY DEF ScoringOK
  <2>2. /\ row \in ThreadRow' /\ row.at = to /\ row.event = thread[t].event
        /\ row.only = thread[t].only
    <3>1. 0 \in 0..clock' /\ to \in Steps
      BY RelationsAssumption DEF RelationsOK, Counted, Steps
    <3>2. thread[t] \in ThreadRow'
      BY <2>1, SetsGrow
    <3>3. QED
      BY <3>1, <3>2 DEF ThreadRow
  <2>3. thread' = [thread EXCEPT ![t] = row]
    BY <1>1, <2>1 DEF Ended
  <2> HIDE DEF row
  <2>4. /\ thread' \in [Threads -> ThreadRow'] /\ thread'[t] = row
        /\ \A o \in Threads : o # t => thread'[o] = thread[o]
    BY <2>2, <2>3, ThreadReplaced
  <2>5. row.only = FALSE /\ row.event # NoEvent
    BY <1>1, <2>2 DEF ScoringOK, ThreadOK
  <2>6. to \notin Locked /\ to \notin Loaded /\ to # "inserting"
    BY DEF Locked, Loaded
  <2>7. thread'[t].event = thread[t].event
    BY <2>2, <2>4
  <2>8. to = "reporting" => Processed(thread[t].event)'
    BY <1>1, <2>7 DEF Processed
  <2>9. ThreadOK(t)'
    BY <1>1, <2>2, <2>4, <2>5, <2>6, <2>8 DEF ThreadOK
  <2>10. QED
    BY <2>4, <2>9
<1>2. CASE t[2] # "listener"
  <2>1. thread' = [thread EXCEPT ![t] = Idle]
    BY <1>2 DEF Ended
  <2>2. Idle \in ThreadRow'
    BY RelationsAssumption DEF RelationsOK, Counted, Idle, ThreadRow, Steps
  <2>3. /\ thread' \in [Threads -> ThreadRow'] /\ thread'[t] = Idle
        /\ \A o \in Threads : o # t => thread'[o] = thread[o]
    BY <2>1, <2>2, ThreadReplaced
  <2>4. QED
    BY <2>3, ThreadIdles
<1>3. QED
  BY <1>1, <1>2

-----------------------------------------------------------------------------
(* The threads, action by action.                                          *)

LEMMA ScoringBeside ==
  ASSUME ScoringOK, Grows, UNCHANGED scoVars
  PROVE  ScoringOK'
<1>1. UNCHANGED <<calcs, thread, lock>>
  BY DEF scoVars
<1>2. /\ calcs' \in Seq(Calculation') /\ thread' \in [Threads -> ThreadRow']
      /\ lock' \in [Replicas -> {Free, "listener", "http"}]
  BY <1>1, SetsGrow, SeqMonotonic DEF ScoringOK
<1>3. \A t \in Threads : ThreadOK(t)'
  BY <1>1, ThreadKept DEF ScoringOK
<1>4. QED
  BY <1>2, <1>3 DEF ScoringOK

LEMMA ScoringTakeEvent ==
  ASSUME RelationsOK, RelationsOK', Grows, ScoringOK, NEW r \in Replicas, TakeEvent(r)
  PROVE  ScoringOK'
<1> DEFINE t == <<r, "listener">>
<1> DEFINE row == [Idle EXCEPT !.at = "waiting", !.event = Head(built), !.held = TRUE]
<1>1. t \in Threads /\ t[1] = r /\ t[2] = "listener"
  BY Pairs
<1>2. Head(built) \in Known /\ Head(built) # NoEvent
  <2>1. built \in Seq(Known) /\ built # <<>>
    BY DEF RelationsOK, TakeEvent
  <2>2. QED
    BY <2>1, HeadTailProperties, KnownAreEvents
<1>3. /\ row.at = "waiting" /\ row.event = Head(built) /\ row.only = FALSE
      /\ row \in ThreadRow
  <2>1. Idle \in ThreadRow /\ Idle.only = FALSE
    BY IdleRow
  <2>2. QED
    BY <1>2, <2>1 DEF ThreadRow, Steps
<1>4. row \in ThreadRow'
  BY <1>3, SetsGrow
<1>5. thread' = [thread EXCEPT ![t] = row] /\ UNCHANGED <<calcs, lock>> /\ thread[t] = Idle
  BY DEF TakeEvent
<1> HIDE DEF row
<1>6. /\ thread' \in [Threads -> ThreadRow'] /\ thread'[t] = row
      /\ \A o \in Threads : o # t => thread'[o] = thread[o]
  BY <1>1, <1>4, <1>5, ThreadReplaced
<1>7. lock[r] # "listener"
  <2>1. Idle.at \notin Locked
    BY DEF Idle, Locked
  <2>2. QED
    BY <1>1, <1>5, <2>1 DEF ScoringOK, ThreadOK
<1>8. ThreadOK(t)'
  BY <1>1, <1>2, <1>3, <1>4, <1>5, <1>6, <1>7 DEF ThreadOK, Locked, Loaded
<1>9. QED
  BY <1>1, <1>5, <1>6, <1>8, ThreadsKept DEF ScoringOK

LEMMA ScoringRequest ==
  ASSUME RelationsOK, RelationsOK', Grows, ScoringOK, NEW r \in Replicas, NEW only \in BOOLEAN,
         Request(r, only)
  PROVE  ScoringOK'
<1> DEFINE t == <<r, "http">>
<1> DEFINE row == [Idle EXCEPT !.at = "waiting", !.only = only]
<1>1. t \in Threads /\ t[1] = r /\ t[2] = "http"
  BY Pairs
<1>2. /\ row.at = "waiting" /\ row.event = NoEvent /\ row.held = FALSE
      /\ row \in ThreadRow
  <2>1. Idle \in ThreadRow /\ Idle.event = NoEvent /\ Idle.held = FALSE
    BY IdleRow
  <2>2. QED
    BY <2>1 DEF ThreadRow, Steps
<1>3. row \in ThreadRow'
  BY <1>2, SetsGrow
<1>4. thread' = [thread EXCEPT ![t] = row] /\ UNCHANGED <<calcs, lock>> /\ thread[t] = Idle
      /\ "recalculate" \in happened'
  BY DEF Request, Fault
<1> HIDE DEF row
<1>5. /\ thread' \in [Threads -> ThreadRow'] /\ thread'[t] = row
      /\ \A o \in Threads : o # t => thread'[o] = thread[o]
  BY <1>1, <1>3, <1>4, ThreadReplaced
<1>6. lock[r] # "http"
  <2>1. Idle.at \notin Locked
    BY DEF Idle, Locked
  <2>2. QED
    BY <1>1, <1>4, <2>1 DEF ScoringOK, ThreadOK
<1>7. ThreadOK(t)'
  BY <1>1, <1>2, <1>3, <1>4, <1>5, <1>6 DEF ThreadOK, Locked, Loaded
<1>8. QED
  BY <1>1, <1>4, <1>5, <1>7, ThreadsKept DEF ScoringOK

LEMMA ProcessedStays ==
  ASSUME NEW event, Processed(event), UNCHANGED calcs
  PROVE  Processed(event)'
BY DEF Processed

LEMMA ScoringEnter ==
  ASSUME RelationsOK, RelationsOK', Grows, ScoringOK, NEW t \in Threads, Enter(t)
  PROVE  ScoringOK'
<1>1. /\ t[1] \in Replicas /\ t[2] \in {"listener", "http"} /\ t[2] # Free
      /\ lock \in [Replicas -> {Free, "listener", "http"}]
  BY Pairs, ScoringAssumption DEF ScoringOK
<1>2. thread[t].at = "waiting" /\ UNCHANGED calcs /\ lock[t[1]] = Free
  BY DEF Enter, LockFree
<1>3. ThreadOK(t) /\ thread[t] \in ThreadRow
  BY DEF ScoringOK
<1>4. ASSUME NEW to \in {"reporting", "failing"}, Ended(t, to), Keep,
             to = "reporting" => Processed(thread[t].event) \/ (thread[t].only /\ calcs # <<>>)
      PROVE  ScoringOK'
  <2>1. UNCHANGED lock /\ lock'[t[1]] # t[2]
    BY <1>1, <1>2, <1>4 DEF Keep
  <2>2. t[2] = "listener" /\ to = "reporting" => Processed(thread[t].event)
    BY <1>3, <1>4 DEF ThreadOK
  <2>3. PICK event : event = thread[t].event
    OBVIOUS
  <2>4. t[2] = "listener" /\ to = "reporting" => Processed(event)'
    BY <1>2, <2>2, <2>3, ProcessedStays
  <2>5. /\ thread' \in [Threads -> ThreadRow'] /\ ThreadOK(t)'
        /\ \A o \in Threads : o # t => thread'[o] = thread[o]
    BY <1>2, <1>4, <2>1, <2>3, <2>4, CallEnds
  <2>6. QED
    BY <1>1, <1>2, <2>1, <2>5, ThreadsKept
<1>5. ASSUME Move(t, "loading"), lock' = [lock EXCEPT ![t[1]] = t[2]]
      PROVE  ScoringOK'
  <2>1. /\ lock' \in [Replicas -> {Free, "listener", "http"}] /\ lock'[t[1]] = t[2]
        /\ \A q \in Replicas : q # t[1] => lock'[q] = lock[q]
    BY <1>1, <1>5
  <2>2. \A o \in Threads : o # t => (lock'[o[1]] = o[2] <=> lock[o[1]] = o[2])
    BY <1>1, <1>2, <2>1, Pairs, ScoringAssumption
  <2>3. /\ thread' \in [Threads -> ThreadRow'] /\ thread'[t] \in ThreadRow'
        /\ \A o \in Threads : o # t => thread'[o] = thread[o]
        /\ thread'[t].at = "loading" /\ thread'[t].event = thread[t].event
        /\ thread'[t].held = thread[t].held /\ thread'[t].only = thread[t].only
    BY <1>5, Moved DEF Steps
  <2>4. happened \subseteq happened'
    BY DEF Grows
  <2>5. ThreadOK(t)'
    BY <1>2, <1>3, <2>1, <2>3, <2>4 DEF ThreadOK, Locked, Loaded
  <2>6. QED
    BY <1>2, <2>1, <2>2, <2>3, <2>5, ThreadsKept
<1>6. CASE Ended(t, "failing") /\ Keep
  BY <1>4, <1>6
<1>7. CASE /\ Ended(t, "reporting") /\ Keep
           /\ Processed(thread[t].event) \/ (thread[t].only /\ calcs # <<>>)
  BY <1>4, <1>7
<1>8. QED
  BY <1>5, <1>6, <1>7 DEF Enter

\* A thread that holds the lock ends its call without a calculation.
LEMMA ScoringEnds ==
  ASSUME RelationsOK, RelationsOK', Grows, ScoringOK, NEW t \in Threads,
         thread[t].at \in Locked, NEW to \in {"reporting", "failing"},
         to = "reporting" => Processed(thread[t].event),
         Ended(t, to), Release(t), UNCHANGED calcs
  PROVE  ScoringOK'
<1>1. /\ lock' \in [Replicas -> {Free, "listener", "http"}] /\ lock'[t[1]] # t[2]
      /\ \A o \in Threads : o # t => (lock'[o[1]] = o[2] <=> lock[o[1]] = o[2])
  BY Released
<1>2. PICK event : event = thread[t].event
  OBVIOUS
<1>3. to = "reporting" => Processed(event)'
  BY <1>2, ProcessedStays
<1>4. thread[t].at # "idle"
  BY DEF Locked
<1>5. /\ thread' \in [Threads -> ThreadRow'] /\ ThreadOK(t)'
      /\ \A o \in Threads : o # t => thread'[o] = thread[o]
  BY <1>1, <1>2, <1>3, <1>4, CallEnds
<1>6. QED
  BY <1>1, <1>5, ThreadsKept

LEMMA ScoringLoadInputs ==
  ASSUME RelationsOK, RelationsOK', Grows, ScoringOK, NEW t \in Threads, LoadInputs(t)
  PROVE  ScoringOK'
<1>1. thread[t].at = "loading" /\ thread[t].at \in Locked /\ UNCHANGED calcs
  BY DEF LoadInputs, Locked
<1>2. ThreadOK(t) /\ thread \in [Threads -> ThreadRow] /\ calcs \in Seq(Calculation)
  BY DEF ScoringOK
<1>3. CASE Ended(t, "failing") /\ Release(t)
  BY <1>1, <1>3, ScoringEnds
<1>4. ASSUME snap > 0, Announced(thread[t].event, snap), UNCHANGED lock,
             thread' = [thread EXCEPT ![t].at = "checking", ![t].ver = snap]
      PROVE  ScoringOK'
  <2>1. snap = clock /\ snap \in 0..clock /\ snap >= 1 /\ clock \in Nat
    BY <1>4, RelationsAssumption DEF RelationsOK, Counted
  <2> DEFINE row == [[thread[t] EXCEPT !.at = "checking"] EXCEPT !.ver = snap]
  <2>2. /\ row \in ThreadRow /\ row.at = "checking" /\ row.ver = snap
        /\ row.event = thread[t].event /\ row.held = thread[t].held
        /\ row.only = thread[t].only
    BY <1>2, <2>1 DEF ThreadRow, Steps
  <2>3. row \in ThreadRow'
    BY <2>2, SetsGrow
  <2>4. thread' = [thread EXCEPT ![t] = row]
    BY <1>2, <1>4
  <2> HIDE DEF row
  <2>5. /\ thread' \in [Threads -> ThreadRow'] /\ thread'[t] = row
        /\ \A o \in Threads : o # t => thread'[o] = thread[o]
    BY <2>3, <2>4, ThreadReplaced
  <2>6. \A i \in 1..Len(calcs) : calcs[i].ver <= snap
    <3>1. \A i \in 1..Len(calcs) : calcs[i] \in Calculation
      BY <1>2, ElementOfSeq
    <3>2. \A i \in 1..Len(calcs) : calcs[i].ver \in 1..clock
      BY <3>1 DEF Calculation
    <3>3. QED
      BY <2>1, <3>2
  <2>7. happened \subseteq happened'
    BY DEF Grows
  <2>8. ThreadOK(t)'
    <3>1. /\ row \in ThreadRow' /\ thread'[t] = row /\ calcs' = calcs /\ lock' = lock
          /\ row.at = "checking" /\ row.ver >= 1
          /\ Announced(row.event, row.ver)
          /\ \A i \in 1..Len(calcs) : calcs[i].ver <= row.ver
      BY <1>1, <1>4, <2>1, <2>2, <2>3, <2>5, <2>6
    <3>2. lock[t[1]] = t[2]
      BY <1>1, LockOwner
    <3>3. Announced(thread[t].event, thread[t].ver)' <=> Announced(row.event, row.ver)
      BY <3>1 DEF Announced
    <3>4. "checking" \in Locked /\ "checking" \in Loaded
      BY DEF Locked, Loaded
    <3>5. t[2] = "listener" => row.only = FALSE /\ row.event # NoEvent
      BY <1>1, <1>2, <2>2 DEF ThreadOK
    <3>6. t[2] = "http" => row.event = NoEvent /\ row.held = FALSE /\ "recalculate" \in happened'
      BY <1>1, <1>2, <2>2, <2>7 DEF ThreadOK
    <3>7. QED
      BY <3>1, <3>2, <3>3, <3>4, <3>5, <3>6 DEF ThreadOK
  <2>9. QED
    BY <1>1, <1>4, <2>5, <2>8, ThreadsKept DEF ScoringOK
<1>5. QED
  BY <1>3, <1>4 DEF LoadInputs, Keep, GivenUp

LEMMA ScoringCheckAgain ==
  ASSUME RelationsOK, RelationsOK', Grows, ScoringOK, NEW t \in Threads, CheckAgain(t)
  PROVE  ScoringOK'
<1>1. thread[t].at = "checking" /\ thread[t].at \in Locked /\ UNCHANGED calcs
  BY DEF CheckAgain, Locked
<1>2. ThreadOK(t)
  BY DEF ScoringOK
<1>3. CASE \/ Processed(thread[t].event) /\ Ended(t, "reporting") /\ Release(t)
           \/ Ended(t, "failing") /\ Release(t)
  BY <1>1, <1>3, ScoringEnds
<1>4. CASE Move(t, "versioning") /\ UNCHANGED lock
  <2>1. /\ thread' \in [Threads -> ThreadRow'] /\ thread'[t] \in ThreadRow'
        /\ \A o \in Threads : o # t => thread'[o] = thread[o]
        /\ thread'[t].at = "versioning" /\ thread'[t].event = thread[t].event
        /\ thread'[t].held = thread[t].held /\ thread'[t].only = thread[t].only
        /\ thread'[t].ver = thread[t].ver
    BY <1>4, Moved DEF Steps
  <2>2. happened \subseteq happened'
    BY DEF Grows
  <2>3. Announced(thread[t].event, thread[t].ver)' <=> Announced(thread[t].event, thread[t].ver)
    BY <2>1 DEF Announced
  <2>4. lock[t[1]] = t[2]
    BY <1>1, LockOwner
  <2>5. ThreadOK(t)'
    BY <1>1, <1>2, <1>4, <2>1, <2>2, <2>3, <2>4 DEF ThreadOK, Locked, Loaded
  <2>6. QED
    BY <1>1, <1>4, <2>1, <2>5, ThreadsKept DEF ScoringOK
<1>5. QED
  BY <1>3, <1>4 DEF CheckAgain, Keep, GivenUp

LEMMA ScoringReadVersion ==
  ASSUME RelationsOK, RelationsOK', Grows, ScoringOK, NEW t \in Threads, ReadVersion(t)
  PROVE  ScoringOK'
<1>1. thread[t].at = "versioning" /\ thread[t].at \in Locked /\ UNCHANGED calcs
  BY DEF ReadVersion, Locked
<1>2. CASE Ended(t, "failing") /\ Release(t)
  BY <1>1, <1>2, ScoringEnds
<1>3. SUFFICES ASSUME thread' = [thread EXCEPT ![t].at = "inserting", ![t].next = Len(calcs) + 1],
                      UNCHANGED lock
               PROVE  ScoringOK'
  BY <1>2 DEF ReadVersion, GivenUp, Keep
<1>4. /\ thread[t].at = "versioning" /\ thread[t].at \in Locked /\ UNCHANGED <<calcs, lock>>
      /\ thread' = [thread EXCEPT ![t].at = "inserting", ![t].next = Len(calcs) + 1]
  BY <1>1, <1>3
<1>5. ThreadOK(t) /\ thread \in [Threads -> ThreadRow] /\ Len(calcs) \in Nat
  BY LenProperties DEF ScoringOK
<1> DEFINE row == [[thread[t] EXCEPT !.at = "inserting"] EXCEPT !.next = Len(calcs) + 1]
<1>6. /\ row \in ThreadRow /\ row.at = "inserting" /\ row.next = Len(calcs) + 1
      /\ row.event = thread[t].event /\ row.held = thread[t].held
      /\ row.only = thread[t].only /\ row.ver = thread[t].ver
  <2>1. Len(calcs) + 1 \in Nat
    BY <1>5
  <2>2. QED
    BY <1>5, <2>1 DEF ThreadRow, Steps
<1>7. row \in ThreadRow'
  BY <1>6, SetsGrow
<1>8. thread' = [thread EXCEPT ![t] = row]
  BY <1>4, <1>5
<1> HIDE DEF row
<1>9. /\ thread' \in [Threads -> ThreadRow'] /\ thread'[t] = row
      /\ \A o \in Threads : o # t => thread'[o] = thread[o]
  BY <1>7, <1>8, ThreadReplaced
<1>10. happened \subseteq happened'
  BY DEF Grows
<1>11. Announced(thread[t].event, thread[t].ver)' <=> Announced(thread[t].event, thread[t].ver)
  BY <1>6, <1>9 DEF Announced
<1>12. lock[t[1]] = t[2]
  BY <1>4, LockOwner
<1>13. /\ row.next \in 1..Len(calcs) + 1
       /\ \A i \in row.next..Len(calcs) : FALSE
  BY <1>5, <1>6
<1>14. ThreadOK(t)'
  BY <1>4, <1>5, <1>6, <1>7, <1>9, <1>10, <1>11, <1>12, <1>13 DEF ThreadOK, Locked, Loaded
<1>15. QED
  BY <1>4, <1>9, <1>14, ThreadsKept DEF ScoringOK

\* The calculation that SaveRun stores is one somebody asked for.
LEMMA StoredCalculation ==
  ASSUME RelationsOK, ScoringOK, NEW t \in Threads, thread[t].at = "inserting"
  PROVE  [event |-> thread[t].event, ver |-> thread[t].ver, by |-> t[1]] \in Calculation
<1>1. /\ ThreadOK(t) /\ thread[t] \in ThreadRow /\ t[1] \in Replicas
      /\ t[2] \in {"listener", "http"}
  BY Pairs DEF ScoringOK
<1>2. thread[t].ver \in 1..clock
  <2>1. thread[t].ver \in 0..clock /\ thread[t].ver >= 1
    BY <1>1 DEF ThreadOK, ThreadRow, Loaded
  <2>2. QED
    BY <2>1, KnownAreEvents
<1>3. thread[t].event \in Asked
  <2>1. thread[t].event \in Known \cup {NoEvent}
    BY <1>1 DEF ThreadRow
  <2>2. t[2] = "listener" => thread[t].event # NoEvent
    BY <1>1 DEF ThreadOK
  <2>3. t[2] = "http" => thread[t].event = NoEvent /\ "recalculate" \in happened
    BY <1>1 DEF ThreadOK
  <2>4. QED
    BY <1>1, <2>1, <2>2, <2>3 DEF Asked
<1>4. QED
  BY <1>1, <1>2, <1>3 DEF Calculation

LEMMA ScoringSaveRun ==
  ASSUME RelationsOK, RelationsOK', Grows, ScoringOK, NEW t \in Threads, SaveRun(t)
  PROVE  ScoringOK'
<1>1. thread[t].at = "inserting" /\ thread[t].at \in Locked /\ Release(t)
  BY DEF SaveRun, Locked
<1>2. ASSUME UNCHANGED calcs, \/ Ended(t, "failing")
                              \/ Ended(t, OnConflict(thread[t].event))
      PROVE  ScoringOK'
  <2>1. PICK to \in {"reporting", "failing"} :
          /\ to = OnConflict(thread[t].event)
          /\ to = "reporting" => Processed(thread[t].event)
    BY DEF OnConflict
  <2>2. Ended(t, to) \/ Ended(t, "failing")
    BY <1>2, <2>1
  <2>3. QED
    BY <1>1, <1>2, <2>1, <2>2, ScoringEnds
<1>3. PICK c : c = [event |-> thread[t].event, ver |-> thread[t].ver, by |-> t[1]]
  OBVIOUS
<1>4. ASSUME calcs' = Append(calcs, c), NEW to \in {"reporting", "failing"}, Ended(t, to)
      PROVE  ScoringOK'
  <2>1. c \in Calculation /\ c \in Calculation'
    BY <1>1, <1>3, StoredCalculation, SetsGrow
  <2>2. calcs \in Seq(Calculation) /\ calcs \in Seq(Calculation')
    BY SetsGrow, SeqMonotonic DEF ScoringOK
  <2>3. calcs' \in Seq(Calculation')
    BY <1>4, <2>1, <2>2, AppendProperties
  <2>4. /\ lock' \in [Replicas -> {Free, "listener", "http"}] /\ lock'[t[1]] # t[2]
        /\ \A o \in Threads : o # t => (lock'[o[1]] = o[2] <=> lock[o[1]] = o[2])
    BY <1>1, Released
  <2>5. PICK event : event = thread[t].event
    OBVIOUS
  <2>6. t[2] = "listener" => Processed(event)'
    <3>1. SUFFICES ASSUME t[2] = "listener"
                   PROVE  Processed(event)'
      OBVIOUS
    <3>2. event # NoEvent
      BY <1>1, <2>5, <3>1 DEF ScoringOK, ThreadOK
    <3>3. /\ Len(calcs) \in Nat /\ Len(calcs') = Len(calcs) + 1
          /\ calcs'[Len(calcs) + 1] = c
      BY <1>4, <2>1, <2>2, AppendProperties, LenProperties
    <3>4. Len(calcs) + 1 \in 1..Len(calcs')
      BY <3>3
    <3>5. calcs'[Len(calcs) + 1].event = event
      BY <1>3, <2>5, <3>3
    <3>6. QED
      BY <3>2, <3>4, <3>5 DEF Processed
  <2>7. /\ thread' \in [Threads -> ThreadRow'] /\ ThreadOK(t)'
        /\ \A o \in Threads : o # t => thread'[o] = thread[o]
    BY <1>1, <1>4, <2>4, <2>5, <2>6, CallEnds DEF Locked
  <2>8. ASSUME NEW o \in Threads, o # t
        PROVE  ThreadOK(o)'
    <3>1. c.by = t[1]
      BY <1>3
    <3>2. c.by # o[1] \/ thread[o].at \notin Locked
      BY <1>1, <2>8, <3>1, LockOwner
    <3>3. ThreadOK(o) /\ thread'[o] = thread[o] /\ (lock'[o[1]] = o[2] <=> lock[o[1]] = o[2])
      BY <2>4, <2>7, <2>8 DEF ScoringOK
    <3>4. QED
      BY <1>4, <2>1, <2>2, <3>2, <3>3, ThreadBeside
  <2>9. \A o \in Threads : ThreadOK(o)'
    BY <2>7, <2>8
  <2>10. QED
    BY <2>3, <2>4, <2>7, <2>9 DEF ScoringOK
<1>5. CASE UNCHANGED calcs
  BY <1>2, <1>5 DEF SaveRun, StoreRun
<1>6. CASE ~UNCHANGED calcs
  <2>1. StoreRun(t) /\ (Ended(t, "reporting") \/ Ended(t, "failing"))
    BY <1>6 DEF SaveRun
  <2>2. QED
    BY <1>3, <1>4, <2>1 DEF StoreRun
<1>7. QED
  BY <1>5, <1>6

LEMMA ScoringReports ==
  ASSUME RelationsOK, RelationsOK', Grows, ScoringOK, NEW r \in Replicas,
         ReportCompleted(r) \/ ReportFailed(r)
  PROVE  ScoringOK'
<1> DEFINE t == <<r, "listener">>
<1>1. t \in Threads /\ t[1] = r /\ t[2] = "listener"
  BY Pairs
<1>2. UNCHANGED <<calcs, lock>> /\ thread[t].at \in {"reporting", "failing"}
  BY DEF ReportCompleted, ReportFailed
<1>3. ThreadOK(t)
  BY <1>1 DEF ScoringOK
<1>4. lock[r] # "listener"
  BY <1>1, <1>2, <1>3 DEF ThreadOK, Locked
<1> HIDE DEF t
<1>5. CASE thread' = [thread EXCEPT ![t] = Idle]
  <2>1. Idle \in ThreadRow'
    BY IdleRow, SetsGrow
  <2>2. /\ thread' \in [Threads -> ThreadRow'] /\ thread'[t] = Idle
        /\ \A o \in Threads : o # t => thread'[o] = thread[o]
    BY <1>1, <1>5, <2>1, ThreadReplaced
  <2>3. ThreadOK(t)'
    BY <1>1, <1>2, <1>4, <2>2, ThreadIdles
  <2>4. QED
    BY <1>1, <1>2, <2>2, <2>3, ThreadsKept DEF ScoringOK
<1>6. CASE Move(t, "failing")
  <2>1. /\ thread' \in [Threads -> ThreadRow'] /\ thread'[t] \in ThreadRow'
        /\ \A o \in Threads : o # t => thread'[o] = thread[o]
        /\ thread'[t].at = "failing" /\ thread'[t].event = thread[t].event
        /\ thread'[t].only = thread[t].only
    BY <1>1, <1>6, Moved DEF Steps
  <2>2. ThreadOK(t)'
    BY <1>1, <1>2, <1>3, <1>4, <2>1 DEF ThreadOK, Locked, Loaded
  <2>3. QED
    BY <1>1, <1>2, <2>1, <2>2, ThreadsKept DEF ScoringOK
<1>7. QED
  BY <1>5, <1>6 DEF ReportCompleted, ReportFailed, t

\* A thread that only loses its claim on the delivery.
LEMMA Unheld ==
  ASSUME Grows, ScoringOK, NEW t \in Threads, thread'[t] = [thread[t] EXCEPT !.held = FALSE],
         UNCHANGED <<calcs, lock>>
  PROVE  thread'[t] \in ThreadRow' /\ ThreadOK(t)'
<1>1. ThreadOK(t) /\ thread[t] \in ThreadRow /\ happened \subseteq happened'
  BY DEF ScoringOK, Grows
<1>2. /\ thread'[t] \in ThreadRow /\ thread'[t].at = thread[t].at
      /\ thread'[t].event = thread[t].event /\ thread'[t].held = FALSE
      /\ thread'[t].only = thread[t].only /\ thread'[t].ver = thread[t].ver
      /\ thread'[t].next = thread[t].next
  BY <1>1 DEF ThreadRow
<1>3. thread'[t] \in ThreadRow'
  BY <1>2, SetsGrow
<1>4. Announced(thread[t].event, thread[t].ver)' <=> Announced(thread[t].event, thread[t].ver)
  BY <1>2 DEF Announced
<1>5. Processed(thread[t].event)' <=> Processed(thread[t].event)
  BY <1>2 DEF Processed
<1>6. ThreadOK(t)'
  BY <1>1, <1>2, <1>3, <1>4, <1>5 DEF ThreadOK
<1>7. QED
  BY <1>3, <1>6

LEMMA ScoringLosesChannel ==
  ASSUME RelationsOK, RelationsOK', Grows, ScoringOK, NEW r \in Replicas, LoseChannel(r)
  PROVE  ScoringOK'
<1> DEFINE t == <<r, "listener">>
<1>1. t \in Threads
  BY Pairs
<1>2. /\ thread' = [thread EXCEPT ![t].held = FALSE] /\ UNCHANGED <<calcs, lock>>
      /\ thread \in [Threads -> ThreadRow]
  BY DEF LoseChannel, ScoringOK
<1> HIDE DEF t
<1>3. /\ thread'[t] = [thread[t] EXCEPT !.held = FALSE] /\ DOMAIN thread' = Threads
      /\ \A o \in Threads : o # t => thread'[o] = thread[o]
  BY <1>1, <1>2
<1>4. ThreadOK(t)' /\ thread'[t] \in ThreadRow'
  BY <1>1, <1>2, <1>3, Unheld
<1>5. thread' \in [Threads -> ThreadRow']
  <2>1. \A o \in Threads : thread'[o] \in ThreadRow'
    BY <1>2, <1>3, <1>4, SetsGrow
  <2>2. QED
    BY <1>2, <1>3, <2>1
<1>6. QED
  BY <1>1, <1>2, <1>3, <1>4, <1>5, ThreadsKept DEF ScoringOK

LEMMA ScoringRestartBroker ==
  ASSUME RelationsOK, RelationsOK', Grows, ScoringOK, RestartBroker
  PROVE  ScoringOK'
<1>1. /\ thread' = [t \in Threads |-> [thread[t] EXCEPT !.held = FALSE]]
      /\ UNCHANGED <<calcs, lock>>
  BY DEF RestartBroker
<1>2. ASSUME NEW t \in Threads
      PROVE  thread'[t] \in ThreadRow' /\ ThreadOK(t)'
  BY <1>1, Unheld
<1>3. thread' \in [Threads -> ThreadRow'] /\ \A t \in Threads : ThreadOK(t)'
  BY <1>1, <1>2
<1>4. calcs' \in Seq(Calculation') /\ lock' \in [Replicas -> {Free, "listener", "http"}]
  BY <1>1, SetsGrow, SeqMonotonic DEF ScoringOK
<1>5. QED
  BY <1>3, <1>4 DEF ScoringOK

LEMMA ScoringCrash ==
  ASSUME RelationsOK, RelationsOK', Grows, ScoringOK, NEW r \in Replicas, Crash(r)
  PROVE  ScoringOK'
<1> DEFINE t == <<r, "listener">>
           h == <<r, "http">>
<1>1. /\ t \in Threads /\ h \in Threads /\ t[1] = r /\ h[1] = r
      /\ t[2] = "listener" /\ h[2] = "http"
      /\ \A o \in Threads : o[1] = r => o = t \/ o = h
  BY Pairs
<1>2. /\ thread' = [thread EXCEPT ![t] = Idle, ![h] = Idle]
      /\ lock' = [lock EXCEPT ![r] = Free] /\ UNCHANGED calcs
      /\ thread \in [Threads -> ThreadRow]
      /\ lock \in [Replicas -> {Free, "listener", "http"}]
  BY DEF Crash, ScoringOK
<1> HIDE DEF t, h
<1>3. /\ DOMAIN thread' = Threads /\ thread'[t] = Idle /\ thread'[h] = Idle
      /\ \A o \in Threads : o[1] # r => thread'[o] = thread[o]
  BY <1>1, <1>2
<1>4. /\ lock' \in [Replicas -> {Free, "listener", "http"}] /\ lock'[r] = Free
      /\ \A q \in Replicas : q # r => lock'[q] = lock[q]
  BY <1>2
<1>5. Idle \in ThreadRow'
  BY IdleRow, SetsGrow
<1>6. \A o \in Threads : thread'[o] \in ThreadRow'
  BY <1>1, <1>2, <1>3, <1>5, SetsGrow
<1>7. thread' \in [Threads -> ThreadRow']
  BY <1>2, <1>3, <1>6
<1>8. ASSUME NEW o \in Threads
      PROVE  ThreadOK(o)'
  <2>1. CASE o[1] = r
    <3>1. thread'[o] = Idle /\ lock'[o[1]] # o[2]
      BY <1>1, <1>3, <1>4, <2>1, ScoringAssumption
    <3>2. QED
      BY <3>1, ThreadIdles
  <2>2. CASE o[1] # r
    <3>1. thread'[o] = thread[o] /\ lock'[o[1]] = lock[o[1]]
      BY <1>3, <1>4, <2>2, Pairs
    <3>2. QED
      BY <1>2, <3>1, ThreadKept DEF ScoringOK
  <2>3. QED
    BY <2>1, <2>2
<1>9. calcs' \in Seq(Calculation')
  BY <1>2, SetsGrow, SeqMonotonic DEF ScoringOK
<1>10. QED
  BY <1>4, <1>7, <1>8, <1>9 DEF ScoringOK

LEMMA ScoringStep ==
  ASSUME RelationsOK, ScoringOK, Next
  PROVE  ScoringOK'
<1>1. RelationsOK' /\ Grows
  BY RelationsStep
<1>2. CASE RelNext /\ UNCHANGED scoVars
  BY <1>1, <1>2, ScoringBeside
<1>3. CASE RestartBroker
  BY <1>1, <1>3, ScoringRestartBroker
<1>4. CASE BindQueue
  BY <1>1, <1>4, ScoringBeside DEF BindQueue
<1>5. ASSUME NEW r \in Replicas, TakeEvent(r) \/ LoseChannel(r) \/ Crash(r)
      PROVE  ScoringOK'
  BY <1>1, <1>5, ScoringTakeEvent, ScoringLosesChannel, ScoringCrash
<1>6. ASSUME NEW r \in Replicas, NEW only \in BOOLEAN, Request(r, only)
      PROVE  ScoringOK'
  BY <1>1, <1>6, ScoringRequest
<1>7. ASSUME NEW t \in Threads, ThreadStep(t)
      PROVE  ScoringOK'
  BY <1>1, <1>7, ScoringEnter, ScoringLoadInputs, ScoringCheckAgain, ScoringReadVersion,
     ScoringSaveRun DEF ThreadStep
<1>8. ASSUME NEW r \in Replicas, ReportCompleted(r) \/ ReportFailed(r)
      PROVE  ScoringOK'
  BY <1>1, <1>8, ScoringReports
<1>9. QED
  BY <1>2, <1>3, <1>4, <1>5, <1>6, <1>7, <1>8 DEF Next, ScoNext

-----------------------------------------------------------------------------
(* The calculations and the outcomes.                                      *)

\* Only a commit writes a calculation, and none is ever changed.
LEMMA CalculationsStep ==
  ASSUME Next
  PROVE  \/ UNCHANGED calcs
         \/ \E t \in Threads :
              /\ thread[t].at = "inserting"
              /\ Unique(thread[t].event, thread[t].next)
              /\ calcs' = Append(calcs, [event |-> thread[t].event,
                                         ver |-> thread[t].ver, by |-> t[1]])
<1>1. CASE RelNext /\ UNCHANGED scoVars
  BY <1>1 DEF scoVars
<1>2. CASE RestartBroker
  BY <1>2 DEF RestartBroker
<1>3. CASE BindQueue
  BY <1>3 DEF BindQueue, scoVars
<1>4. ASSUME NEW r \in Replicas, \/ TakeEvent(r) \/ LoseChannel(r) \/ Crash(r)
                                 \/ ReportCompleted(r) \/ ReportFailed(r)
      PROVE  UNCHANGED calcs
  BY <1>4 DEF TakeEvent, LoseChannel, Crash, ReportCompleted, ReportFailed
<1>5. ASSUME NEW r \in Replicas, NEW only \in BOOLEAN, Request(r, only)
      PROVE  UNCHANGED calcs
  BY <1>5 DEF Request
<1>6. ASSUME NEW t \in Threads, Enter(t) \/ LoadInputs(t) \/ CheckAgain(t) \/ ReadVersion(t)
      PROVE  UNCHANGED calcs
  BY <1>6 DEF Enter, LoadInputs, CheckAgain, ReadVersion
<1>7. ASSUME NEW t \in Threads, SaveRun(t)
      PROVE  \/ UNCHANGED calcs
             \/ /\ thread[t].at = "inserting"
                /\ Unique(thread[t].event, thread[t].next)
                /\ calcs' = Append(calcs, [event |-> thread[t].event,
                                           ver |-> thread[t].ver, by |-> t[1]])
  BY <1>7 DEF SaveRun, StoreRun, Insertable
<1>8. QED
  BY <1>1, <1>2, <1>3, <1>4, <1>5, <1>6, <1>7 DEF Next, ScoNext, ThreadStep

LEMMA CalculationsStay ==
  ASSUME ScoringOK, Next
  PROVE  /\ Len(calcs) \in Nat /\ Len(calcs') \in Nat /\ Len(calcs) <= Len(calcs')
         /\ \A i \in 1..Len(calcs) : calcs'[i] = calcs[i]
<1>1. calcs \in Seq(Calculation) /\ Len(calcs) \in Nat
  BY LenProperties DEF ScoringOK
<1>2. CASE UNCHANGED calcs
  BY <1>1, <1>2
<1>3. ASSUME NEW c, calcs' = Append(calcs, c)
      PROVE  /\ Len(calcs') = Len(calcs) + 1
             /\ \A i \in 1..Len(calcs) : calcs'[i] = calcs[i]
  <2>1. calcs \in Seq(Calculation \cup {c})
    BY <1>1, SeqMonotonic
  <2>2. QED
    BY <1>3, <2>1, AppendProperties
<1>4. CASE ~UNCHANGED calcs
  <2>1. PICK c : calcs' = Append(calcs, c)
    BY <1>4, CalculationsStep
  <2>2. QED
    BY <1>1, <1>3, <2>1
<1>5. QED
  BY <1>2, <1>4

\* Where an outcome comes from.
LEMMA OutcomeStep ==
  ASSUME RelationsOK, Next, NEW j \in Jobs, outcome'[j] # outcome[j]
  PROVE  \/ outcome'[j] = "pending"
         \/ /\ outcome'[j] = "COMPLETED"
            /\ \E r \in Replicas : /\ thread[<<r, "listener">>].at = "reporting"
                                   /\ thread[<<r, "listener">>].event.job = j
         \/ /\ outcome'[j] = "FAILED"
            /\ ~readable \/ \E r \in Replicas : thread[<<r, "listener">>].at = "failing"
<1>1. outcome \in [Jobs -> {"unsent", "pending", "COMPLETED", "FAILED"}]
  BY DEF RelationsOK
<1>2. ASSUME NEW job \in Jobs, SendNormalized(job) \/ CopyNormalized(job)
      PROVE  outcome'[j] = "pending"
  BY <1>1, <1>2 DEF SendNormalized, CopyNormalized
<1>3. CASE LoadFails
  <2>1. ~readable /\ (Settle(handling.job, "FAILED") \/ UNCHANGED outcome)
    BY <1>3 DEF LoadFails
  <2>2. QED
    BY <2>1, Settled
<1>4. ~(\/ Receive \/ LoadDataset \/ PublishBuilt \/ AckNormalized \/ BeginRebuild \/ EndRebuild
        \/ FileLost \/ FileRestored \/ Disconnect \/ RestartRelations \/ BrokerRestarts)
  BY DEF Receive, LoadDataset, PublishBuilt, AckNormalized, BeginRebuild, EndRebuild, FileLost,
         FileRestored, Disconnect, RestartRelations, BrokerRestarts
<1>5. ~BindQueue /\ \A r \in Replicas : ~TakeEvent(r) /\ ~LoseChannel(r) /\ ~Crash(r)
  BY DEF BindQueue, TakeEvent, LoseChannel, Crash
<1>6. \A r \in Replicas, only \in BOOLEAN : ~Request(r, only)
  BY DEF Request
<1>7. \A t \in Threads : ~ThreadStep(t)
  BY ThreadFaults DEF workVars
<1>8. ASSUME NEW r \in Replicas, ReportCompleted(r)
      PROVE  /\ outcome'[j] = "COMPLETED" /\ thread[<<r, "listener">>].at = "reporting"
             /\ thread[<<r, "listener">>].event.job = j
  <2>1. /\ thread[<<r, "listener">>].at = "reporting"
        /\ Settle(thread[<<r, "listener">>].event.job, "COMPLETED")
    BY <1>8 DEF ReportCompleted
  <2>2. QED
    BY <2>1, Settled
<1>9. ASSUME NEW r \in Replicas, ReportFailed(r)
      PROVE  outcome'[j] = "FAILED" /\ thread[<<r, "listener">>].at = "failing"
  <2>1. /\ thread[<<r, "listener">>].at = "failing"
        /\ Settle(thread[<<r, "listener">>].event.job, "FAILED")
    BY <1>9 DEF ReportFailed
  <2>2. QED
    BY <2>1, Settled
<1>10. QED
  BY <1>2, <1>3, <1>4, <1>5, <1>6, <1>7, <1>8, <1>9 DEF Next, RelNext, RestartBroker, ScoNext

LEMMA CompletedStep ==
  ASSUME RelationsOK, ScoringOK, CompletedHasRun, Next
  PROVE  CompletedHasRun'
<1>1. SUFFICES ASSUME NEW j \in Jobs, outcome'[j] = "COMPLETED"
               PROVE  \E i \in 1..Len(calcs') : calcs'[i].event # NoEvent /\ calcs'[i].event.job = j
  BY DEF CompletedHasRun
<1>2. \E i \in 1..Len(calcs) : calcs[i].event # NoEvent /\ calcs[i].event.job = j
  <2>1. CASE outcome'[j] = outcome[j]
    BY <1>1, <2>1 DEF CompletedHasRun
  <2>2. CASE outcome'[j] # outcome[j]
    <3>1. PICK r \in Replicas : /\ thread[<<r, "listener">>].at = "reporting"
                                /\ thread[<<r, "listener">>].event.job = j
      BY <1>1, <2>2, OutcomeStep
    <3>2. Processed(thread[<<r, "listener">>].event)
      BY <3>1, Pairs DEF ScoringOK, ThreadOK
    <3>3. QED
      BY <3>1, <3>2 DEF Processed
  <2>3. QED
    BY <2>1, <2>2
<1>3. QED
  BY <1>2, CalculationsStay

LEMMA AdvanceStep ==
  ASSUME RelationsOK, ScoringOK, FeaturesAdvance, Next
  PROVE  FeaturesAdvance'
<1>1. CASE UNCHANGED calcs
  BY <1>1 DEF FeaturesAdvance
<1>2. ASSUME NEW t \in Threads, NEW c, c.by = t[1], c.ver = thread[t].ver,
             thread[t].at = "inserting", calcs' = Append(calcs, c)
      PROVE  FeaturesAdvance'
  <2>1. /\ Len(calcs) \in Nat /\ Len(calcs') = Len(calcs) + 1 /\ calcs'[Len(calcs) + 1] = c
        /\ \A i \in 1..Len(calcs) : calcs'[i] = calcs[i]
    <3>1. calcs \in Seq(Calculation) /\ Len(calcs) \in Nat
      BY LenProperties DEF ScoringOK
    <3>2. calcs \in Seq(Calculation \cup {c})
      BY <3>1, SeqMonotonic
    <3>3. QED
      BY <1>2, <3>1, <3>2, AppendProperties
  <2>2. \A i \in 1..Len(calcs) : calcs[i].by = t[1] => calcs[i].ver <= thread[t].ver
    BY <1>2 DEF ScoringOK, ThreadOK, Loaded
  <2>3. SUFFICES ASSUME NEW i \in 1..Len(calcs'), NEW j \in 1..Len(calcs'), i < j,
                        calcs'[i].by = calcs'[j].by
                 PROVE  calcs'[i].ver <= calcs'[j].ver
    BY DEF FeaturesAdvance
  <2>4. i \in 1..Len(calcs) /\ (j \in 1..Len(calcs) \/ j = Len(calcs) + 1)
    BY <2>1, <2>3
  <2>5. CASE j \in 1..Len(calcs)
    <3>1. calcs'[i] = calcs[i] /\ calcs'[j] = calcs[j]
      BY <2>1, <2>4, <2>5
    <3>2. QED
      BY <2>3, <2>4, <2>5, <3>1 DEF FeaturesAdvance
  <2>6. CASE j = Len(calcs) + 1
    <3>1. calcs'[i] = calcs[i] /\ calcs'[j] = c
      BY <2>1, <2>4, <2>6
    <3>2. QED
      BY <1>2, <2>2, <2>3, <2>4, <3>1
  <2>7. QED
    BY <2>4, <2>5, <2>6
<1>3. QED
  BY <1>1, <1>2, CalculationsStep

-----------------------------------------------------------------------------
(* While nothing has happened that may fail a job.                         *)

LEMMA TwoReplicas ==
  ASSUME NEW p \in Replicas, NEW q \in Replicas, p # q
  PROVE  Cardinality(Replicas) > 1
<1>1. IsFiniteSet(Replicas) /\ IsFiniteSet(Replicas \ {p})
  BY ScoringAssumption, FS_RemoveElement
<1>2. Cardinality(Replicas \ {p}) = Cardinality(Replicas) - 1
  BY <1>1, FS_RemoveElement
<1>3. Cardinality(Replicas) \in Nat /\ Cardinality(Replicas \ {p}) \in Nat
  BY <1>1, FS_CardinalityType
<1>4. Cardinality(Replicas \ {p}) # 0
  BY <1>1, FS_EmptySet
<1>5. QED
  BY <1>2, <1>3, <1>4

\* Then every event is the same one.
LEMMA OneEvent ==
  ASSUME RelationsOK, QuietOK, Quiet, rebuilds = 0, NEW d \in Known, NEW e \in Known
  PROVE  d = e
<1>1. clock \in Nat /\ clock <= 1 /\ \A i, j \in Sent : i = j
  BY KnownAreEvents DEF QuietOK
<1>2. d \in [job : Sent, ver : 1..clock] /\ e \in [job : Sent, ver : 1..clock]
  BY DEF Known
<1>3. d.job = e.job /\ d.ver = e.ver
  BY <1>1, <1>2
<1>4. QED
  BY <1>2, <1>3

QuietRelations ==
  /\ \A i, j \in Sent : i = j
  /\ clock <= 1
  /\ handling # NoDelivery /\ handling.ver = 0 => clock = 0 /\ (connected => inbox = <<>>)
  /\ connected /\ inbox # <<>> => clock = 0 /\ Len(inbox) = 1 /\ handling = NoDelivery

LEMMA QuietSend ==
  ASSUME RelationsOK, QuietOK, Quiet, NEW job \in Jobs, SendNormalized(job)
  PROVE  QuietRelations'
<1>1. /\ UNCHANGED <<clock, connected, handling>> /\ inbox' = Append(inbox, job)
      /\ outcome' = [outcome EXCEPT ![job] = "pending"]
      /\ \A other \in Jobs : outcome[other] \in {"unsent", "FAILED"}
  BY DEF SendNormalized
<1>2. Sent = {}
  BY <1>1 DEF QuietOK, Sent
<1>3. /\ outcome \in [Jobs -> {"unsent", "pending", "COMPLETED", "FAILED"}]
      /\ inbox \in Seq({}) /\ handling = NoDelivery /\ ~(clock > 0) /\ clock \in Nat
  <2>1. [job : Sent, ver : 0..clock, sent : BOOLEAN] = {}
    BY <1>2
  <2>2. handling \in Deliveries
    BY DEF RelationsOK
  <2>3. handling = NoDelivery
    BY <2>1, <2>2 DEF Deliveries
  <2>4. QED
    BY <1>2, <2>3, KnownAreEvents DEF RelationsOK
<1>4. inbox = <<>> /\ clock = 0
  <2>1. ASSUME inbox # <<>>
        PROVE  FALSE
    BY <1>3, <2>1, HeadTailProperties
  <2>2. QED
    BY <1>3, <2>1
<1>5. \A i, j \in Sent' : i = j
  <2>1. \A i \in Sent' : i = job
    BY <1>1, <1>2, <1>3 DEF Sent
  <2>2. QED
    BY <2>1
<1>6. Len(inbox') = 1
  BY <1>1, <1>4
<1>7. QED
  BY <1>1, <1>3, <1>4, <1>5, <1>6 DEF QuietRelations

LEMMA QuietRelationsStep ==
  ASSUME RelationsOK, QuietOK, Quiet, Quiet', RelNext \/ BrokerRestarts
  PROVE  QuietRelations'
<1>1. QuietRelations
  BY DEF QuietOK, QuietRelations
<1>2. "copy" \notin happened' /\ "unreadable" \notin happened' /\ "restart" \notin happened'
      /\ readable
  BY DEF Quiet, Causes, RelationsOK
<1>3. UNCHANGED outcome => Sent' = Sent
  BY DEF Sent
<1>4. ASSUME NEW job \in Jobs, SendNormalized(job)
      PROVE  QuietRelations'
  BY <1>4, QuietSend
<1>5. \A job \in Jobs : ~CopyNormalized(job)
  BY <1>2 DEF CopyNormalized, Fault
<1>6. CASE Receive
  <2>1. /\ UNCHANGED <<clock, connected, outcome>> /\ connected /\ inbox # <<>>
        /\ inbox' = Tail(inbox)
    BY <1>6 DEF Receive
  <2>2. clock = 0 /\ Len(inbox) = 1 /\ inbox \in Seq(Sent)
    BY <1>1, <2>1 DEF QuietRelations, RelationsOK
  <2>3. inbox' = <<>>
    <3>1. inbox' \in Seq(Sent) /\ Len(inbox') = 0
      BY <2>1, <2>2, HeadTailProperties
    <3>2. QED
      BY <3>1, EmptySeq
  <2>4. QED
    BY <1>1, <1>3, <2>1, <2>2, <2>3 DEF QuietRelations
<1>7. CASE LoadDataset
  <2>1. /\ UNCHANGED <<connected, outcome, inbox>> /\ handling.job \in Jobs /\ handling.ver = 0
        /\ clock' = clock + 1 /\ handling' = [handling EXCEPT !.ver = clock']
    BY <1>7 DEF LoadDataset
  <2>2. handling # NoDelivery /\ handling \in [job : Sent, ver : 0..clock, sent : BOOLEAN]
    BY <2>1, RelationsAssumption DEF NoDelivery, Deliveries, RelationsOK
  <2>3. clock = 0 /\ (connected => inbox = <<>>)
    BY <1>1, <2>1, <2>2 DEF QuietRelations
  <2>4. clock' = 1 /\ handling'.ver = 1
    BY <2>1, <2>2, <2>3
  <2>5. QED
    BY <1>1, <1>3, <2>1, <2>3, <2>4 DEF QuietRelations
<1>8. ~LoadFails
  BY <1>2 DEF LoadFails
<1>9. CASE PublishBuilt \/ AckNormalized
  <2>1. /\ UNCHANGED <<clock, connected, outcome, inbox>>
        /\ handling.ver > 0 \/ handling.sent
        /\ handling' = NoDelivery \/ (handling.ver > 0 /\ handling' = [handling EXCEPT !.sent = TRUE])
    BY <1>9 DEF PublishBuilt, AckNormalized
  <2>2. handling # NoDelivery /\ handling \in [job : Sent, ver : 0..clock, sent : BOOLEAN]
    BY <2>1 DEF NoDelivery, Deliveries, RelationsOK
  <2>3. clock \in Nat
    BY KnownAreEvents
  <2>4. handling' = NoDelivery \/ ~(handling'.ver = 0)
    BY <2>1, <2>2, <2>3
  <2>5. QED
    BY <1>1, <1>3, <2>1, <2>2, <2>4 DEF QuietRelations
<1>10. CASE BeginRebuild \/ EndRebuild \/ FileRestored
  <2>1. UNCHANGED <<clock, connected, outcome, inbox, handling>>
    BY <1>10 DEF BeginRebuild, EndRebuild, FileRestored
  <2>2. QED
    BY <1>1, <1>3, <2>1 DEF QuietRelations
<1>11. ~FileLost /\ ~RestartRelations
  BY <1>2 DEF FileLost, RestartRelations, Fault
<1>12. CASE Disconnect \/ BrokerRestarts
  <2>1. UNCHANGED <<clock, outcome, handling>> /\ ~connected'
    BY <1>12 DEF Disconnect, BrokerRestarts
  <2>2. QED
    BY <1>1, <1>3, <2>1 DEF QuietRelations
<1>13. QED
  BY <1>4, <1>5, <1>6, <1>7, <1>8, <1>9, <1>10, <1>11, <1>12 DEF RelNext

\* Scoring leaves what relations has alone.
LEMMA QuietBeside ==
  ASSUME RelationsOK, ScoringOK, QuietOK, Quiet, ScoNext
  PROVE  QuietRelations'
<1>1. QuietRelations
  BY DEF QuietOK, QuietRelations
<1>2. UNCHANGED <<clock, connected, handling, inbox>>
  <2>1. BindQueue => UNCHANGED <<clock, connected, handling, inbox>>
    BY DEF BindQueue
  <2>2. \A r \in Replicas : TakeEvent(r) \/ LoseChannel(r) \/ Crash(r)
                              => UNCHANGED <<clock, connected, handling, inbox>>
    BY DEF TakeEvent, LoseChannel, Crash
  <2>3. \A r \in Replicas, only \in BOOLEAN :
          Request(r, only) => UNCHANGED <<clock, connected, handling, inbox>>
    BY DEF Request
  <2>4. \A t \in Threads : ThreadStep(t) => UNCHANGED <<clock, connected, handling, inbox>>
    BY ThreadFaults DEF workVars
  <2>5. \A r \in Replicas : ReportCompleted(r) \/ ReportFailed(r)
                              => UNCHANGED <<clock, connected, handling, inbox>>
    BY DEF ReportCompleted, ReportFailed
  <2>6. QED
    BY <2>1, <2>2, <2>3, <2>4, <2>5 DEF ScoNext
<1>3. Sent' = Sent
  <2>1. ASSUME NEW r \in Replicas, NEW status \in {"COMPLETED", "FAILED"},
               Settle(thread[<<r, "listener">>].event.job, status)
        PROVE  Sent' = Sent
    BY <2>1, Settled
  <2>2. UNCHANGED outcome => Sent' = Sent
    BY DEF Sent
  <2>3. BindQueue => UNCHANGED outcome
    BY DEF BindQueue
  <2>4. \A r \in Replicas : TakeEvent(r) \/ LoseChannel(r) \/ Crash(r) => UNCHANGED outcome
    BY DEF TakeEvent, LoseChannel, Crash
  <2>5. \A r \in Replicas, only \in BOOLEAN : Request(r, only) => UNCHANGED outcome
    BY DEF Request
  <2>6. \A t \in Threads : ThreadStep(t) => UNCHANGED outcome
    BY ThreadFaults DEF workVars
  <2>7. \A r \in Replicas : ReportCompleted(r) \/ ReportFailed(r) => Sent' = Sent
    BY <2>1, <2>2 DEF ReportCompleted, ReportFailed
  <2>8. QED
    BY <2>2, <2>3, <2>4, <2>5, <2>6, <2>7 DEF ScoNext
<1>4. QED
  BY <1>1, <1>2, <1>3 DEF QuietRelations

\* The step a thread can be at after another's or its own.
LEMMA StepsTaken ==
  ASSUME ScoringOK, NEW o \in Threads, NEW t, NEW to \in Steps,
         \/ Move(t, to) \/ Ended(t, to)
         \/ \E row : row.at = to /\ thread' = [thread EXCEPT ![t] = row]
         \/ thread' = [thread EXCEPT ![t].held = FALSE]
  PROVE  thread'[o].at \in {thread[o].at, to, "idle"}
<1>1. thread \in [Threads -> ThreadRow] /\ thread[o] \in ThreadRow
  BY DEF ScoringOK
<1>2. thread[o] = [at |-> thread[o].at, event |-> thread[o].event, held |-> thread[o].held,
                   only |-> thread[o].only, ver |-> thread[o].ver, next |-> thread[o].next]
  BY <1>1 DEF ThreadRow
<1>3. CASE Move(t, to)
  BY <1>1, <1>2, <1>3 DEF Move
<1>4. CASE thread' = [thread EXCEPT ![t] = Idle]
  BY <1>1, <1>4 DEF Idle
<1>5. CASE \E row : row.at = to /\ thread' = [thread EXCEPT ![t] = row]
  BY <1>1, <1>5
<1>6. CASE thread' = [thread EXCEPT ![t].held = FALSE]
  BY <1>1, <1>2, <1>6
<1>7. CASE thread' = [thread EXCEPT ![t].at = to, ![t].ver = 0, ![t].next = 0]
  BY <1>1, <1>2, <1>7
<1>8. QED
  BY <1>3, <1>4, <1>5, <1>6, <1>7 DEF Ended

LEMMA QuietLoads ==
  ASSUME RelationsOK, ScoringOK, QuietOK, Quiet, NEW r \in Replicas,
         thread[<<r, "listener">>].at = "loading"
  PROVE  snap > 0 /\ Announced(thread[<<r, "listener">>].event, snap)
<1>1. thread[<<r, "listener">>].event \in Known
  BY ListenerEvent
<1>2. clock \in Nat /\ clock <= 1 /\ snap = clock
  BY KnownAreEvents DEF QuietOK, RelationsOK, Quiet, Causes
<1>3. thread[<<r, "listener">>].event.ver \in 1..clock
  BY <1>1 DEF Known
<1>4. QED
  BY <1>2, <1>3 DEF Announced

\* The key a commit finds taken is the event's own.
LEMMA QuietSaves ==
  ASSUME RelationsOK, ScoringOK, QuietOK, Quiet, NEW r \in Replicas,
         thread[<<r, "listener">>].at = "inserting",
         ~Unique(thread[<<r, "listener">>].event, thread[<<r, "listener">>].next)
  PROVE  Processed(thread[<<r, "listener">>].event)
<1> DEFINE t == <<r, "listener">>
           event == thread[t].event
           next == thread[t].next
<1>1. SUFFICES ASSUME ~Processed(event)
               PROVE  FALSE
  OBVIOUS
<1>2. next \in 1..Len(calcs)
  BY <1>1 DEF Unique
<1>3. /\ t \in Threads /\ t[1] = r /\ ThreadOK(t) /\ Len(calcs) \in Nat
      /\ calcs[next] \in Calculation
  BY <1>2, Pairs, ElementOfSeq, LenProperties DEF ScoringOK
<1>4. calcs[next].by \in Replicas /\ calcs[next].by # r
  <2>1. \A i \in next..Len(calcs) : calcs[i].by # r
    BY <1>3 DEF ThreadOK
  <2>2. next \in next..Len(calcs)
    BY <1>2, <1>3
  <2>3. QED
    BY <1>3, <2>1, <2>2 DEF Calculation
<1>5. "recalculate" \notin happened /\ rebuilds = 0
  BY <1>4, TwoReplicas DEF Quiet
<1>6. calcs[next].event \in Known /\ event \in Known /\ event # NoEvent
  BY <1>3, <1>5, ListenerEvent DEF Calculation, Asked
<1>7. calcs[next].event = event
  BY <1>5, <1>6, OneEvent
<1>8. QED
  BY <1>1, <1>2, <1>6, <1>7 DEF Processed

LEMMA QuietThreads ==
  ASSUME RelationsOK, ScoringOK, QuietOK, Quiet, Quiet', Next, NEW r \in Replicas
  PROVE  thread'[<<r, "listener">>].at # "failing"
<1> DEFINE t == <<r, "listener">>
<1>1. t \in Threads /\ thread[t].at # "failing"
  BY Pairs DEF QuietOK
<1>2. /\ ~Fault("publish") /\ ~CallFails /\ ~StatementFails
      /\ records # "unparsable" /\ records # "unstorable"
  BY DEF Quiet, Causes, Fault, CallFails, StatementFails
<1> HIDE DEF t
<1>3. ASSUME NEW u, NEW to \in Steps \ {"failing"},
             \/ Move(u, to) \/ Ended(u, to)
             \/ \E row : row.at = to /\ thread' = [thread EXCEPT ![u] = row]
             \/ thread' = [thread EXCEPT ![u].held = FALSE]
      PROVE  thread'[t].at # "failing"
  BY <1>1, <1>3, StepsTaken
<1>4. CASE UNCHANGED thread
  BY <1>1, <1>4 DEF t
<1>5. CASE RestartBroker
  <2>1. thread'[t] = [thread[t] EXCEPT !.held = FALSE] /\ thread[t] \in ThreadRow
    BY <1>1, <1>5 DEF RestartBroker, ScoringOK
  <2>2. thread'[t].at = thread[t].at
    BY <2>1 DEF ThreadRow
  <2>3. QED
    BY <1>1, <2>2 DEF t
<1>6. ASSUME NEW q \in Replicas, TakeEvent(q)
      PROVE  thread'[t].at # "failing"
  <2>1. PICK row : row = [Idle EXCEPT !.at = "waiting", !.event = Head(built), !.held = TRUE]
    OBVIOUS
  <2>2. row.at = "waiting"
    BY <2>1 DEF Idle
  <2>3. thread' = [thread EXCEPT ![<<q, "listener">>] = row]
    BY <1>6, <2>1 DEF TakeEvent
  <2>4. QED
    BY <1>3, <2>2, <2>3 DEF Steps
<1>7. ASSUME NEW q \in Replicas, NEW only \in BOOLEAN, Request(q, only)
      PROVE  thread'[t].at # "failing"
  <2>1. PICK row : row = [Idle EXCEPT !.at = "waiting", !.only = only]
    OBVIOUS
  <2>2. row.at = "waiting"
    BY <2>1 DEF Idle
  <2>3. thread' = [thread EXCEPT ![<<q, "http">>] = row]
    BY <1>7, <2>1 DEF Request
  <2>4. QED
    BY <1>3, <2>2, <2>3 DEF Steps
<1>8. ASSUME NEW q \in Replicas, LoseChannel(q)
      PROVE  thread'[t].at # "failing"
  <2>1. thread' = [thread EXCEPT ![<<q, "listener">>].held = FALSE]
    BY <1>8 DEF LoseChannel
  <2>2. "idle" \in Steps /\ "idle" # "failing"
    BY DEF Steps
  <2>3. thread'[t].at \in {thread[t].at, "idle"}
    BY <1>1, <2>1, <2>2, StepsTaken
  <2>4. QED
    BY <1>1, <2>2, <2>3
<1>9. ASSUME NEW q \in Replicas, Crash(q)
      PROVE  thread'[t].at # "failing"
  <2>1. /\ thread' = [thread EXCEPT ![<<q, "listener">>] = Idle, ![<<q, "http">>] = Idle]
        /\ thread \in [Threads -> ThreadRow]
    BY <1>9 DEF Crash, ScoringOK
  <2>2. thread'[t] = thread[t] \/ thread'[t] = Idle
    BY <1>1, <2>1
  <2>3. QED
    BY <1>1, <2>2 DEF Idle
<1>10. ASSUME NEW u \in Threads, Enter(u) \/ CheckAgain(u)
       PROVE  thread'[t].at # "failing"
  <2>1. Ended(u, "reporting") \/ Move(u, "loading") \/ Move(u, "versioning")
    BY <1>2, <1>10 DEF Enter, CheckAgain
  <2>2. QED
    BY <1>3, <2>1 DEF Steps
<1>11. ASSUME NEW u \in Threads, LoadInputs(u)
       PROVE  thread'[t].at # "failing"
  <2>1. CASE thread' = [thread EXCEPT ![u].at = "checking", ![u].ver = snap]
    <3>1. thread \in [Threads -> ThreadRow]
      BY DEF ScoringOK
    <3>2. CASE u = t
      <4>1. thread[t] \in ThreadRow /\ thread'[t].at = "checking"
        BY <1>1, <2>1, <3>1, <3>2 DEF ThreadRow
      <4>2. QED
        BY <4>1
    <3>3. CASE u # t
      BY <1>1, <2>1, <3>1, <3>3
    <3>4. QED
      BY <3>2, <3>3
  <2>2. CASE Ended(u, "failing") /\ ~(snap > 0 /\ Announced(thread[u].event, snap))
    <3>1. u[2] # "listener"
      <4>1. ASSUME u[2] = "listener"
            PROVE  FALSE
        <5>1. u = <<u[1], "listener">> /\ u[1] \in Replicas /\ thread[u].at = "loading"
          BY <1>11, <4>1, Pairs DEF LoadInputs
        <5>2. QED
          BY <2>2, <5>1, QuietLoads
      <4>2. QED
        BY <4>1
    <3>2. thread' = [thread EXCEPT ![u] = Idle] /\ Idle.at = "idle"
      BY <2>2, <3>1 DEF Ended, Idle
    <3>3. QED
      BY <1>3, <3>2 DEF Steps
  <2>3. QED
    BY <1>2, <1>11, <2>1, <2>2 DEF LoadInputs, GivenUp
<1>12. ASSUME NEW u \in Threads, ReadVersion(u)
       PROVE  thread'[t].at # "failing"
  <2>1. /\ thread' = [thread EXCEPT ![u].at = "inserting", ![u].next = Len(calcs) + 1]
        /\ thread \in [Threads -> ThreadRow]
    BY <1>2, <1>12 DEF ReadVersion, ScoringOK
  <2>2. CASE u = t
    <3>1. thread[t] \in ThreadRow /\ thread'[t].at = "inserting"
      BY <1>1, <2>1, <2>2 DEF ThreadRow
    <3>2. QED
      BY <3>1
  <2>3. CASE u # t
    BY <1>1, <2>1, <2>3
  <2>4. QED
    BY <2>2, <2>3
<1>13. ASSUME NEW u \in Threads, SaveRun(u)
       PROVE  thread'[t].at # "failing"
  <2>1. CASE Ended(u, "reporting")
    BY <1>3, <2>1 DEF Steps
  <2>2. CASE /\ Ended(u, "failing") /\ ~Unique(thread[u].event, thread[u].next)
             /\ ~Processed(thread[u].event)
    <3>1. u[2] # "listener"
      <4>1. ASSUME u[2] = "listener"
            PROVE  FALSE
        <5>1. u = <<u[1], "listener">> /\ u[1] \in Replicas /\ thread[u].at = "inserting"
          BY <1>13, <4>1, Pairs DEF SaveRun
        <5>2. QED
          BY <2>2, <5>1, QuietSaves
      <4>2. QED
        BY <4>1
    <3>2. thread' = [thread EXCEPT ![u] = Idle] /\ Idle.at = "idle"
      BY <2>2, <3>1 DEF Ended, Idle
    <3>3. QED
      BY <1>3, <3>2 DEF Steps
  <2>3. QED
    BY <1>2, <1>13, <2>1, <2>2 DEF SaveRun, OnConflict, Insertable
<1>14. ASSUME NEW q \in Replicas, ReportCompleted(q) \/ ReportFailed(q)
       PROVE  thread'[t].at # "failing"
  <2>1. thread' = [thread EXCEPT ![<<q, "listener">>] = Idle]
    BY <1>2, <1>14 DEF ReportCompleted, ReportFailed
  <2>2. Idle.at = "idle"
    BY DEF Idle
  <2>3. QED
    BY <1>3, <2>1, <2>2 DEF Steps
<1>15. QED
  BY <1>4, <1>5, <1>6, <1>7, <1>8, <1>9, <1>10, <1>11, <1>12, <1>13, <1>14
     DEF Next, ScoNext, ThreadStep, BindQueue, scoVars, t

LEMMA QuietStep ==
  ASSUME RelationsOK, ScoringOK, QuietOK, Next
  PROVE  QuietOK'
<1>1. RelationsOK' /\ Grows
  BY RelationsStep
<1>2. SUFFICES ASSUME Quiet'
               PROVE  /\ \A j \in Jobs : outcome'[j] # "FAILED"
                      /\ \A r \in Replicas : thread'[<<r, "listener">>].at # "failing"
                      /\ QuietRelations'
  BY DEF QuietOK, QuietRelations
<1>3. Quiet
  BY <1>1, <1>2, SetsGrow
<1>4. readable
  BY <1>3 DEF Quiet, Causes, RelationsOK
<1>5. \A j \in Jobs : outcome'[j] # "FAILED"
  <2>1. SUFFICES ASSUME NEW j \in Jobs, outcome'[j] = "FAILED"
                 PROVE  FALSE
    OBVIOUS
  <2>2. outcome[j] # "FAILED" /\ \A r \in Replicas : thread[<<r, "listener">>].at # "failing"
    BY <1>3 DEF QuietOK
  <2>3. QED
    BY <1>4, <2>1, <2>2, OutcomeStep
<1>6. \A r \in Replicas : thread'[<<r, "listener">>].at # "failing"
  BY <1>2, <1>3, QuietThreads
<1>7. QuietRelations'
  BY <1>2, <1>3, QuietRelationsStep, QuietBeside DEF Next, RestartBroker
<1>8. QED
  BY <1>5, <1>6, <1>7

-----------------------------------------------------------------------------
(* The theorems.                                                           *)

LEMMA IInvInit == Init => IInv
<1>1. SUFFICES ASSUME Init
               PROVE  IInv
  OBVIOUS
<1>2. /\ snap = 0 /\ clock = 0 /\ readable = TRUE /\ connected = TRUE /\ inbox = <<>>
      /\ handling = NoDelivery /\ rebuild = 0 /\ rebuilds = 0 /\ bound = FALSE /\ built = <<>>
      /\ outcome = [j \in Jobs |-> "unsent"] /\ happened = {} /\ faults = 0
      /\ records \in Suitable
      /\ calcs = <<>> /\ thread = [t \in Threads |-> Idle] /\ lock = [r \in Replicas |-> Free]
  BY <1>1 DEF Init, RelInit, ScoInit
<1>3. \A j \in Jobs : outcome[j] = "unsent"
  BY <1>2
<1>4. Sent = {}
  BY <1>3 DEF Sent
<1>5. inbox \in Seq(Sent) /\ built \in Seq(Known) /\ calcs \in Seq(Calculation)
  BY <1>2, EmptySeq
<1>6. RelationsOK
  <2>1. /\ clock \in Counted /\ snap \in {0, clock} /\ rebuild \in 0..clock
        /\ rebuilds \in 0..MaxRebuilds /\ ~(rebuild > 0) /\ ~(clock > 0) /\ snap = clock
    BY <1>2, RelationsAssumption DEF Counted
  <2>2. outcome \in [Jobs -> {"unsent", "pending", "COMPLETED", "FAILED"}]
    BY <1>2
  <2>3. readable \in BOOLEAN /\ connected \in BOOLEAN /\ bound \in BOOLEAN /\ readable
    BY <1>2
  <2>4. FaultsOK
    BY <1>2, RelationsAssumption DEF FaultsOK
  <2>5. QED
    BY <1>2, <1>5, <2>1, <2>2, <2>3, <2>4 DEF RelationsOK, Deliveries
<1>7. ScoringOK
  <2>1. Idle \in ThreadRow /\ Idle.at = "idle" /\ Idle.event = NoEvent /\ Idle.held = FALSE
        /\ Idle.only = FALSE
    BY <1>6, IdleRow
  <2>2. thread \in [Threads -> ThreadRow] /\ lock \in [Replicas -> {Free, "listener", "http"}]
    BY <1>2, <2>1
  <2>3. ASSUME NEW t \in Threads
        PROVE  ThreadOK(t)
    <3>1. thread[t] = Idle /\ lock[t[1]] = Free /\ t[2] # Free
      BY <1>2, Pairs, ScoringAssumption
    <3>2. QED
      BY <2>1, <3>1 DEF ThreadOK, Locked, Loaded
  <2>4. QED
    BY <1>5, <2>2, <2>3 DEF ScoringOK
<1>8. QuietOK
  <2>1. \A r \in Replicas : thread[<<r, "listener">>].at # "failing"
    <3>1. \A r \in Replicas : thread[<<r, "listener">>] = Idle
      BY <1>2, Pairs
    <3>2. QED
      BY <1>6, <3>1, IdleRow
  <2>2. QED
    BY <1>2, <1>3, <1>4, <2>1 DEF QuietOK
<1>9. CompletedHasRun
  BY <1>3 DEF CompletedHasRun
<1>10. FeaturesAdvance
  <2>1. 1..Len(calcs) = {}
    BY <1>2
  <2>2. QED
    BY <2>1 DEF FeaturesAdvance
<1>11. QED
  BY <1>6, <1>7, <1>8, <1>9, <1>10 DEF IInv

LEMMA IInvStep == IInv /\ [Next]_vars => IInv'
<1>1. SUFFICES ASSUME IInv, [Next]_vars
               PROVE  IInv'
  OBVIOUS
<1>2. RelationsOK /\ ScoringOK /\ QuietOK /\ CompletedHasRun /\ FeaturesAdvance
  BY <1>1 DEF IInv
<1>3. CASE Next
  BY <1>2, <1>3, RelationsStep, ScoringStep, QuietStep, CompletedStep, AdvanceStep DEF IInv
<1>4. CASE UNCHANGED vars
  <2>1. /\ UNCHANGED <<snap, clock, readable, records, connected, inbox, handling, rebuild,
                       rebuilds, bound, built, outcome, happened, faults>>
        /\ UNCHANGED <<calcs, thread, lock>>
    BY <1>4 DEF vars, relVars, workVars, scoVars
  <2>2. Grows /\ Sent' = Sent
    BY <1>2, <2>1, Still
  <2>3. RelationsOK'
    BY <1>2, <2>1, <2>2, Carried DEF RelationsOK, FaultsOK
  <2>4. ScoringOK'
    BY <1>2, <2>1, <2>2, ScoringBeside DEF scoVars
  <2>5. QuietOK'
    BY <1>2, <2>1, <2>2 DEF QuietOK, Quiet
  <2>6. CompletedHasRun' /\ FeaturesAdvance'
    BY <1>2, <2>1 DEF CompletedHasRun, FeaturesAdvance
  <2>7. QED
    BY <2>3, <2>4, <2>5, <2>6 DEF IInv
<1>5. QED
  BY <1>1, <1>3, <1>4

\* The inductive invariant holds in every state of every behaviour of the two services.
THEOREM Invariance == Spec => []IInv
BY IInvInit, IInvStep, PTL DEF Spec

\* The queues, the snapshots, the threads, the locks and the stored calculations keep
\* their types: what is stored was loaded, and what is queued was published.
THEOREM TypeCorrect == Spec => []TypeOK
<1>1. ASSUME IInv
      PROVE  TypeOK
  <2>1. RelationsOK /\ ScoringOK
    BY <1>1 DEF IInv
  <2>2. /\ clock \in Counted /\ snap \in {0, clock} /\ rebuild \in 0..clock
        /\ rebuilds \in 0..MaxRebuilds
        /\ readable \in BOOLEAN /\ connected \in BOOLEAN /\ bound \in BOOLEAN
        /\ inbox \in Seq(Sent) /\ handling \in Deliveries
        /\ built \in Seq(Known) /\ records \in Suitable
        /\ outcome \in [Jobs -> {"unsent", "pending", "COMPLETED", "FAILED"}]
        /\ happened \subseteq Faults /\ faults \in 0..MaxFaults
    BY <2>1 DEF RelationsOK, FaultsOK
  <2>3. Known \subseteq Event /\ clock \in Nat
    BY <2>1, KnownAreEvents
  <2>4. Sent \subseteq Jobs /\ 0..clock \subseteq Counted /\ 1..clock \subseteq 1..MaxLoads
        /\ 0 \in Counted
    BY <2>2, <2>3, RelationsAssumption DEF Sent, Counted
  <2>5. snap \in Counted /\ rebuild \in Counted
    BY <2>2, <2>4
  <2>6. handling \in [job : Jobs \cup {RebuildJob}, ver : Counted, sent : BOOLEAN]
    <3>1. NoDelivery \in [job : Jobs \cup {RebuildJob}, ver : Counted, sent : BOOLEAN]
      BY <2>4 DEF NoDelivery
    <3>2. [job : Sent, ver : 0..clock, sent : BOOLEAN]
            \subseteq [job : Jobs \cup {RebuildJob}, ver : Counted, sent : BOOLEAN]
      BY <2>4
    <3>3. QED
      BY <2>2, <3>1, <3>2 DEF Deliveries
  <2>7. inbox \in Seq(Jobs) /\ built \in Seq(Event)
    BY <2>2, <2>3, <2>4, SeqMonotonic
  <2>8. calcs \in Seq([event : Event \cup {NoEvent}, ver : 1..MaxLoads, by : Replicas])
    <3>1. Asked \subseteq Event \cup {NoEvent}
      BY <2>3 DEF Asked
    <3>2. Calculation \subseteq [event : Event \cup {NoEvent}, ver : 1..MaxLoads, by : Replicas]
      BY <2>4, <3>1 DEF Calculation
    <3>3. QED
      BY <2>1, <3>2, SeqMonotonic DEF ScoringOK
  <2>9. thread \in [Threads -> [at : Steps, event : Event \cup {NoEvent}, held : BOOLEAN,
                                only : BOOLEAN, ver : Counted, next : Nat]]
    <3>1. ThreadRow \subseteq [at : Steps, event : Event \cup {NoEvent}, held : BOOLEAN,
                               only : BOOLEAN, ver : Counted, next : Nat]
      BY <2>3, <2>4 DEF ThreadRow
    <3>2. QED
      BY <2>1, <3>1 DEF ScoringOK
  <2>10. lock \in [Replicas -> {Free, "listener", "http"}]
    BY <2>1 DEF ScoringOK
  <2>11. QED
    BY <2>2, <2>5, <2>6, <2>7, <2>8, <2>9, <2>10 DEF TypeOK
<1>2. QED
  BY <1>1, Invariance, PTL

\* RelationsBuiltConsumer reports scoring.completed only for a run in the database,
\* through duplicates, races of replicas and crashes.
THEOREM CompletedIsStored == Spec => []CompletedHasRun
<1>1. IInv => CompletedHasRun
  BY DEF IInv
<1>2. QED
  BY <1>1, Invariance, PTL

\* Whatever else happens, and however often, a job fails only with records that do not suit
\* scoring, a replaced or lost snapshot, a lost file, a failed publication, a failed call of
\* relations, a failed statement of the database or, with two replicas, another calculation.
THEOREM FailuresAreCaused == Spec => []FailedHasCause
<1>1. ASSUME IInv
      PROVE  FailedHasCause
  <2>1. QuietOK /\ rebuilds \in Nat
    BY <1>1, RelationsAssumption DEF IInv, RelationsOK
  <2>2. SUFFICES ASSUME NEW j \in Jobs, outcome[j] = "FAILED"
                 PROVE  \/ records # "fit"
                        \/ happened \cap Causes # {}
                        \/ /\ Cardinality(Replicas) > 1
                           /\ "recalculate" \in happened \/ rebuilds > 0
    BY DEF FailedHasCause, Causes
  <2>3. ~Quiet
    BY <2>1, <2>2 DEF QuietOK
  <2>4. QED
    BY <2>1, <2>3 DEF Quiet
<1>2. QED
  BY <1>1, Invariance, PTL

\* One replica's calculations use features that never get older, because its lock covers
\* the step from the scoring inputs to the commit.
THEOREM FeaturesNeverGoBack == Spec => []FeaturesAdvance
<1>1. IInv => FeaturesAdvance
  BY DEF IInv
<1>2. QED
  BY <1>1, Invariance, PTL

-----------------------------------------------------------------------------
(* The calculations implement the ledger.                                  *)

Entry == [key : Event \cup {NoEvent}, ver : 1..MaxLoads]
EntriesOf(rows) == [i \in 1..Len(rows) |-> [key |-> rows[i].event, ver |-> rows[i].ver]]
StoredRow == [event : Event \cup {NoEvent}, ver : 1..MaxLoads, by : Replicas]

LEMMA EntriesOfRows ==
  ASSUME NEW rows \in Seq(StoredRow)
  PROVE  /\ EntriesOf(rows) \in Seq(Entry) /\ Len(EntriesOf(rows)) = Len(rows)
         /\ Len(rows) \in Nat
         /\ \A i \in 1..Len(rows) :
              EntriesOf(rows)[i] = [key |-> rows[i].event, ver |-> rows[i].ver]
<1>1. Len(rows) \in Nat /\ \A i \in 1..Len(rows) : rows[i] \in StoredRow
  BY LenProperties, ElementOfSeq
<1>2. \A i \in 1..Len(rows) : [key |-> rows[i].event, ver |-> rows[i].ver] \in Entry
  BY <1>1 DEF StoredRow, Entry
<1>3. EntriesOf(rows) \in [1..Len(rows) -> Entry]
  BY <1>2 DEF EntriesOf
<1>4. EntriesOf(rows) \in Seq(Entry)
  BY <1>1, <1>3
<1>5. QED
  BY <1>1, <1>3, <1>4, LenProperties DEF EntriesOf

LEMMA EntryAppended ==
  ASSUME NEW rows \in Seq(StoredRow), NEW c \in StoredRow
  PROVE  EntriesOf(Append(rows, c)) = Append(EntriesOf(rows), [key |-> c.event, ver |-> c.ver])
<1> DEFINE old == EntriesOf(rows)
           new == EntriesOf(Append(rows, c))
           entry == [key |-> c.event, ver |-> c.ver]
<1>1. /\ Append(rows, c) \in Seq(StoredRow) /\ Len(Append(rows, c)) = Len(rows) + 1
      /\ Len(rows) \in Nat
      /\ \A i \in 1..Len(rows) : Append(rows, c)[i] = rows[i]
      /\ Append(rows, c)[Len(rows) + 1] = c
  BY AppendProperties, LenProperties
<1>2. /\ old \in Seq(Entry) /\ Len(old) = Len(rows)
      /\ \A i \in 1..Len(rows) : old[i] = [key |-> rows[i].event, ver |-> rows[i].ver]
  BY EntriesOfRows
<1>3. /\ new \in Seq(Entry) /\ Len(new) = Len(rows) + 1
      /\ \A i \in 1..Len(rows) : new[i] = [key |-> rows[i].event, ver |-> rows[i].ver]
      /\ new[Len(rows) + 1] = entry
  <2>1. /\ new \in Seq(Entry) /\ Len(new) = Len(Append(rows, c))
        /\ \A i \in 1..Len(Append(rows, c)) :
             new[i] = [key |-> Append(rows, c)[i].event, ver |-> Append(rows, c)[i].ver]
    BY <1>1, EntriesOfRows
  <2>2. \A i \in 1..Len(rows) : i \in 1..Len(Append(rows, c))
    BY <1>1
  <2>3. Len(rows) + 1 \in 1..Len(Append(rows, c))
    BY <1>1
  <2>4. QED
    BY <1>1, <2>1, <2>2, <2>3
<1>4. entry \in Entry
  BY DEF Entry, StoredRow
<1> HIDE DEF old, new, entry
<1>5. /\ Append(old, entry) \in Seq(Entry) /\ Len(Append(old, entry)) = Len(rows) + 1
      /\ \A i \in 1..Len(rows) : Append(old, entry)[i] = old[i]
      /\ Append(old, entry)[Len(rows) + 1] = entry
  BY <1>2, <1>4, AppendProperties
<1>6. \A i \in 1..Len(new) : new[i] = Append(old, entry)[i]
  <2>1. \A i \in 1..Len(new) : i \in 1..Len(rows) \/ i = Len(rows) + 1
    BY <1>1, <1>3
  <2>2. \A i \in 1..Len(rows) : new[i] = Append(old, entry)[i]
    BY <1>2, <1>3, <1>5
  <2>3. new[Len(rows) + 1] = Append(old, entry)[Len(rows) + 1]
    BY <1>3, <1>5
  <2>4. QED
    BY <2>1, <2>2, <2>3
<1>7. new = Append(old, entry)
  BY <1>3, <1>5, <1>6, SeqEqual
<1>8. QED
  BY <1>7 DEF old, new, entry

ledger == [i \in 1..Len(calcs) |-> [key |-> calcs[i].event, ver |-> calcs[i].ver]]

LEMMA LedgerAppends ==
  ASSUME IInv, TypeOK, NEW t \in Threads, thread[t].at = "inserting",
         Unique(thread[t].event, thread[t].next),
         calcs' = Append(calcs, [event |-> thread[t].event, ver |-> thread[t].ver, by |-> t[1]])
  PROVE  Ledger!LNext
<1>1. PICK c : c = [event |-> thread[t].event, ver |-> thread[t].ver, by |-> t[1]]
  OBVIOUS
<1>2. calcs \in Seq(StoredRow)
  BY DEF TypeOK, StoredRow
<1>3. c \in Calculation /\ clock \in Counted /\ Known \subseteq Event
  BY <1>1, StoredCalculation, KnownAreEvents DEF IInv, RelationsOK
<1>4. c \in StoredRow /\ c.event = thread[t].event /\ c.ver = thread[t].ver
      /\ c.event \in Event \cup {NoEvent} /\ c.ver \in 1..MaxLoads
  <2>1. 1..clock \subseteq 1..MaxLoads
    BY <1>3, RelationsAssumption DEF Counted
  <2>2. c.event \in Asked /\ c.ver \in 1..clock /\ c.by \in Replicas
    BY <1>3 DEF Calculation
  <2>3. c.event \in Event \cup {NoEvent} /\ c.ver \in 1..MaxLoads
    BY <1>3, <2>1, <2>2 DEF Asked
  <2>4. c = [event |-> c.event, ver |-> c.ver, by |-> c.by]
    BY <1>1
  <2>5. QED
    BY <1>1, <2>2, <2>3, <2>4 DEF StoredRow
<1>5. ledger' = Append(ledger, [key |-> c.event, ver |-> c.ver])
  <2>1. calcs' = Append(calcs, c)
    BY <1>1
  <2>2. EntriesOf(calcs') = Append(EntriesOf(calcs), [key |-> c.event, ver |-> c.ver])
    BY <1>2, <1>4, <2>1, EntryAppended
  <2>3. QED
    BY <2>2 DEF ledger, EntriesOf
<1>6. CASE c.event = NoEvent
  <2>1. Ledger!EnterUnasked(c.ver)
    BY <1>5, <1>6 DEF Ledger!EnterUnasked, ledger
  <2>2. QED
    BY <1>4, <2>1 DEF Ledger!LNext
<1>7. CASE c.event # NoEvent
  <2>1. c.event \in Event /\ ~Processed(c.event)
    BY <1>4, <1>7 DEF Unique
  <2>2. Announced(c.event, c.ver)
    BY <1>4 DEF IInv, ScoringOK, ThreadOK, Loaded
  <2>3. c.event.ver = c.ver
    BY <1>7, <2>2 DEF Announced
  <2>4. ~Ledger!Entered(c.event)
    <3>1. /\ Len(ledger) = Len(calcs)
          /\ \A i \in 1..Len(calcs) : ledger[i].key = calcs[i].event
      BY <1>2, EntriesOfRows DEF ledger, EntriesOf
    <3>2. \A i \in 1..Len(ledger) : ledger[i].key # c.event
      BY <1>7, <2>1, <3>1 DEF Processed
    <3>3. QED
      BY <3>2 DEF Ledger!Entered, ledger
  <2>5. Ledger!EnterEvent(c.event)
    BY <1>5, <2>3, <2>4 DEF Ledger!EnterEvent, ledger
  <2>6. QED
    BY <2>1, <2>5 DEF Ledger!LNext
<1>8. QED
  BY <1>6, <1>7

LEMMA LedgerInit == Init => Ledger!LInit
<1>1. SUFFICES ASSUME calcs = <<>>
               PROVE  ledger = <<>>
  BY DEF Init, ScoInit, Ledger!LInit, ledger
<1>2. calcs \in Seq(StoredRow) /\ Len(calcs) = 0
  BY <1>1, EmptySeq
<1>3. EntriesOf(calcs) \in Seq(Entry) /\ Len(EntriesOf(calcs)) = 0
  BY <1>2, EntriesOfRows
<1>4. EntriesOf(calcs) = <<>>
  BY <1>3, EmptySeq
<1>5. QED
  BY <1>4 DEF ledger, EntriesOf

LEMMA LedgerStep == IInv /\ TypeOK /\ [Next]_vars => [Ledger!LNext]_ledger
<1>1. SUFFICES ASSUME IInv, TypeOK, [Next]_vars
               PROVE  Ledger!LNext \/ UNCHANGED ledger
  OBVIOUS
<1>2. CASE UNCHANGED calcs
  BY <1>2 DEF ledger
<1>3. CASE ~UNCHANGED calcs
  <2>1. Next
    BY <1>1, <1>3 DEF vars, scoVars
  <2>2. QED
    BY <1>1, <1>3, <2>1, CalculationsStep, LedgerAppends
<1>4. QED
  BY <1>2, <1>3

\* The stored calculations are the promised ledger: only appended to, at most one entry
\* per event, and with the features the event announced.
THEOREM CalculationsAreALedger == Spec => LedgerSpec
<1>1. Init => Ledger!LInit
  BY LedgerInit
<1>2. IInv /\ TypeOK /\ [Next]_vars => [Ledger!LNext]_ledger
  BY LedgerStep
<1>3. QED
  BY <1>1, <1>2, Invariance, TypeCorrect, PTL DEF Spec, LedgerSpec, Ledger!LSpec, ledger

-----------------------------------------------------------------------------
(* What the ledger says of the calculations themselves.                    *)

\* An event is calculated once, with the features it announced.
EventsCalculatedOnce ==
  /\ \A i \in 1..Len(calcs) : Announced(calcs[i].event, calcs[i].ver)
  /\ \A i, j \in 1..Len(calcs) : calcs[i].event = calcs[j].event /\ calcs[i].event # NoEvent => i = j

LEMMA CalculatedOnceStep ==
  ASSUME IInv, EventsCalculatedOnce, [Next]_vars
  PROVE  EventsCalculatedOnce'
<1>1. CASE UNCHANGED calcs
  BY <1>1 DEF EventsCalculatedOnce, Announced
<1>2. CASE ~UNCHANGED calcs
  <2>1. Next
    BY <1>2 DEF vars, scoVars
  <2>2. PICK t \in Threads :
          /\ thread[t].at = "inserting" /\ Unique(thread[t].event, thread[t].next)
          /\ calcs' = Append(calcs, [event |-> thread[t].event, ver |-> thread[t].ver, by |-> t[1]])
    BY <1>2, <2>1, CalculationsStep
  <2>3. PICK c : c = [event |-> thread[t].event, ver |-> thread[t].ver, by |-> t[1]]
    OBVIOUS
  <2>4. c.event = thread[t].event /\ c.ver = thread[t].ver /\ calcs' = Append(calcs, c)
    BY <2>2, <2>3
  <2>5. calcs \in Seq(Calculation) /\ c \in Calculation
    BY <2>2, <2>3, StoredCalculation DEF IInv, ScoringOK
  <2>6. /\ Len(calcs) \in Nat /\ Len(calcs') = Len(calcs) + 1 /\ calcs'[Len(calcs) + 1] = c
        /\ \A i \in 1..Len(calcs) : calcs'[i] = calcs[i]
    BY <2>4, <2>5, AppendProperties, LenProperties
  <2>7. Announced(c.event, c.ver)
    BY <2>2, <2>4 DEF IInv, ScoringOK, ThreadOK, Loaded
  <2>8. c.event # NoEvent => \A i \in 1..Len(calcs) : calcs[i].event # c.event
    BY <2>2, <2>4 DEF Unique, Processed
  <2>9. \A i \in 1..Len(calcs') : i \in 1..Len(calcs) \/ i = Len(calcs) + 1
    BY <2>6
  <2>10. \A i \in 1..Len(calcs') : Announced(calcs'[i].event, calcs'[i].ver)
    BY <2>6, <2>7, <2>9 DEF EventsCalculatedOnce
  <2>11. \A i, j \in 1..Len(calcs') :
           calcs'[i].event = calcs'[j].event /\ calcs'[i].event # NoEvent => i = j
    BY <2>6, <2>8, <2>9 DEF EventsCalculatedOnce
  <2>12. QED
    BY <2>10, <2>11 DEF EventsCalculatedOnce, Announced
<1>3. QED
  BY <1>1, <1>2

\* However often refund.relations.built is delivered and whichever replicas handle it, an
\* event has one calculation at most, made from the snapshot it announced, and a job is
\* COMPLETED only with such a calculation.
THEOREM EventsAreCalculatedOnce ==
  Spec => [](/\ EventsCalculatedOnce
             /\ \A j \in Jobs : outcome[j] = "COMPLETED" =>
                  \E i \in 1..Len(calcs) :
                    /\ calcs[i].event # NoEvent /\ calcs[i].event.job = j
                    /\ calcs[i].ver = calcs[i].event.ver)
<1> DEFINE Result == \A j \in Jobs : outcome[j] = "COMPLETED" =>
                       \E i \in 1..Len(calcs) :
                         /\ calcs[i].event # NoEvent /\ calcs[i].event.job = j
                         /\ calcs[i].ver = calcs[i].event.ver
<1>1. Init => EventsCalculatedOnce
  <2>1. SUFFICES ASSUME calcs = <<>>
                 PROVE  EventsCalculatedOnce
    BY DEF Init, ScoInit
  <2>2. Len(calcs) = 0
    BY <2>1, EmptySeq
  <2>3. QED
    BY <2>2 DEF EventsCalculatedOnce
<1>2. IInv /\ EventsCalculatedOnce /\ [Next]_vars => EventsCalculatedOnce'
  BY CalculatedOnceStep
<1>3. IInv /\ EventsCalculatedOnce => Result
  BY DEF IInv, CompletedHasRun, EventsCalculatedOnce, Announced
<1>4. QED
  BY <1>1, <1>2, <1>3, Invariance, PTL DEF Spec
=============================================================================
