--------------------------- MODULE EventConsumer ---------------------------
(***************************************************************************)
(* How the upload service takes the pipeline's events from its durable     *)
(* queue: one unacknowledged delivery at a time, a failed one published    *)
(* again at the tail with a retry count, and acknowledged only once the    *)
(* copy is confirmed; a delivery that cannot be handled goes to the        *)
(* dead-letter queue.  The broker and the handler's effect are abstract;   *)
(* the process and its connection may go down between any two steps.       *)
(***************************************************************************)
EXTENDS Naturals, Sequences

CONSTANTS
  Events,     \* how many events the producers publish, in the order of their numbers
  Malformed,  \* the events whose error is permanent
  MaxRetries, \* RABBITMQ_MAX_RETRIES
  MaxFaults   \* bound: how often a call fails halfway or the connection goes down

ASSUME BoundsAssumption ==
  Events \in Nat /\ MaxRetries \in Nat /\ MaxFaults \in Nat /\ Malformed \subseteq 1 .. Events

Event == 1 .. Events

VARIABLES
  published,  \* how many events the producers have published
  queue,      \* the ready messages of upload-service.events
  pc,         \* where the consumer is in process
  delivery,   \* the delivery it works on
  applied,    \* how often the effect of each event was committed
  failures,   \* how often the handler failed on each event
  dead,       \* how often each event reached the dead-letter queue
  faults      \* how many faults there were

vars == <<published, queue, pc, delivery, applied, failures, dead, faults>>

Message == [event : Event, retries : 0 .. MaxRetries]
Count == [Event -> Nat]
Zero == [e \in Event |-> 0]

TypeOK ==
  /\ published \in 0 .. Events
  /\ queue \in Seq(Message)
  /\ pc \in {"idle", "handling", "acking", "failed", "copied", "refused"}
  /\ IF pc = "idle" THEN delivery = <<>> ELSE delivery \in Message
  /\ applied \in Count /\ failures \in Count /\ dead \in Count
  /\ faults \in 0 .. MaxFaults

Init ==
  /\ published = 0 /\ queue = <<>>
  /\ pc = "idle" /\ delivery = <<>>
  /\ applied = Zero /\ failures = Zero /\ dead = Zero
  /\ faults = 0

\* A producer's message reaches the queue.
Publish ==
  /\ published < Events
  /\ published' = published + 1
  /\ queue' = Append(queue, [event |-> published + 1, retries |-> 0])
  /\ UNCHANGED <<pc, delivery, applied, failures, dead, faults>>

Deliver ==
  /\ pc = "idle" /\ queue # <<>>
  /\ pc' = "handling" /\ delivery' = Head(queue)
  /\ queue' = Tail(queue)
  /\ UNCHANGED <<published, applied, failures, dead, faults>>

-----------------------------------------------------------------------------
(* Consumer.process.                                                       *)

Fault == faults < MaxFaults /\ faults' = faults + 1
Settle == pc' = "idle" /\ delivery' = <<>>

HandlerSucceeds ==
  /\ pc = "handling" /\ delivery.event \notin Malformed
  /\ pc' = "acking"
  /\ applied' = [applied EXCEPT ![delivery.event] = @ + 1]
  /\ UNCHANGED <<published, queue, delivery, failures, dead, faults>>

\* The handler returns an error; as a fault, after its effect was committed.
HandlerFails ==
  /\ pc = "handling" /\ delivery.event \notin Malformed
  /\ pc' = "failed"
  /\ failures' = [failures EXCEPT ![delivery.event] = @ + 1]
  /\ \/ UNCHANGED <<applied, faults>>
     \/ Fault /\ applied' = [applied EXCEPT ![delivery.event] = @ + 1]
  /\ UNCHANGED <<published, queue, delivery, dead>>

\* Ack: the message is handled, or its copy is confirmed.
Ack ==
  /\ pc \in {"acking", "copied"}
  /\ Settle
  /\ UNCHANGED <<published, queue, applied, failures, dead, faults>>

\* Mutants: there is no retry cap; it is reached one failure early.
ExhaustedNever == FALSE
ExhaustedEarly == delivery.retries + 1 >= MaxRetries
Exhausted == delivery.retries >= MaxRetries

\* Mutants: the message goes back to the tail; it was acknowledged on delivery.
BackToTail == queue' = Append(queue, delivery)
BackNever == UNCHANGED queue
\* The broker puts a message that was not acknowledged back to the head.
Back == queue' = <<delivery>> \o queue

GiveUp ==
  /\ Settle
  /\ dead' = [dead EXCEPT ![delivery.event] = @ + 1]
  /\ UNCHANGED <<published, queue, applied, failures, faults>>
\* Mutant: a malformed event is requeued.
DeadLetterExhausted ==
  \/ /\ pc = "handling" /\ delivery.event \in Malformed
     /\ Back /\ Settle
     /\ UNCHANGED <<published, applied, failures, dead, faults>>
  \/ pc = "failed" /\ Exhausted /\ GiveUp
\* Nack without requeue
DeadLetter ==
  /\ \/ pc = "handling" /\ delivery.event \in Malformed
     \/ pc = "failed" /\ Exhausted
  /\ GiveUp

\* Mutant: the copy carries the count of the original.
AgainUncounted == delivery
Again == [delivery EXCEPT !.retries = @ + 1]

\* The copy goes to the tail of the queue.
Republish ==
  /\ pc = "failed" /\ ~Exhausted
  /\ pc' = "copied"
  /\ queue' = Append(queue, Again)
  /\ UNCHANGED <<published, delivery, applied, failures, dead, faults>>

\* The publish fails or the broker refuses the copy.
RepublishRefused ==
  /\ pc = "failed" /\ ~Exhausted
  /\ Fault
  /\ pc' = "refused"
  /\ UNCHANGED <<published, queue, delivery, applied, failures, dead>>

\* Nack with requeue
Requeue ==
  /\ pc = "refused"
  /\ Back /\ Settle
  /\ UNCHANGED <<published, applied, failures, dead, faults>>

\* The connection or the process goes down, in any step of process; the broker puts
\* back what was not acknowledged, and the restarted service consumes again.
GoDown ==
  /\ pc # "idle"
  /\ Fault
  /\ Back /\ Settle
  /\ UNCHANGED <<published, applied, failures, dead>>

ConsumerStep ==
  \/ Deliver \/ HandlerSucceeds \/ HandlerFails \/ Ack \/ DeadLetter
  \/ Republish \/ RepublishRefused \/ Requeue

Next == Publish \/ ConsumerStep \/ GoDown
Spec == Init /\ [][Next]_vars

-----------------------------------------------------------------------------
(* Properties.                                                             *)

Queued(e) == \E k \in DOMAIN queue : queue[k].event = e
Settled(e) == applied[e] > 0 \/ dead[e] > 0

\* No event is lost between the failed handling, the copy and the acknowledgement:
\* until it was handled or is dead it is queued or being worked on.
NoEventLost ==
  \A e \in 1 .. published : Settled(e) \/ Queued(e) \/ (pc # "idle" /\ delivery.event = e)

\* An event is given up only when it is malformed or was tried as often as configured.
DeadWasTried ==
  \A e \in Event : dead[e] > 0 =>
    IF e \in Malformed THEN failures[e] = 0 ELSE failures[e] > MaxRetries

\* It takes a fault to handle an event twice, to handle a dead one, or to try it more
\* often than configured.
OnceWithoutFault ==
  faults = 0 => \A e \in Event : applied[e] + dead[e] <= 1 /\ failures[e] <= MaxRetries + 1

\* An event overtakes an earlier one only if the earlier one failed: a restart alone
\* keeps the order in which the pipeline's events were published.
OvertakenOnlyByRetry ==
  \A e, f \in Event : e < f /\ Settled(f) /\ ~Settled(e) => failures[e] > 0

\* The consumer goes on as long as the process runs.
FairSpec == Spec /\ WF_vars(ConsumerStep)

\* Every event that reached the queue is handled or ends in the dead-letter queue.
EveryEventSettles == \A e \in Event : published >= e ~> Settled(e)
=============================================================================
