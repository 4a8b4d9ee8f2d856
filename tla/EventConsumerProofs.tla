------------------------- MODULE EventConsumerProofs -------------------------
(* The safety of EventConsumer for every number of events, of retries and  *)
(* of faults, and for every set of malformed events.                       *)
EXTENDS EventConsumer, SequenceTheorems, TLAPS

-----------------------------------------------------------------------------
(* The inductive invariant.                                                *)

InWork(e) == pc # "idle" /\ delivery.event = e
\* No handler has had a result for e yet.
Untouched(e) == applied[e] = 0 /\ dead[e] = 0 /\ failures[e] = 0

\* Only what was published is anywhere in the system.
KnownArePublished ==
  /\ \A k \in DOMAIN queue : queue[k].event <= published
  /\ pc # "idle" => delivery.event <= published
  /\ \A e \in Event : e > published => Untouched(e)

\* What the consumer did with its delivery shows in the counts and in the queue.
WorkIsRecorded ==
  /\ pc = "acking" => applied[delivery.event] > 0
  /\ pc = "copied" => Queued(delivery.event)

\* A copy carries no more retries than its event has failures; a malformed event has none.
RetriesAreFailures ==
  /\ \A k \in DOMAIN queue : queue[k].retries <= failures[queue[k].event]
  /\ pc # "idle" => delivery.retries <= failures[delivery.event]
  /\ pc \in {"failed", "copied", "refused"} => delivery.retries < failures[delivery.event]
  /\ pc \in {"acking", "failed", "copied", "refused"} => delivery.event \notin Malformed
  /\ \A e \in Event \cap Malformed : failures[e] = 0

\* An event nothing was done with holds up every later one: it is ahead of them in the
\* queue or in work, and nothing was done with them either.
Ahead(e, f) ==
  \/ InWork(e)
  \/ \A k \in DOMAIN queue : queue[k].event = f =>
       \E j \in DOMAIN queue : j < k /\ queue[j].event = e
InOrder ==
  \A e, f \in Event : e < f /\ f <= published /\ Untouched(e) =>
    Untouched(f) /\ ~InWork(f) /\ Ahead(e, f)

\* Without a fault an event is in one place, and its retries are its failures.
OnceInFlight ==
  /\ pc # "refused"
  /\ \A j, k \in DOMAIN queue : queue[j].event = queue[k].event => j = k
  /\ \A k \in DOMAIN queue :
       /\ applied[queue[k].event] = 0 /\ dead[queue[k].event] = 0
       /\ failures[queue[k].event] = queue[k].retries
  /\ pc \in {"handling", "failed", "acking"} => ~Queued(delivery.event)
  /\ pc \in {"handling", "failed"} =>
       /\ applied[delivery.event] = 0 /\ dead[delivery.event] = 0
       /\ failures[delivery.event] = delivery.retries + (IF pc = "failed" THEN 1 ELSE 0)
FaultFree == faults = 0 => OnceInFlight

IInv ==
  /\ TypeOK /\ KnownArePublished /\ WorkIsRecorded /\ RetriesAreFailures
  /\ NoEventLost /\ DeadWasTried /\ InOrder /\ FaultFree /\ OnceWithoutFault

-----------------------------------------------------------------------------
(* What the operations do to the queue.                                    *)

\* What is in the queue is a message, at a position.
LEMMA QueueTypes ==
  ASSUME TypeOK
  PROVE  /\ queue \in Seq(Message) /\ Len(queue) \in Nat /\ DOMAIN queue = 1 .. Len(queue)
         /\ \A k \in DOMAIN queue :
              /\ k \in Nat /\ queue[k] \in Message /\ queue[k].event \in Event
              /\ queue[k].retries \in Nat /\ queue[k].retries <= MaxRetries
<1>1. queue \in Seq(Message)
  BY DEF TypeOK
<1>2. Len(queue) \in Nat /\ DOMAIN queue = 1 .. Len(queue)
  BY <1>1, LenProperties
<1>3. \A k \in DOMAIN queue : k \in Nat /\ queue[k] \in Message
  BY <1>1, <1>2, ElementOfSeq
<1>4. \A m \in Message : m.event \in Event /\ m.retries \in Nat /\ m.retries <= MaxRetries
  BY BoundsAssumption DEF Message
<1>5. QED
  BY <1>1, <1>2, <1>3, <1>4

\* A message appended to the queue leaves the others where they are.
LEMMA Pushed ==
  ASSUME TypeOK, NEW m \in Message, queue' = Append(queue, m)
  PROVE  /\ queue' \in Seq(Message)
         /\ \A k \in DOMAIN queue : k \in DOMAIN queue' /\ queue'[k] = queue[k]
         /\ Len(queue) + 1 \in DOMAIN queue' /\ queue'[Len(queue) + 1] = m
         /\ \A k \in DOMAIN queue' : k \in DOMAIN queue \/ k = Len(queue) + 1
<1>1. /\ queue' \in Seq(Message) /\ Len(queue') = Len(queue) + 1
      /\ \A k \in 1 .. Len(queue) : queue'[k] = queue[k]
      /\ queue'[Len(queue) + 1] = m
  BY QueueTypes, AppendProperties
<1>2. DOMAIN queue' = 1 .. Len(queue')
  BY <1>1, LenProperties
<1>3. QED
  BY <1>1, <1>2, QueueTypes

\* The message delivered was the first, and the others move up.
LEMMA Popped ==
  ASSUME TypeOK, queue # <<>>, queue' = Tail(queue)
  PROVE  /\ queue' \in Seq(Message)
         /\ 1 \in DOMAIN queue /\ Head(queue) = queue[1]
         /\ \A k \in DOMAIN queue' : k \in Nat /\ k + 1 \in DOMAIN queue /\ queue'[k] = queue[k + 1]
         /\ \A k \in DOMAIN queue : k = 1 \/ (k - 1 \in DOMAIN queue' /\ queue'[k - 1] = queue[k])
<1>1. queue \in Seq(Message) /\ Len(queue) \in Nat \ {0}
  BY QueueTypes, EmptySeq
<1>2. /\ queue' \in Seq(Message) /\ Len(queue') = Len(queue) - 1
      /\ \A k \in 1 .. Len(queue') : queue'[k] = queue[k + 1]
  BY <1>1, HeadTailProperties
<1>3. DOMAIN queue' = 1 .. Len(queue')
  BY <1>2, LenProperties
<1>4. Head(queue) = queue[1]
  BY <1>1
<1>5. QED
  BY <1>1, <1>2, <1>3, <1>4, QueueTypes

\* A message put back is the first again, and the others move down.
LEMMA PutBack ==
  ASSUME TypeOK, delivery \in Message, Back
  PROVE  /\ queue' \in Seq(Message)
         /\ 1 \in DOMAIN queue' /\ queue'[1] = delivery
         /\ \A k \in DOMAIN queue : k + 1 \in DOMAIN queue' /\ queue'[k + 1] = queue[k]
         /\ \A k \in DOMAIN queue' :
              k = 1 \/ (k \in Nat /\ k - 1 \in DOMAIN queue /\ queue'[k] = queue[k - 1])
<1>1. queue \in Seq(Message) /\ <<delivery>> \in Seq(Message) /\ Len(<<delivery>>) = 1
  BY DEF TypeOK
<1>2. /\ queue' \in Seq(Message) /\ Len(queue') = 1 + Len(queue)
      /\ \A k \in 1 .. 1 + Len(queue) :
           queue'[k] = IF k <= 1 THEN <<delivery>>[k] ELSE queue[k - 1]
  BY <1>1, ConcatProperties DEF Back
<1>3. DOMAIN queue' = 1 .. Len(queue')
  BY <1>2, LenProperties
<1>4. QED
  BY <1>2, <1>3, QueueTypes

-----------------------------------------------------------------------------
(* Types, and the counts only grow.                                        *)

\* What the consumer works on is a message of a published or known event.
LEMMA InWorkTypes ==
  ASSUME TypeOK, pc # "idle"
  PROVE  /\ delivery \in Message /\ delivery.event \in Event
         /\ delivery.retries \in 0 .. MaxRetries
BY DEF TypeOK, Message

LEMMA TypeStep ==
  ASSUME TypeOK, Next
  PROVE  TypeOK'
<1> USE BoundsAssumption
<1>1. CASE Publish
  <2>1. [event |-> published + 1, retries |-> 0] \in Message
    BY <1>1 DEF Publish, TypeOK, Message, Event
  <2>2. queue' \in Seq(Message)
    BY <1>1, <2>1, Pushed DEF Publish
  <2>3. QED
    BY <1>1, <2>2 DEF Publish, TypeOK
<1>2. CASE Deliver
  BY <1>2, Popped DEF Deliver, TypeOK
<1>3. CASE HandlerSucceeds
  BY <1>3, InWorkTypes DEF HandlerSucceeds, TypeOK, Count
<1>4. CASE HandlerFails
  <2>1. applied' \in Count /\ failures' \in Count
    <3>1. delivery.event \in Event /\ applied \in Count /\ failures \in Count
      BY <1>4, InWorkTypes DEF HandlerFails, TypeOK
    <3>2. failures' \in Count
      BY <1>4, <3>1 DEF HandlerFails, Count
    <3>3. applied' = applied
            \/ applied' = [applied EXCEPT ![delivery.event] = applied[delivery.event] + 1]
      BY <1>4 DEF HandlerFails
    <3>4. QED
      BY <3>1, <3>2, <3>3 DEF Count
  <2>2. faults' \in 0 .. MaxFaults
    BY <1>4 DEF HandlerFails, Fault, TypeOK
  <2>3. delivery' \in Message
    BY <1>4, InWorkTypes DEF HandlerFails
  <2>4. QED
    BY <1>4, <2>1, <2>2, <2>3 DEF HandlerFails, TypeOK
<1>5. CASE Ack
  BY <1>5 DEF Ack, Settle, TypeOK
<1>6. CASE DeadLetter
  BY <1>6, InWorkTypes DEF DeadLetter, GiveUp, Settle, TypeOK, Count
<1>7. CASE Republish
  <2>1. Again \in Message
    BY <1>7, InWorkTypes DEF Republish, Exhausted, Again, Message
  <2>2. queue' \in Seq(Message)
    BY <1>7, <2>1, Pushed DEF Republish
  <2>3. QED
    BY <1>7, <2>2 DEF Republish, TypeOK
<1>8. CASE RepublishRefused
  BY <1>8 DEF RepublishRefused, Fault, TypeOK
<1>9. CASE Requeue \/ GoDown
  BY <1>9, InWorkTypes, PutBack DEF Requeue, GoDown, Fault, Settle, TypeOK
<1>10. QED
  BY <1>1, <1>2, <1>3, <1>4, <1>5, <1>6, <1>7, <1>8, <1>9 DEF Next, ConsumerStep

\* The counts only grow, and only for the event in work.
LEMMA CountsGrow ==
  ASSUME TypeOK, Next
  PROVE  \A e \in Event :
           /\ applied[e] \in Nat /\ dead[e] \in Nat /\ failures[e] \in Nat
           /\ applied'[e] >= applied[e] /\ dead'[e] >= dead[e] /\ failures'[e] >= failures[e]
           /\ ~InWork(e) => /\ applied'[e] = applied[e] /\ dead'[e] = dead[e]
                            /\ failures'[e] = failures[e]
<1>1. applied \in Count /\ dead \in Count /\ failures \in Count
  BY DEF TypeOK
<1>2. CASE UNCHANGED <<applied, dead, failures>>
  BY <1>1, <1>2 DEF Count
<1>3. CASE HandlerSucceeds
  BY <1>1, <1>3, InWorkTypes DEF HandlerSucceeds, Count, InWork
<1>4. CASE HandlerFails
  BY <1>1, <1>4, InWorkTypes DEF HandlerFails, Count, InWork
<1>5. CASE DeadLetter
  BY <1>1, <1>5, InWorkTypes DEF DeadLetter, GiveUp, Count, InWork
<1>6. QED
  BY <1>2, <1>3, <1>4, <1>5 DEF Next, ConsumerStep, Publish, Deliver, Ack, Republish,
     RepublishRefused, Requeue, GoDown

-----------------------------------------------------------------------------
(* One lemma per part of the invariant.                                    *)

LEMMA KnownStep ==
  ASSUME TypeOK, KnownArePublished, Next
  PROVE  KnownArePublished'
<1> USE BoundsAssumption
<1>1. published \in Nat /\ published' \in Nat /\ published' >= published
  BY DEF TypeOK, Next, ConsumerStep, Publish, Deliver, HandlerSucceeds, HandlerFails, Ack,
     DeadLetter, GiveUp, Republish, RepublishRefused, Requeue, GoDown
<1>2. ASSUME NEW e \in Event, e > published'
      PROVE  Untouched(e)'
  <2>1. e > published
    BY <1>1, <1>2 DEF Event
  <2>2. ~InWork(e)
    BY <1>1, <2>1, InWorkTypes DEF KnownArePublished, InWork, Event
  <2>3. QED
    BY <2>1, <2>2, CountsGrow DEF KnownArePublished, Untouched
<1>3. ASSUME \A k \in DOMAIN queue' : queue'[k].event <= published',
             pc' # "idle" => delivery'.event <= published'
      PROVE  KnownArePublished'
  BY <1>2, <1>3 DEF KnownArePublished
<1>4. CASE Publish
  <2>1. LET m == [event |-> published + 1, retries |-> 0]
        IN  m \in Message /\ m.event = published + 1 /\ queue' = Append(queue, m)
    BY <1>4 DEF Publish, TypeOK, Message, Event
  <2>2. \A k \in DOMAIN queue : queue[k].event <= published'
    BY <1>1, <1>4, QueueTypes DEF Publish, KnownArePublished, Event
  <2>3. \A k \in DOMAIN queue' : queue'[k].event <= published'
    BY <1>1, <1>4, <2>1, <2>2, Pushed DEF Publish
  <2>4. pc' # "idle" => delivery'.event <= published'
    BY <1>1, <1>4, InWorkTypes DEF Publish, KnownArePublished, Event
  <2>5. QED
    BY <1>3, <2>3, <2>4
<1>5. CASE Deliver
  BY <1>3, <1>5, Popped DEF Deliver, KnownArePublished
<1>6. CASE HandlerSucceeds \/ HandlerFails \/ Ack \/ DeadLetter \/ RepublishRefused
  BY <1>3, <1>6 DEF HandlerSucceeds, HandlerFails, Ack, DeadLetter, GiveUp, Settle,
     RepublishRefused, KnownArePublished
<1>7. CASE Republish
  <2>1. Again \in Message /\ Again.event = delivery.event
    BY <1>7, InWorkTypes DEF Republish, Exhausted, Again, Message
  <2>2. QED
    BY <1>3, <1>7, <2>1, Pushed DEF Republish, KnownArePublished
<1>8. CASE Requeue \/ GoDown
  BY <1>3, <1>8, InWorkTypes, PutBack DEF Requeue, GoDown, Settle, KnownArePublished
<1>9. QED
  BY <1>4, <1>5, <1>6, <1>7, <1>8 DEF Next, ConsumerStep

LEMMA WorkStep ==
  ASSUME TypeOK, WorkIsRecorded, Next
  PROVE  WorkIsRecorded'
<1> USE BoundsAssumption
<1>1. CASE Publish
  <2>1. [event |-> published + 1, retries |-> 0] \in Message
    BY <1>1 DEF Publish, TypeOK, Message, Event
  <2>2. \A e \in Event : Queued(e) => Queued(e)'
    BY <1>1, <2>1, Pushed DEF Publish, Queued
  <2>3. pc' = pc /\ delivery' = delivery /\ applied' = applied
    BY <1>1 DEF Publish
  <2>4. pc' = "copied" => Queued(delivery.event)'
    BY <2>2, <2>3, InWorkTypes DEF WorkIsRecorded, Queued
  <2>5. QED
    BY <2>3, <2>4 DEF WorkIsRecorded
<1>2. CASE HandlerSucceeds
  <2>1. applied'[delivery.event] = applied[delivery.event] + 1 /\ applied[delivery.event] \in Nat
    BY <1>2, InWorkTypes DEF HandlerSucceeds, TypeOK, Count
  <2>2. QED
    BY <1>2, <2>1 DEF HandlerSucceeds, WorkIsRecorded
<1>3. CASE Republish
  <2>1. Again \in Message /\ Again.event = delivery.event
    BY <1>3, InWorkTypes DEF Republish, Exhausted, Again, Message
  <2>2. Queued(delivery.event)'
    BY <1>3, <2>1, Pushed DEF Republish, Queued
  <2>3. QED
    BY <1>3, <2>2 DEF Republish, WorkIsRecorded
<1>4. CASE Deliver \/ HandlerFails \/ Ack \/ DeadLetter \/ RepublishRefused \/ Requeue \/ GoDown
  <2>1. pc' \notin {"acking", "copied"}
    BY <1>4 DEF Deliver, HandlerFails, Ack, DeadLetter, GiveUp, Settle, RepublishRefused,
       Requeue, GoDown
  <2>2. QED
    BY <2>1 DEF WorkIsRecorded
<1>5. QED
  BY <1>1, <1>2, <1>3, <1>4 DEF Next, ConsumerStep

LEMMA RetriesStep ==
  ASSUME TypeOK, RetriesAreFailures, Next
  PROVE  RetriesAreFailures'
<1> USE BoundsAssumption
<1>1. \A k \in DOMAIN queue : queue[k] \in Message /\ queue[k].event \in Event
                            /\ queue[k].retries \in Nat
  BY QueueTypes
<1>2. \A e \in Event : failures[e] \in Nat /\ failures'[e] \in Nat /\ failures'[e] >= failures[e]
  BY CountsGrow, TypeStep DEF TypeOK, Count
<1>3. ASSUME NEW e \in Event \cap Malformed
      PROVE  failures'[e] = 0
  <2>1. CASE HandlerFails
    BY <1>3, <2>1 DEF HandlerFails, RetriesAreFailures, TypeOK, Count
  <2>2. CASE ~HandlerFails
    BY <1>3, <2>2 DEF RetriesAreFailures, Next, ConsumerStep, Publish, Deliver, HandlerSucceeds,
       Ack, DeadLetter, GiveUp, Republish, RepublishRefused, Requeue, GoDown
  <2>3. QED
    BY <2>1, <2>2
<1>4. \A k \in DOMAIN queue : queue[k].retries <= failures'[queue[k].event]
  BY <1>1, <1>2 DEF RetriesAreFailures
<1>5. pc # "idle" => delivery.retries <= failures'[delivery.event]
  BY <1>2, InWorkTypes DEF RetriesAreFailures
<1>6. CASE Publish
  <2>1. LET m == [event |-> published + 1, retries |-> 0]
        IN  /\ m \in Message /\ m.event \in Event /\ m.retries = 0
            /\ queue' = Append(queue, m)
    BY <1>6 DEF Publish, TypeOK, Message, Event
  <2>2. \A k \in DOMAIN queue' : queue'[k].retries <= failures'[queue'[k].event]
    BY <1>2, <1>4, <2>1, Pushed
  <2>3. QED
    BY <1>3, <1>6, <2>2 DEF Publish, RetriesAreFailures
<1>7. CASE Deliver
  <2>1. pc' = "handling" /\ delivery' = queue[1] /\ 1 \in DOMAIN queue
    BY <1>7, Popped DEF Deliver
  <2>2. \A k \in DOMAIN queue' : queue'[k].retries <= failures'[queue'[k].event]
    BY <1>4, <1>7, Popped DEF Deliver
  <2>3. QED
    BY <1>3, <1>4, <2>1, <2>2 DEF RetriesAreFailures
<1>8. CASE HandlerSucceeds \/ Ack \/ DeadLetter \/ RepublishRefused
  BY <1>3, <1>4, <1>5, <1>8 DEF HandlerSucceeds, Ack, DeadLetter, GiveUp, Settle,
     RepublishRefused, RetriesAreFailures
<1>9. CASE HandlerFails
  <2>1. failures'[delivery.event] = failures[delivery.event] + 1
    BY <1>9, InWorkTypes DEF HandlerFails, TypeOK, Count
  <2>2. delivery.retries < failures'[delivery.event]
    BY <1>2, <1>9, <2>1, InWorkTypes DEF HandlerFails, RetriesAreFailures
  <2>3. QED
    BY <1>3, <1>4, <1>5, <1>9, <2>2 DEF HandlerFails, RetriesAreFailures
<1>10. CASE Republish
  <2>1. /\ Again \in Message /\ Again.event = delivery.event
        /\ Again.retries = delivery.retries + 1
    BY <1>10, InWorkTypes DEF Republish, Exhausted, Again, Message
  <2>2. Again.retries <= failures'[Again.event]
    BY <1>2, <1>10, <2>1, InWorkTypes DEF Republish, RetriesAreFailures
  <2>3. \A k \in DOMAIN queue' : queue'[k].retries <= failures'[queue'[k].event]
    BY <1>4, <1>10, <2>1, <2>2, Pushed DEF Republish
  <2>4. QED
    BY <1>3, <1>5, <1>10, <2>3 DEF Republish, RetriesAreFailures
<1>11. CASE Requeue \/ GoDown
  <2>1. \A k \in DOMAIN queue' : queue'[k].retries <= failures'[queue'[k].event]
    BY <1>4, <1>5, <1>11, InWorkTypes, PutBack DEF Requeue, GoDown
  <2>2. QED
    BY <1>3, <1>11, <2>1 DEF Requeue, GoDown, Settle, RetriesAreFailures
<1>12. QED
  BY <1>6, <1>7, <1>8, <1>9, <1>10, <1>11 DEF Next, ConsumerStep

LEMMA NotLostStep ==
  ASSUME TypeOK, KnownArePublished, WorkIsRecorded, NoEventLost, Next
  PROVE  NoEventLost'
<1> USE BoundsAssumption
<1>1. SUFFICES ASSUME NEW e \in 1 .. published', ~Settled(e)', ~Queued(e)'
               PROVE  pc' # "idle" /\ delivery'.event = e
  BY DEF NoEventLost
<1>2. e \in Event /\ published \in Nat /\ published' \in Nat
  BY TypeStep DEF TypeOK, Event
<1>3. ~Settled(e) /\ applied'[e] = 0 /\ dead'[e] = 0
  <2>1. /\ applied[e] \in Nat /\ dead[e] \in Nat
        /\ applied'[e] >= applied[e] /\ dead'[e] >= dead[e]
    BY <1>2, CountsGrow
  <2>2. applied'[e] \in Nat /\ dead'[e] \in Nat
    <3>1. applied' \in Count /\ dead' \in Count
      BY TypeStep DEF TypeOK
    <3>2. QED
      BY <1>2, <3>1 DEF Count
  <2>3. ~(applied'[e] > 0) /\ ~(dead'[e] > 0)
    BY <1>1 DEF Settled
  <2>4. QED
    BY <2>1, <2>2, <2>3 DEF Settled
<1>4. CASE Publish
  <2>1. [event |-> published + 1, retries |-> 0] \in Message
    BY <1>4 DEF Publish, TypeOK, Message, Event
  <2>2. ~Queued(e) /\ e # published + 1
    BY <1>1, <1>4, <2>1, Pushed DEF Publish, Queued
  <2>3. e \in 1 .. published
    BY <1>2, <1>4, <2>2 DEF Publish
  <2>4. QED
    BY <1>3, <1>4, <2>2, <2>3 DEF Publish, NoEventLost
<1>5. CASE ~Publish
  <2>1. e \in 1 .. published
    BY <1>5 DEF Next, ConsumerStep, Deliver, HandlerSucceeds, HandlerFails, Ack,
     DeadLetter, GiveUp, Republish, RepublishRefused, Requeue, GoDown
  <2>2. Queued(e) \/ (pc # "idle" /\ delivery.event = e)
    BY <1>3, <2>1 DEF NoEventLost
  <2>3. CASE Deliver
    BY <1>1, <2>2, <2>3, Popped DEF Deliver, Queued
  <2>4. CASE HandlerSucceeds \/ HandlerFails \/ RepublishRefused
    BY <1>1, <2>2, <2>4 DEF HandlerSucceeds, HandlerFails, RepublishRefused, Queued
  <2>5. CASE Ack
    BY <1>1, <1>3, <2>2, <2>5 DEF Ack, Queued, WorkIsRecorded, Settled
  <2>6. CASE DeadLetter
    <3>1. dead'[delivery.event] > 0
      BY <2>6, InWorkTypes DEF DeadLetter, GiveUp, TypeOK, Count
    <3>2. QED
      BY <1>1, <1>3, <2>2, <2>6, <3>1 DEF DeadLetter, GiveUp, Queued
  <2>7. CASE Republish
    <3>1. Again \in Message
      BY <2>7, InWorkTypes DEF Republish, Exhausted, Again, Message
    <3>2. QED
      BY <1>1, <2>2, <2>7, <3>1, Pushed DEF Republish, Queued
  <2>8. CASE Requeue \/ GoDown
    BY <1>1, <2>2, <2>8, InWorkTypes, PutBack DEF Requeue, GoDown, Queued
  <2>9. QED
    BY <1>5, <2>3, <2>4, <2>5, <2>6, <2>7, <2>8 DEF Next, ConsumerStep
<1>6. QED
  BY <1>4, <1>5

LEMMA DeadStep ==
  ASSUME TypeOK, RetriesAreFailures, DeadWasTried, Next
  PROVE  DeadWasTried'
<1> USE BoundsAssumption
<1>1. SUFFICES ASSUME NEW e \in Event, dead'[e] > 0
               PROVE  IF e \in Malformed THEN failures'[e] = 0 ELSE failures'[e] > MaxRetries
  BY DEF DeadWasTried
<1>2. CASE e \in Malformed
  BY <1>2, RetriesStep DEF RetriesAreFailures
<1>3. CASE e \notin Malformed /\ dead[e] > 0
  BY <1>3, CountsGrow, TypeStep DEF DeadWasTried, TypeOK, Count
<1>4. CASE e \notin Malformed /\ ~(dead[e] > 0)
  <2>1. DeadLetter /\ InWork(e)
    BY <1>1, <1>4, CountsGrow DEF Next, ConsumerStep, Publish, Deliver, HandlerSucceeds, HandlerFails,
       Ack, Republish, RepublishRefused, Requeue, GoDown
  <2>2. /\ delivery.retries \in Nat /\ delivery.retries >= MaxRetries
        /\ delivery.retries < failures[e] /\ failures'[e] = failures[e]
    BY <1>4, <2>1, InWorkTypes DEF DeadLetter, GiveUp, Exhausted, InWork, RetriesAreFailures
  <2>3. QED
    BY <1>4, <2>2, CountsGrow
<1>5. QED
  BY <1>2, <1>3, <1>4

\* What is in work and was not only delivered has been tried.
LEMMA TriedIsTouched ==
  ASSUME TypeOK, WorkIsRecorded, RetriesAreFailures, NEW e \in Event, InWork(e), Untouched(e)
  PROVE  pc = "handling" /\ delivery \in Message
<1>1. delivery \in Message /\ delivery.event = e /\ delivery.retries \in Nat
  BY InWorkTypes, BoundsAssumption DEF InWork
<1>2. pc # "acking"
  BY <1>1 DEF WorkIsRecorded, Untouched
<1>3. pc \notin {"failed", "copied", "refused"}
  BY <1>1 DEF RetriesAreFailures, Untouched
<1>4. QED
  BY <1>1, <1>2, <1>3 DEF TypeOK, InWork

LEMMA OrderStep ==
  ASSUME TypeOK, KnownArePublished, WorkIsRecorded, RetriesAreFailures, NoEventLost, InOrder, Next
  PROVE  InOrder'
<1> USE BoundsAssumption
<1>1. SUFFICES ASSUME NEW e \in Event, NEW f \in Event, e < f, f <= published', Untouched(e)'
               PROVE  Untouched(f)' /\ ~InWork(f)' /\ Ahead(e, f)'
  BY DEF InOrder
<1>2. Untouched(e)
  BY <1>1, CountsGrow, TypeStep DEF Untouched, TypeOK, Count
<1>3. e \in Nat /\ f \in Nat /\ published \in Nat
  BY DEF Event, TypeOK
<1>4. CASE f > published
  <2>1. Publish /\ f = published + 1
    BY <1>1, <1>3, <1>4 DEF Next, ConsumerStep, Publish, Deliver, HandlerSucceeds, HandlerFails,
       Ack, DeadLetter, GiveUp, Republish, RepublishRefused, Requeue, GoDown
  <2>2. LET m == [event |-> f, retries |-> 0]
        IN  m \in Message /\ queue' = Append(queue, m)
    BY <2>1 DEF Publish, TypeOK, Message, Event
  <2>3. Untouched(f)' /\ ~InWork(f)'
    BY <1>3, <1>4, <2>1, InWorkTypes DEF Publish, KnownArePublished, Untouched, InWork, Event
  <2>4. Queued(e) \/ InWork(e)
    BY <1>1, <1>2, <1>3, <2>1 DEF NoEventLost, Settled, Untouched, InWork, Event
  <2>5. CASE InWork(e)
    BY <2>1, <2>3, <2>5 DEF Publish, InWork, Ahead
  <2>6. CASE Queued(e)
    <3>1. PICK j \in DOMAIN queue : queue[j].event = e
      BY <2>6 DEF Queued
    <3>2. \A k \in DOMAIN queue : queue[k].event # f
      BY <1>3, <1>4, QueueTypes DEF KnownArePublished, Event
    <3>3. j < Len(queue) + 1 /\ j \in DOMAIN queue' /\ queue'[j].event = e
      BY <2>2, <3>1, Pushed, QueueTypes
    <3>4. \A k \in DOMAIN queue' : queue'[k].event = f => k = Len(queue) + 1
      BY <2>2, <3>2, Pushed
    <3>5. QED
      BY <2>3, <3>3, <3>4 DEF Ahead
  <2>7. QED
    BY <2>4, <2>5, <2>6
<1>5. CASE f <= published
  <2>1. Untouched(f) /\ ~InWork(f) /\ Ahead(e, f)
    BY <1>1, <1>2, <1>5 DEF InOrder
  <2>2. Untouched(f)'
    BY <2>1, CountsGrow DEF Untouched
  <2>3. CASE Publish
    <3>1. LET m == [event |-> published + 1, retries |-> 0]
          IN  m \in Message /\ m.event = published + 1 /\ queue' = Append(queue, m)
      BY <2>3 DEF Publish, TypeOK, Message, Event
    <3>2. pc' = pc /\ delivery' = delivery
      BY <2>3 DEF Publish
    <3>3. \A k \in DOMAIN queue' : queue'[k].event = f => k \in DOMAIN queue /\ queue[k].event = f
      BY <1>3, <1>5, <3>1, Pushed
    <3>4. Ahead(e, f)'
      BY <2>1, <3>1, <3>2, <3>3, Pushed DEF Ahead, InWork
    <3>5. QED
      BY <2>1, <2>2, <3>2, <3>4 DEF InWork
  <2>4. CASE Deliver
    <3>1. /\ pc = "idle" /\ pc' = "handling" /\ delivery' = queue[1] /\ 1 \in DOMAIN queue
      BY <2>4, Popped DEF Deliver
    <3>2. \A k \in DOMAIN queue : queue[k].event = f =>
            \E j \in DOMAIN queue : j < k /\ queue[j].event = e
      BY <2>1, <3>1 DEF Ahead, InWork
    <3>3. queue[1].event # f
      BY <3>1, <3>2, QueueTypes
    <3>4. CASE queue[1].event = e
      BY <2>2, <3>1, <3>3, <3>4 DEF InWork, Ahead
    <3>5. CASE queue[1].event # e
      <4>1. ASSUME NEW k \in DOMAIN queue', queue'[k].event = f
            PROVE  \E j \in DOMAIN queue' : j < k /\ queue'[j].event = e
        <5>1. k \in Nat /\ k + 1 \in DOMAIN queue /\ queue[k + 1].event = f
          BY <2>4, <4>1, Popped DEF Deliver
        <5>2. PICK j \in DOMAIN queue : j < k + 1 /\ queue[j].event = e
          BY <3>2, <5>1
        <5>3. j - 1 \in DOMAIN queue' /\ queue'[j - 1].event = e
          BY <2>4, <3>5, <5>2, Popped DEF Deliver
        <5>4. QED
          BY <5>1, <5>2, <5>3, QueueTypes
      <4>2. QED
        BY <2>2, <3>1, <3>3, <4>1 DEF InWork, Ahead
    <3>6. QED
      BY <3>4, <3>5
  <2>5. CASE HandlerSucceeds \/ HandlerFails \/ RepublishRefused
    BY <2>1, <2>2, <2>5 DEF HandlerSucceeds, HandlerFails, RepublishRefused, InWork, Ahead
  <2>6. CASE Ack \/ DeadLetter
    <3>1. pc' = "idle" /\ queue' = queue /\ ~InWork(f)'
      BY <2>6 DEF Ack, DeadLetter, GiveUp, Settle, InWork
    <3>2. ~InWork(e)
      <4>1. CASE Ack
        BY <1>2, <4>1, TriedIsTouched DEF Ack
      <4>2. CASE DeadLetter
        BY <1>1, <4>2, CountsGrow DEF DeadLetter, GiveUp, InWork, Untouched, TypeOK, Count
      <4>3. QED
        BY <2>6, <4>1, <4>2
    <3>3. QED
      BY <2>1, <2>2, <3>1, <3>2 DEF Ahead
  <2>7. CASE Republish
    <3>1. Again \in Message /\ Again.event = delivery.event
      BY <2>7, InWorkTypes DEF Republish, Exhausted, Again, Message
    <3>2. delivery.event # f /\ ~InWork(e)
      BY <1>2, <2>1, <2>7, TriedIsTouched DEF Republish, InWork
    <3>3. queue' = Append(queue, Again) /\ ~InWork(f)'
      BY <2>7, <3>2 DEF Republish, InWork
    <3>4. \A k \in DOMAIN queue' : queue'[k].event = f => k \in DOMAIN queue /\ queue[k].event = f
      BY <3>1, <3>2, <3>3, Pushed
    <3>5. Ahead(e, f)'
      BY <2>1, <3>1, <3>2, <3>3, <3>4, Pushed DEF Ahead
    <3>6. QED
      BY <2>2, <3>3, <3>5
  <2>8. CASE Requeue \/ GoDown
    <3>1. pc # "idle" /\ Back /\ pc' = "idle" /\ delivery \in Message
      BY <2>8, InWorkTypes DEF Requeue, GoDown, Settle
    <3>2. delivery.event # f
      BY <2>1, <3>1 DEF InWork
    <3>3. ASSUME NEW k \in DOMAIN queue', queue'[k].event = f
          PROVE  \E j \in DOMAIN queue' : j < k /\ queue'[j].event = e
      <4>1. k \in Nat /\ k > 1 /\ k - 1 \in DOMAIN queue /\ queue[k - 1].event = f
        BY <3>1, <3>2, <3>3, PutBack, QueueTypes
      <4>2. CASE InWork(e)
        BY <3>1, <4>1, <4>2, PutBack DEF InWork
      <4>3. CASE ~InWork(e)
        <5>1. PICK j \in DOMAIN queue : j < k - 1 /\ queue[j].event = e
          BY <2>1, <4>1, <4>3 DEF Ahead
        <5>2. j + 1 \in DOMAIN queue' /\ queue'[j + 1].event = e
          BY <3>1, <5>1, PutBack
        <5>3. QED
          BY <4>1, <5>1, <5>2, QueueTypes
      <4>4. QED
        BY <4>2, <4>3
    <3>4. QED
      BY <2>2, <3>1, <3>3 DEF InWork, Ahead
  <2>9. QED
    BY <2>3, <2>4, <2>5, <2>6, <2>7, <2>8 DEF Next, ConsumerStep
<1>6. QED
  BY <1>1, <1>3, <1>4, <1>5, TypeStep DEF TypeOK

\* A step that leaves no fault started without one, and is not a fault itself.
LEMMA FaultFreeSteps ==
  ASSUME TypeOK, FaultFree, Next, faults' = 0
  PROVE  /\ faults = 0 /\ OnceInFlight
         /\ \/ Publish \/ Deliver \/ HandlerSucceeds \/ Ack \/ DeadLetter \/ Republish
            \/ HandlerFails /\ applied' = applied
<1>1. faults \in Nat
  BY BoundsAssumption DEF TypeOK
<1>2. ~Fault
  BY <1>1 DEF Fault
<1>3. faults' = faults
  BY <1>2 DEF Next, ConsumerStep, Publish, Deliver, HandlerSucceeds, HandlerFails, Ack,
     DeadLetter, GiveUp, Republish, RepublishRefused, Requeue, GoDown
<1>4. faults = 0 /\ OnceInFlight
  BY <1>3 DEF FaultFree
<1>5. ~RepublishRefused /\ ~GoDown /\ ~Requeue
  BY <1>2, <1>4 DEF RepublishRefused, GoDown, Requeue, OnceInFlight
<1>6. HandlerFails => applied' = applied
  BY <1>2 DEF HandlerFails
<1>7. QED
  BY <1>4, <1>5, <1>6 DEF Next, ConsumerStep

LEMMA FaultFreeStep ==
  ASSUME TypeOK, KnownArePublished, FaultFree, Next
  PROVE  FaultFree'
<1> USE BoundsAssumption
<1>1. SUFFICES ASSUME faults' = 0
               PROVE  OnceInFlight'
  BY DEF FaultFree
<1>2. OnceInFlight
  BY <1>1, FaultFreeSteps
<1> DEFINE Fresh(k) == /\ applied[queue[k].event] = 0 /\ dead[queue[k].event] = 0
                       /\ failures[queue[k].event] = queue[k].retries
<1>3. /\ \A k \in DOMAIN queue : Fresh(k)
      /\ \A j, k \in DOMAIN queue : queue[j].event = queue[k].event => j = k
  BY <1>2 DEF OnceInFlight
<1>4. CASE Publish
  <2>1. LET m == [event |-> published + 1, retries |-> 0]
        IN  /\ m \in Message /\ m.event = published + 1 /\ m.retries = 0
            /\ queue' = Append(queue, m) /\ published + 1 \in Event /\ published \in Nat
    BY <1>4 DEF Publish, TypeOK, Message, Event
  <2>2. /\ pc' = pc /\ delivery' = delivery
        /\ applied' = applied /\ dead' = dead /\ failures' = failures
    BY <1>4 DEF Publish
  <2>3. /\ \A k \in DOMAIN queue : queue[k].event # published + 1
        /\ pc # "idle" => delivery.event # published + 1
        /\ Untouched(published + 1)
    BY <2>1, InWorkTypes, QueueTypes DEF KnownArePublished, Event
  <2>4. \A k \in DOMAIN queue' : Fresh(k)'
    BY <1>3, <2>1, <2>2, <2>3, Pushed DEF Untouched
  <2>5. \A j, k \in DOMAIN queue' : queue'[j].event = queue'[k].event => j = k
    BY <1>3, <2>1, <2>3, Pushed
  <2>6. pc \in {"handling", "failed", "acking"} =>
          \A k \in DOMAIN queue' : queue'[k].event # delivery.event
    BY <1>2, <2>1, <2>3, Pushed DEF OnceInFlight, Queued
  <2>7. QED
    BY <1>2, <2>2, <2>4, <2>5, <2>6 DEF OnceInFlight, Queued
<1>5. CASE Deliver
  <2>1. /\ pc' = "handling" /\ delivery' = queue[1] /\ 1 \in DOMAIN queue
        /\ applied' = applied /\ dead' = dead /\ failures' = failures
    BY <1>5, Popped DEF Deliver
  <2>2. \A k \in DOMAIN queue' : Fresh(k)' /\ queue'[k].event # queue[1].event
    BY <1>3, <1>5, <2>1, Popped DEF Deliver
  <2>3. \A j, k \in DOMAIN queue' : queue'[j].event = queue'[k].event => j = k
    <3>1. TAKE j, k \in DOMAIN queue'
    <3>2. /\ j \in Nat /\ j + 1 \in DOMAIN queue /\ queue'[j] = queue[j + 1]
          /\ k \in Nat /\ k + 1 \in DOMAIN queue /\ queue'[k] = queue[k + 1]
      BY <1>5, Popped DEF Deliver
    <3>3. QED
      BY <1>3, <3>2
  <2>4. failures[queue[1].event] = queue[1].retries + 0
    BY <1>3, <2>1, QueueTypes
  <2>5. QED
    BY <1>3, <2>1, <2>2, <2>3, <2>4 DEF OnceInFlight, Queued
<1>6. CASE HandlerSucceeds \/ (HandlerFails /\ applied' = applied)
  <2>1. /\ pc = "handling" /\ pc' \in {"acking", "failed"}
        /\ queue' = queue /\ delivery' = delivery /\ dead' = dead
    BY <1>6 DEF HandlerSucceeds, HandlerFails
  <2>2. delivery \in Message /\ delivery.event \in Event
    BY <2>1, InWorkTypes
  <2>3. \A k \in DOMAIN queue : queue[k].event # delivery.event
    BY <1>2, <2>1 DEF OnceInFlight, Queued
  <2>4. \A k \in DOMAIN queue' : Fresh(k)'
    BY <1>3, <2>1, <2>3, CountsGrow, QueueTypes DEF InWork
  <2>5. pc' = "failed" =>
          /\ applied'[delivery.event] = 0 /\ dead'[delivery.event] = 0
          /\ failures'[delivery.event] = delivery.retries + 1
    <3>1. SUFFICES ASSUME pc' = "failed"
                   PROVE  /\ applied'[delivery.event] = 0 /\ dead'[delivery.event] = 0
                          /\ failures'[delivery.event] = delivery.retries + 1
      OBVIOUS
    <3>2. /\ failures' = [failures EXCEPT ![delivery.event] = @ + 1] /\ applied' = applied
      BY <1>6, <3>1 DEF HandlerSucceeds, HandlerFails
    <3>3. failures[delivery.event] = delivery.retries + 0 /\ applied[delivery.event] = 0
          /\ dead[delivery.event] = 0 /\ delivery.retries \in Nat
      BY <1>2, <2>1, InWorkTypes DEF OnceInFlight
    <3>4. QED
      BY <2>1, <2>2, <3>2, <3>3 DEF TypeOK, Count
  <2>6. QED
    BY <1>3, <2>1, <2>3, <2>4, <2>5 DEF OnceInFlight, Queued
<1>7. CASE Ack
  BY <1>2, <1>7 DEF Ack, Settle, OnceInFlight, Queued
<1>8. CASE DeadLetter
  <2>1. /\ pc \in {"handling", "failed"} /\ pc' = "idle"
        /\ queue' = queue /\ applied' = applied /\ failures' = failures
    BY <1>8 DEF DeadLetter, GiveUp, Settle
  <2>2. \A k \in DOMAIN queue : queue[k].event # delivery.event
    BY <1>2, <2>1 DEF OnceInFlight, Queued
  <2>3. \A k \in DOMAIN queue' : Fresh(k)'
    BY <1>3, <2>1, <2>2, CountsGrow, QueueTypes DEF InWork
  <2>4. QED
    BY <1>3, <2>1, <2>3 DEF OnceInFlight
<1>9. CASE Republish
  <2>1. /\ pc = "failed" /\ pc' = "copied" /\ delivery' = delivery
        /\ applied' = applied /\ dead' = dead /\ failures' = failures
    BY <1>9 DEF Republish
  <2>2. /\ Again \in Message /\ Again.event = delivery.event
        /\ Again.retries = delivery.retries + 1 /\ queue' = Append(queue, Again)
    BY <1>9, InWorkTypes DEF Republish, Exhausted, Again, Message
  <2>3. \A k \in DOMAIN queue : queue[k].event # delivery.event
    BY <1>2, <2>1 DEF OnceInFlight, Queued
  <2>4. \A k \in DOMAIN queue' : Fresh(k)'
    BY <1>2, <1>3, <2>1, <2>2, Pushed DEF OnceInFlight
  <2>5. \A j, k \in DOMAIN queue' : queue'[j].event = queue'[k].event => j = k
    BY <1>3, <2>2, <2>3, Pushed
  <2>6. QED
    BY <2>1, <2>4, <2>5 DEF OnceInFlight
<1>10. QED
  BY <1>1, <1>4, <1>5, <1>6, <1>7, <1>8, <1>9, FaultFreeSteps

LEMMA OnceStep ==
  ASSUME TypeOK, FaultFree, OnceWithoutFault, Next
  PROVE  OnceWithoutFault'
<1> USE BoundsAssumption
<1>1. SUFFICES ASSUME faults' = 0, NEW e \in Event
               PROVE  applied'[e] + dead'[e] <= 1 /\ failures'[e] <= MaxRetries + 1
  BY DEF OnceWithoutFault
<1>2. applied[e] + dead[e] <= 1 /\ failures[e] <= MaxRetries + 1
  BY <1>1, FaultFreeSteps DEF OnceWithoutFault
<1>3. CASE ~InWork(e)
  BY <1>2, <1>3, CountsGrow
<1>4. CASE InWork(e)
  <2>1. /\ delivery \in Message /\ delivery.event = e
        /\ delivery.retries \in Nat /\ delivery.retries <= MaxRetries
    BY <1>4, InWorkTypes DEF InWork
  <2>2. pc \in {"handling", "failed"} => applied[e] = 0 /\ dead[e] = 0
    BY <1>1, <2>1, FaultFreeSteps DEF OnceInFlight
  <2>3. pc = "handling" => failures[e] = delivery.retries
    BY <1>1, <2>1, FaultFreeSteps DEF OnceInFlight
  <2>4. CASE HandlerSucceeds
    BY <1>2, <2>1, <2>2, <2>4 DEF HandlerSucceeds, TypeOK, Count
  <2>5. CASE HandlerFails /\ applied' = applied
    BY <1>2, <2>1, <2>3, <2>5 DEF HandlerFails, TypeOK, Count
  <2>6. CASE DeadLetter
    BY <1>2, <2>1, <2>2, <2>6 DEF DeadLetter, GiveUp, TypeOK, Count
  <2>7. CASE Publish \/ Deliver \/ Ack \/ Republish
    BY <1>2, <2>7 DEF Publish, Deliver, Ack, Republish
  <2>8. QED
    BY <1>1, <2>4, <2>5, <2>6, <2>7, FaultFreeSteps
<1>5. QED
  BY <1>3, <1>4

-----------------------------------------------------------------------------
(* The theorems.                                                           *)

LEMMA IInvInit == Init => IInv
<1>1. SUFFICES ASSUME Init
               PROVE  IInv
  OBVIOUS
<1>2. queue = <<>> /\ <<>> \in Seq(Message) /\ DOMAIN queue = {}
  BY <1>1, EmptySeq DEF Init
<1>3. TypeOK
  BY <1>1, <1>2, BoundsAssumption DEF Init, TypeOK, Zero, Count
<1>4. \A e \in Event : Untouched(e)
  BY <1>1 DEF Init, Zero, Untouched
<1>5. pc = "idle" /\ published = 0 /\ Event \subseteq Nat
  BY <1>1 DEF Init, Event
<1>6. KnownArePublished /\ WorkIsRecorded /\ RetriesAreFailures
  BY <1>2, <1>4, <1>5 DEF KnownArePublished, WorkIsRecorded, RetriesAreFailures, Untouched
<1>7. NoEventLost /\ DeadWasTried /\ InOrder
  BY <1>2, <1>4, <1>5 DEF NoEventLost, DeadWasTried, InOrder, Untouched, Event
<1>8. FaultFree /\ OnceWithoutFault
  <2>1. FaultFree
    BY <1>2, <1>5 DEF FaultFree, OnceInFlight
  <2>2. 0 + 0 <= 1 /\ 0 <= MaxRetries + 1
    BY BoundsAssumption
  <2>3. OnceWithoutFault
    BY <1>4, <2>2 DEF OnceWithoutFault, Untouched
  <2>4. QED
    BY <2>1, <2>3
<1>9. QED
  BY <1>3, <1>6, <1>7, <1>8 DEF IInv

LEMMA IInvStep == IInv /\ [Next]_vars => IInv'
<1>1. SUFFICES ASSUME IInv, [Next]_vars
               PROVE  IInv'
  OBVIOUS
<1>2. CASE Next
  BY <1>1, <1>2, TypeStep, KnownStep, WorkStep, RetriesStep, NotLostStep, DeadStep, OrderStep,
     FaultFreeStep, OnceStep DEF IInv
<1>3. CASE UNCHANGED vars
  <2>1. /\ published' = published /\ queue' = queue /\ pc' = pc /\ delivery' = delivery
        /\ applied' = applied /\ failures' = failures /\ dead' = dead /\ faults' = faults
    BY <1>3 DEF vars
  <2>2. TypeOK' /\ KnownArePublished' /\ WorkIsRecorded' /\ RetriesAreFailures'
    BY <1>1, <2>1 DEF IInv, TypeOK, KnownArePublished, WorkIsRecorded, RetriesAreFailures,
       Untouched, Queued
  <2>3. NoEventLost' /\ DeadWasTried' /\ OnceWithoutFault'
    BY <1>1, <2>1 DEF IInv, NoEventLost, DeadWasTried, OnceWithoutFault, Queued, Settled
  <2>4. InOrder'
    BY <1>1, <2>1 DEF IInv, InOrder, Untouched, InWork, Ahead
  <2>5. FaultFree'
    BY <1>1, <2>1 DEF IInv, FaultFree, OnceInFlight, Queued
  <2>6. QED
    BY <2>2, <2>3, <2>4, <2>5 DEF IInv
<1>4. QED
  BY <1>1, <1>2, <1>3

\* The inductive invariant holds in every state of every behaviour of the consumer.
THEOREM Invariance == Spec => []IInv
BY IInvInit, IInvStep, PTL DEF Spec

\* Consumer.process keeps its state in its types: one unacknowledged delivery, and no
\* message with more retries than RABBITMQ_MAX_RETRIES.
THEOREM TypeCorrect == Spec => []TypeOK
<1>1. IInv => TypeOK
  BY DEF IInv
<1>2. QED
  BY <1>1, Invariance, PTL

\* The acknowledgement after the copy: between the failed handling, the confirmed copy and
\* the restart an event is queued or in work until it was handled or is dead.
THEOREM NoneLost == Spec => []NoEventLost
<1>1. IInv => NoEventLost
  BY DEF IInv
<1>2. QED
  BY <1>1, Invariance, PTL

\* The nack without requeue: only a malformed event or one that failed more often than
\* RABBITMQ_MAX_RETRIES reaches the dead-letter queue, whatever restarts come between.
THEOREM DeadOnlyAfterRetries == Spec => []DeadWasTried
<1>1. IInv => DeadWasTried
  BY DEF IInv
<1>2. QED
  BY <1>1, Invariance, PTL

\* Without a fault the copy replaces the original: every event is handled or given up at
\* most once, after at most RABBITMQ_MAX_RETRIES + 1 attempts.
THEOREM HandledOnceWithoutFault == Spec => []OnceWithoutFault
<1>1. IInv => OnceWithoutFault
  BY DEF IInv
<1>2. QED
  BY <1>1, Invariance, PTL

\* The single consumer and the requeue at the head keep the order of the pipeline's
\* events: only a failure lets a later event be settled first.
THEOREM OrderKeptUntilRetry == Spec => []OvertakenOnlyByRetry
<1>1. ASSUME IInv
      PROVE  OvertakenOnlyByRetry
  <2>1. SUFFICES ASSUME NEW e \in Event, NEW f \in Event, e < f, Settled(f), ~Settled(e),
                        ~(failures[e] > 0)
                 PROVE  FALSE
    BY DEF OvertakenOnlyByRetry
  <2>2. /\ Untouched(e) /\ ~Untouched(f) /\ f \in Nat /\ published \in Nat
    BY <1>1, <2>1 DEF IInv, TypeOK, Count, Settled, Untouched, Event
  <2>3. f <= published
    BY <1>1, <2>2 DEF IInv, KnownArePublished
  <2>4. QED
    BY <1>1, <2>1, <2>2, <2>3 DEF IInv, InOrder
<1>2. QED
  BY <1>1, Invariance, PTL
=============================================================================
