----------------------- MODULE ConfirmPublisherProofs -----------------------
(* The safety of ConfirmPublisher for every set of calls, finite or not.   *)
EXTENDS ConfirmPublisher, SequenceTheorems, FiniteSetTheorems, TLAPS

-----------------------------------------------------------------------------
(* The inductive invariant.                                                *)

Sent == {c \in Call : call[c].tag # 0}
\* The calls among the first n messages that left their confirmation unread.
Unread(n) ==
  {x \in Call : call[x].tag \in 1 .. n /\ call[x].pc = "error" /\ call[x].read = 0}
Waits == \E c \in Call : call[c].pc = "waiting"

\* A message has one tag, and the call that waits is the one that sent the last message.
Tags ==
  /\ IsFiniteSet(Sent)
  /\ \A c \in Call : call[c].tag <= Len(verdict)
  /\ \A c, d \in Call : call[c].tag = call[d].tag /\ call[c].tag # 0 => c = d
  /\ \A c \in Call : call[c].pc = "called" => call[c].tag = 0 /\ call[c].read = 0
  /\ \A c \in Call : call[c].pc = "waiting" =>
       call[c].tag = Len(verdict) /\ call[c].tag # 0 /\ call[c].read = 0

\* Confirmations come in the order of the tags, and a call returns what the one it read says.
Reads ==
  /\ \A t \in 1 .. passed : verdict[t] # "pending"
  /\ \A k \in DOMAIN confirms : confirms[k] = passed - Len(confirms) + k
  /\ \A c \in Call : call[c].read # 0 =>
       /\ call[c].read \in 1 .. passed /\ call[c].tag # 0
       /\ call[c].pc \in Returned
       /\ call[c].pc = "ok" <=> verdict[call[c].read] = "ack"

\* Every message is read, left unread, or waited for.
Balance ==
  Len(verdict) = passed - Len(confirms) + Cardinality(Unread(Len(verdict)))
                 + (IF Waits THEN 1 ELSE 0)

IInv == TypeOK /\ Tags /\ Reads /\ Balance /\ SkewIsLeftUnread

-----------------------------------------------------------------------------
(* Types.                                                                  *)

CallRecord == [pc : {"called", "waiting"} \cup Returned, tag : Nat, read : Nat]

\* What the type invariant says of a call, of the verdicts and of the buffer.
LEMMA Types ==
  ASSUME TypeOK
  PROVE  /\ call \in [Call -> CallRecord]
         /\ \A c \in Call : call[c].tag \in Nat /\ call[c].read \in Nat
         /\ Len(verdict) \in Nat /\ DOMAIN verdict = 1 .. Len(verdict)
         /\ passed \in Nat /\ passed <= Len(verdict)
         /\ confirms \in Seq(1 .. passed)
         /\ Len(confirms) \in Nat /\ DOMAIN confirms = 1 .. Len(confirms) /\ Len(confirms) <= 1
<1>1. verdict \in Seq({"pending", "ack", "nack"}) /\ confirms \in Seq(1 .. passed)
  BY DEF TypeOK
<1>2. /\ Len(verdict) \in Nat /\ DOMAIN verdict = 1 .. Len(verdict)
      /\ Len(confirms) \in Nat /\ DOMAIN confirms = 1 .. Len(confirms)
  BY <1>1, LenProperties
<1>3. QED
  BY <1>1, <1>2 DEF TypeOK, CallRecord, Capacity

\* A call that takes the next confirmation takes the oldest one in the buffer.
LEMMA Taken ==
  ASSUME TypeOK, confirms # <<>>
  PROVE  /\ Head(confirms) = confirms[1] /\ Head(confirms) \in 1 .. passed
         /\ Tail(confirms) \in Seq(1 .. passed) /\ Len(Tail(confirms)) = Len(confirms) - 1
         /\ DOMAIN Tail(confirms) = 1 .. Len(confirms) - 1
         /\ \A k \in DOMAIN Tail(confirms) : Tail(confirms)[k] = confirms[k + 1]
<1>1. confirms \in Seq(1 .. passed)
  BY DEF TypeOK
<1>2. /\ Head(confirms) \in 1 .. passed
      /\ Tail(confirms) \in Seq(1 .. passed) /\ Len(Tail(confirms)) = Len(confirms) - 1
      /\ \A k \in 1 .. Len(Tail(confirms)) : Tail(confirms)[k] = confirms[k + 1]
  BY <1>1, HeadTailProperties
<1>3. DOMAIN Tail(confirms) = 1 .. Len(Tail(confirms))
  BY <1>2, LenProperties
<1>4. Head(confirms) = confirms[1]
  BY <1>1, EmptySeq
<1>5. QED
  BY <1>2, <1>3, <1>4

\* What a step of a call does to the records of the calls: it sends,
LEMMA SendEffect ==
  ASSUME TypeOK, NEW c \in Call, Send(c)
  PROVE  /\ call' \in [Call -> CallRecord]
         /\ \A d \in Call \ {c} : call'[d] = call[d]
         /\ call'[c].pc = "waiting" /\ call'[c].tag = Len(verdict) + 1
         /\ call'[c].read = call[c].read
         /\ call[c].pc = "called" /\ \A d \in Call : call[d].pc # "waiting"
<1>1. call \in [Call -> CallRecord] /\ Len(verdict) \in Nat
  BY Types
<1>2. PICK n \in Nat : n = Len(verdict) + 1
  BY <1>1
<1>3. call' = [call EXCEPT ![c].pc = "waiting", ![c].tag = n]
  BY <1>2 DEF Send
<1>4. call' \in [Call -> CallRecord]
  BY <1>1, <1>3 DEF CallRecord, Returned
<1>5. \A d \in Call \ {c} : call'[d] = call[d]
  BY <1>1, <1>3 DEF CallRecord, Returned
<1>6. call'[c].pc = "waiting" /\ call'[c].tag = n /\ call'[c].read = call[c].read
  BY <1>1, <1>3 DEF CallRecord, Returned
<1>7. call[c].pc = "called" /\ \A d \in Call : call[d].pc # "waiting"
  BY DEF Send, Unlocked
<1>8. QED
  BY <1>2, <1>4, <1>5, <1>6, <1>7

\* it reads a confirmation and returns,
LEMMA ReadEffect ==
  ASSUME TypeOK, NEW c \in Call, ReadConfirmation(c)
  PROVE  /\ call' \in [Call -> CallRecord]
         /\ \A d \in Call \ {c} : call'[d] = call[d]
         /\ call'[c].tag = call[c].tag /\ call'[c].read = Head(confirms)
         /\ call'[c].pc \in Returned
         /\ call'[c].pc = "ok" <=> verdict[Head(confirms)] = "ack"
         /\ call[c].pc = "waiting"
<1>1. call \in [Call -> CallRecord]
  BY Types
<1>2. PICK n \in Nat : n = Head(confirms)
  BY Taken, Types DEF ReadConfirmation
<1>3. PICK p \in Returned : p = IF verdict[Head(confirms)] = "ack" THEN "ok" ELSE "error"
  BY DEF Returned
<1>4. call' = [call EXCEPT ![c].read = n, ![c].pc = p]
  BY <1>2, <1>3 DEF ReadConfirmation
<1>5. call' \in [Call -> CallRecord]
  BY <1>1, <1>4 DEF CallRecord, Returned
<1>6. \A d \in Call \ {c} : call'[d] = call[d]
  BY <1>1, <1>4 DEF CallRecord, Returned
<1>7. call'[c].pc = p /\ call'[c].tag = call[c].tag /\ call'[c].read = n
  BY <1>1, <1>4 DEF CallRecord, Returned
<1>8. p = "ok" <=> verdict[Head(confirms)] = "ack"
  BY <1>3
<1>9. QED
  BY <1>2, <1>5, <1>6, <1>7, <1>8 DEF ReadConfirmation

\* or it returns an error without having read one.
LEMMA UnreadEffect ==
  ASSUME TypeOK, NEW c \in Call, SendFails(c) \/ ConfirmsClosed(c) \/ ContextDone(c)
  PROVE  /\ call' \in [Call -> CallRecord]
         /\ \A d \in Call \ {c} : call'[d] = call[d]
         /\ call'[c].pc = "error" /\ call'[c].tag = call[c].tag /\ call'[c].read = call[c].read
         /\ call[c].pc = IF SendFails(c) THEN "called" ELSE "waiting"
<1>1. call \in [Call -> CallRecord]
  BY Types
<1>2. call' = [call EXCEPT ![c].pc = "error"]
  BY DEF SendFails, ConfirmsClosed, ContextDone
<1>3. call' \in [Call -> CallRecord]
  BY <1>1, <1>2 DEF CallRecord, Returned
<1>4. \A d \in Call \ {c} : call'[d] = call[d]
  BY <1>1, <1>2 DEF CallRecord, Returned
<1>5. call'[c].pc = "error" /\ call'[c].tag = call[c].tag /\ call'[c].read = call[c].read
  BY <1>1, <1>2 DEF CallRecord, Returned
<1>6. call[c].pc = IF SendFails(c) THEN "called" ELSE "waiting"
  BY DEF SendFails, ConfirmsClosed, ContextDone
<1>7. QED
  BY <1>3, <1>4, <1>5, <1>6

\* Only a call's step touches the records of the calls.
LEMMA OtherSteps ==
  ASSUME (\E t \in DOMAIN verdict : Decide(t)) \/ HandOver \/ Disconnect
  PROVE  call' = call
BY DEF Decide, HandOver, Disconnect

LEMMA TypeStep ==
  ASSUME TypeOK, Next
  PROVE  TypeOK'
<1> DEFINE Verdict == {"pending", "ack", "nack"}
<1>1. verdict \in Seq(Verdict) /\ confirms \in Seq(1 .. passed) /\ open \in BOOLEAN
  BY DEF TypeOK
<1>2. ASSUME call' \in [Call -> CallRecord], verdict' \in Seq(Verdict), Len(verdict') \in Nat,
             passed' \in 0 .. Len(verdict'), confirms' \in Seq(1 .. passed'),
             Len(confirms') <= 1, open' \in BOOLEAN
      PROVE  TypeOK'
  BY <1>2 DEF TypeOK, CallRecord, Capacity
<1>3. CASE \E c \in Call : CallStep(c)
  <2>1. PICK c \in Call : CallStep(c)
    BY <1>3
  <2>2. call' \in [Call -> CallRecord] /\ passed' = passed /\ open' = open
    BY <2>1, SendEffect, ReadEffect, UnreadEffect DEF CallStep, Send, SendFails, ReadConfirmation, ConfirmsClosed, ContextDone
  <2>3. verdict' \in Seq(Verdict) /\ Len(verdict') \in Nat /\ Len(verdict') >= Len(verdict)
    <3>1. CASE Send(c)
      BY <1>1, <3>1, Types, AppendProperties DEF Send
    <3>2. CASE ~Send(c)
      BY <1>1, <2>1, <3>2, Types DEF CallStep, SendFails, ReadConfirmation, ConfirmsClosed, ContextDone
    <3>3. QED
      BY <3>1, <3>2
  <2>4. confirms' \in Seq(1 .. passed) /\ Len(confirms') <= 1
    <3>1. CASE ReadConfirmation(c)
      BY <3>1, Types, Taken DEF ReadConfirmation
    <3>2. CASE ~ReadConfirmation(c)
      BY <2>1, <3>2, Types DEF CallStep, Send, SendFails, ConfirmsClosed, ContextDone
    <3>3. QED
      BY <3>1, <3>2
  <2>5. passed' \in 0 .. Len(verdict')
    BY <2>2, <2>3, Types
  <2>6. QED
    BY <1>1, <1>2, <2>2, <2>3, <2>4, <2>5
<1>4. CASE \E t \in DOMAIN verdict : Decide(t)
  <2>1. PICK t \in 1 .. Len(verdict), v \in {"ack", "nack"} : verdict' = [verdict EXCEPT ![t] = v]
    BY <1>4, Types DEF Decide
  <2>2. verdict' \in Seq(Verdict) /\ Len(verdict') = Len(verdict)
    BY <1>1, <2>1, ExceptSeq
  <2>3. call' = call /\ passed' = passed /\ confirms' = confirms /\ open' = open
    BY <1>4 DEF Decide
  <2>4. QED
    BY <1>1, <1>2, <2>2, <2>3, Types
<1>5. CASE HandOver
  <2>1. /\ call' = call /\ verdict' = verdict /\ open' = open
        /\ passed' = passed + 1 /\ passed < Len(verdict)
        /\ Len(confirms) < 1 /\ confirms' = Append(confirms, passed + 1)
    BY <1>5 DEF HandOver, Capacity
  <2>2. confirms \in Seq(1 .. passed') /\ passed + 1 \in 1 .. passed'
    BY <1>1, <2>1, Types, SeqMonotonic
  <2>3. confirms' \in Seq(1 .. passed') /\ Len(confirms') = Len(confirms) + 1
    BY <2>1, <2>2, AppendProperties
  <2>4. QED
    BY <1>1, <1>2, <2>1, <2>3, Types
<1>6. CASE Disconnect
  <2>1. /\ call' = call /\ verdict' = verdict /\ open' = FALSE
        /\ passed' = passed /\ confirms' = confirms
    BY <1>6 DEF Disconnect
  <2>2. /\ call \in [Call -> CallRecord] /\ Len(verdict) \in Nat
        /\ passed \in 0 .. Len(verdict) /\ Len(confirms) <= 1
    BY Types
  <2>3. QED
    BY <1>1, <1>2, <2>1, <2>2, Zenon
<1>7. QED
  BY <1>3, <1>4, <1>5, <1>6 DEF Next

\* What a step does to the verdicts: one that was decided stays so, and only Send adds one.
LEMMA VerdictEffect ==
  ASSUME TypeOK, Next
  PROVE  /\ Len(verdict') \in Nat
         /\ \A t \in 1 .. Len(verdict) : verdict[t] # "pending" => verdict'[t] = verdict[t]
         /\ \/ \E c \in Call : Send(c) /\ Len(verdict') = Len(verdict) + 1
            \/ /\ Len(verdict') = Len(verdict)
               /\ \/ \E c \in Call : ReadConfirmation(c)
                  \/ \E c \in Call : SendFails(c) \/ ConfirmsClosed(c) \/ ContextDone(c)
                  \/ (\E t \in DOMAIN verdict : Decide(t)) \/ HandOver \/ Disconnect
<1>1. verdict \in Seq({"pending", "ack", "nack"}) /\ Len(verdict) \in Nat
      /\ DOMAIN verdict = 1 .. Len(verdict)
  BY Types DEF TypeOK
<1>2. ASSUME NEW c \in Call, Send(c)
      PROVE  /\ Len(verdict') = Len(verdict) + 1
             /\ \A t \in 1 .. Len(verdict) : verdict'[t] = verdict[t]
  BY <1>1, <1>2, AppendProperties DEF Send
<1>3. ASSUME NEW t \in DOMAIN verdict, Decide(t)
      PROVE  /\ Len(verdict') = Len(verdict)
             /\ \A u \in 1 .. Len(verdict) : verdict[u] # "pending" => verdict'[u] = verdict[u]
  <2>1. PICK v \in {"ack", "nack"} : verdict[t] = "pending" /\ verdict' = [verdict EXCEPT ![t] = v]
    BY <1>3 DEF Decide
  <2>2. QED
    BY <1>1, <2>1, ExceptSeq
<1>4. ASSUME NEW c \in Call,
             ReadConfirmation(c) \/ SendFails(c) \/ ConfirmsClosed(c) \/ ContextDone(c)
      PROVE  verdict' = verdict
  BY <1>4 DEF SendFails, ReadConfirmation, ConfirmsClosed, ContextDone
<1>5. HandOver \/ Disconnect => verdict' = verdict
  BY DEF HandOver, Disconnect
<1>6. CASE \E c \in Call : Send(c)
  BY <1>1, <1>2, <1>6
<1>7. CASE \E c \in Call : ReadConfirmation(c)
  BY <1>1, <1>4, <1>7
<1>8. CASE \E c \in Call : SendFails(c) \/ ConfirmsClosed(c) \/ ContextDone(c)
  BY <1>1, <1>4, <1>8
<1>9. CASE \E t \in DOMAIN verdict : Decide(t)
  BY <1>1, <1>3, <1>9
<1>10. CASE HandOver \/ Disconnect
  BY <1>1, <1>5, <1>10
<1>11. QED
  BY <1>6, <1>7, <1>8, <1>9, <1>10 DEF Next, CallStep

-----------------------------------------------------------------------------
(* One lemma per part of the invariant.                                    *)

LEMMA TagsStep ==
  ASSUME TypeOK, Tags, Next
  PROVE  Tags'
<1>1. /\ \A c \in Call : call[c].tag \in Nat /\ call[c].read \in Nat
      /\ Len(verdict) \in Nat
  BY Types
<1>2. CASE \E c \in Call : Send(c) /\ Len(verdict') = Len(verdict) + 1
  <2>1. PICK c \in Call : Send(c) /\ Len(verdict') = Len(verdict) + 1
    BY <1>2
  <2>2. /\ call'[c].pc = "waiting" /\ call'[c].tag = Len(verdict) + 1
        /\ call'[c].read = 0 /\ call[c].tag = 0
        /\ \A d \in Call \ {c} : call'[d] = call[d] /\ call[d].pc # "waiting"
    BY <2>1, SendEffect DEF Tags
  <2>3. IsFiniteSet(Sent')
    <3>1. Sent' = Sent \cup {c}
      BY <1>1, <2>2 DEF Sent
    <3>2. QED
      BY <3>1, FS_AddElement DEF Tags
  <2>4. \A d \in Call : call'[d].tag <= Len(verdict')
    BY <1>1, <2>1, <2>2 DEF Tags
  <2>5. \A d, e \in Call : call'[d].tag = call'[e].tag /\ call'[d].tag # 0 => d = e
    BY <1>1, <2>2 DEF Tags
  <2>6. \A d \in Call : call'[d].pc = "called" => call'[d].tag = 0 /\ call'[d].read = 0
    BY <2>2 DEF Tags
  <2>7. \A d \in Call : call'[d].pc = "waiting" =>
          call'[d].tag = Len(verdict') /\ call'[d].tag # 0 /\ call'[d].read = 0
    BY <1>1, <2>1, <2>2
  <2>8. QED
    BY <2>3, <2>4, <2>5, <2>6, <2>7 DEF Tags, Sent
<1>3. ASSUME Len(verdict') = Len(verdict), NEW c \in Call,
             \A d \in Call \ {c} : call'[d] = call[d],
             call'[c].tag = call[c].tag, call'[c].pc \in Returned
      PROVE  Tags'
  <2>1. Sent' = Sent
    BY <1>3 DEF Sent
  <2>2. QED
    BY <1>3, <2>1 DEF Tags, Returned
<1>4. CASE Len(verdict') = Len(verdict) /\ \E c \in Call : ReadConfirmation(c)
  <2>1. PICK c \in Call : ReadConfirmation(c)
    BY <1>4
  <2>2. /\ \A d \in Call \ {c} : call'[d] = call[d]
        /\ call'[c].tag = call[c].tag /\ call'[c].pc \in Returned
    BY <2>1, ReadEffect
  <2>3. QED
    BY <1>3, <1>4, <2>2
<1>5. CASE /\ Len(verdict') = Len(verdict)
           /\ \E c \in Call : SendFails(c) \/ ConfirmsClosed(c) \/ ContextDone(c)
  <2>1. PICK c \in Call : SendFails(c) \/ ConfirmsClosed(c) \/ ContextDone(c)
    BY <1>5
  <2>2. /\ \A d \in Call \ {c} : call'[d] = call[d]
        /\ call'[c].tag = call[c].tag /\ call'[c].pc = "error"
    BY <2>1, UnreadEffect
  <2>3. QED
    BY <1>3, <1>5, <2>2 DEF Returned
<1>6. CASE /\ Len(verdict') = Len(verdict)
           /\ (\E t \in DOMAIN verdict : Decide(t)) \/ HandOver \/ Disconnect
  <2>1. call' = call /\ Sent' = Sent
    BY <1>6, OtherSteps DEF Sent
  <2>2. QED
    BY <1>6, <2>1 DEF Tags
<1>7. QED
  BY <1>2, <1>4, <1>5, <1>6, VerdictEffect

\* What a step makes of the calls that left their confirmation unread: none of an earlier
\* message joins or leaves them, and the sender of the last one may.
LEMMA UnreadSets ==
  ASSUME TypeOK, Tags, Next
  PROVE  /\ \A n \in Nat : n < Len(verdict) => Unread(n)' = Unread(n)
         /\ \A n \in Nat : IsFiniteSet(Unread(n))
<1>1. /\ \A c \in Call : call[c].tag \in Nat /\ call[c].read \in Nat
      /\ Len(verdict) \in Nat
  BY Types
<1>2. ASSUME NEW n \in Nat, n < Len(verdict)
      PROVE  Unread(n)' = Unread(n)
  <2>1. CASE \E c \in Call : Send(c) /\ Len(verdict') = Len(verdict) + 1
    <3>1. PICK c \in Call : Send(c)
      BY <2>1
    <3>2. /\ \A d \in Call \ {c} : call'[d] = call[d]
          /\ call'[c].tag = Len(verdict) + 1 /\ call[c].tag = 0
      BY <3>1, SendEffect DEF Tags
    <3>3. QED
      BY <1>1, <1>2, <3>2 DEF Unread
  <2>2. CASE \E c \in Call : ReadConfirmation(c)
    <3>1. PICK c \in Call : ReadConfirmation(c)
      BY <2>2
    <3>2. /\ \A d \in Call \ {c} : call'[d] = call[d]
          /\ call'[c].read = Head(confirms) /\ call[c].pc = "waiting"
      BY <3>1, ReadEffect
    <3>3. Head(confirms) # 0
      BY <3>1, Taken, Types DEF ReadConfirmation
    <3>4. QED
      BY <3>2, <3>3 DEF Unread
  <2>3. CASE \E c \in Call : SendFails(c) \/ ConfirmsClosed(c) \/ ContextDone(c)
    <3>1. PICK c \in Call : SendFails(c) \/ ConfirmsClosed(c) \/ ContextDone(c)
      BY <2>3
    <3>2. /\ \A d \in Call \ {c} : call'[d] = call[d]
          /\ call'[c].tag = call[c].tag /\ call[c].pc \in {"called", "waiting"}
      BY <3>1, UnreadEffect
    <3>3. call[c].tag \notin 1 .. n
      BY <1>1, <1>2, <3>2 DEF Tags
    <3>4. QED
      BY <3>2, <3>3 DEF Unread
  <2>4. CASE (\E t \in DOMAIN verdict : Decide(t)) \/ HandOver \/ Disconnect
    BY <2>4, OtherSteps DEF Unread
  <2>5. QED
    BY <2>1, <2>2, <2>3, <2>4, VerdictEffect
<1>3. ASSUME NEW n \in Nat
      PROVE  IsFiniteSet(Unread(n))
  <2>1. Unread(n) \in SUBSET Sent
    BY DEF Unread, Sent
  <2>2. QED
    BY <2>1, FS_Subset DEF Tags
<1>4. QED
  BY <1>2, <1>3

LEMMA ReadsStep ==
  ASSUME TypeOK, Tags, Reads, Next
  PROVE  Reads'
<1>1. /\ \A c \in Call : call[c].tag \in Nat /\ call[c].read \in Nat
      /\ Len(verdict) \in Nat /\ passed \in Nat /\ passed <= Len(verdict)
      /\ Len(confirms) \in Nat /\ DOMAIN confirms = 1 .. Len(confirms)
  BY Types
<1>2. /\ \A t \in 1 .. passed : t \in 1 .. Len(verdict) /\ verdict'[t] = verdict[t]
      /\ \A t \in 1 .. passed : verdict'[t] # "pending"
  BY <1>1, VerdictEffect DEF Reads
<1>3. passed' \in Nat /\ passed' >= passed /\ \A t \in 1 .. passed' : verdict'[t] # "pending"
  <2>1. CASE HandOver
    <3>1. /\ passed' = passed + 1 /\ verdict' = verdict /\ verdict[passed + 1] # "pending"
      BY <2>1 DEF HandOver
    <3>2. QED
      BY <1>1, <1>2, <3>1
  <2>2. CASE ~HandOver
    <3>1. passed' = passed
      BY <2>2 DEF Next, CallStep, Send, SendFails, ReadConfirmation, ConfirmsClosed, ContextDone,
         Decide, Disconnect
    <3>2. QED
      BY <1>1, <1>2, <3>1
  <2>3. QED
    BY <2>1, <2>2
<1>4. \A k \in DOMAIN confirms' : confirms'[k] = passed' - Len(confirms') + k
  <2>1. CASE \E c \in Call : ReadConfirmation(c)
    <3>1. confirms # <<>> /\ confirms' = Tail(confirms) /\ passed' = passed
      BY <2>1 DEF ReadConfirmation
    <3>2. /\ DOMAIN confirms' = 1 .. Len(confirms) - 1 /\ Len(confirms') = Len(confirms) - 1
          /\ \A k \in DOMAIN confirms' : confirms'[k] = confirms[k + 1]
      BY <1>1, <3>1, Taken
    <3>3. SUFFICES ASSUME NEW k \in 1 .. Len(confirms) - 1
                   PROVE  confirms'[k] = passed - (Len(confirms) - 1) + k
      BY <3>1, <3>2
    <3>4. passed \in Nat /\ Len(confirms) \in Nat /\ DOMAIN confirms = 1 .. Len(confirms)
      BY <1>1, Types, LenProperties
    <3>5. confirms[k + 1] = passed - Len(confirms) + (k + 1)
      BY <3>4 DEF Reads
    <3>6. QED
      BY <3>2, <3>4, <3>5
  <2>2. CASE HandOver
    <3>1. passed' = passed + 1 /\ confirms' = Append(confirms, passed + 1)
      BY <2>2 DEF HandOver
    <3>2. confirms \in Seq(Nat)
      BY <1>1, Types, SeqMonotonic
    <3>3. /\ Len(confirms') = Len(confirms) + 1 /\ confirms'[Len(confirms) + 1] = passed + 1
          /\ \A k \in 1 .. Len(confirms) : confirms'[k] = confirms[k]
          /\ confirms' \in Seq(Nat)
      BY <1>1, <3>1, <3>2, AppendProperties
    <3>4. DOMAIN confirms' = 1 .. Len(confirms) + 1
      BY <3>3, LenProperties
    <3>5. QED
      BY <1>1, <3>1, <3>3, <3>4 DEF Reads
  <2>3. CASE ~HandOver /\ ~(\E c \in Call : ReadConfirmation(c))
    <3>1. confirms' = confirms /\ passed' = passed
      BY <2>3 DEF Next, CallStep, Send, SendFails, ConfirmsClosed, ContextDone, Decide, Disconnect
    <3>2. QED
      BY <3>1 DEF Reads
  <2>4. QED
    BY <2>1, <2>2, <2>3
<1> DEFINE Told(c) == /\ call[c].read \in 1 .. passed /\ call[c].tag # 0
                      /\ call[c].pc \in Returned
                      /\ call[c].pc = "ok" <=> verdict[call[c].read] = "ack"
<1>5. \A c \in Call : call[c].read # 0 => Told(c)
  BY DEF Reads
<1>6. ASSUME NEW c \in Call, call'[c].read # 0
      PROVE  Told(c)'
  <2>1. CASE call'[c] = call[c]
    <3>1. call[c].read \in 1 .. passed
      BY <1>5, <1>6, <2>1
    <3>2. verdict'[call[c].read] = verdict[call[c].read] /\ call[c].read \in 1 .. passed'
      BY <1>1, <1>2, <1>3, <3>1
    <3>3. QED
      BY <1>5, <1>6, <2>1, <3>2
  <2>2. CASE call'[c] # call[c]
    <3>1. ~((\E t \in DOMAIN verdict : Decide(t)) \/ HandOver \/ Disconnect)
      BY <2>2, OtherSteps
    <3>2. ASSUME NEW d \in Call, Send(d)
          PROVE  FALSE
      BY <1>6, <2>2, <3>2, SendEffect DEF Tags
    <3>3. ASSUME NEW d \in Call, SendFails(d) \/ ConfirmsClosed(d) \/ ContextDone(d)
          PROVE  FALSE
      <4>1. c = d
        BY <2>2, <3>3, UnreadEffect
      <4>2. call[c].read # 0 /\ call[c].pc \in {"called", "waiting"}
        BY <1>6, <3>3, <4>1, UnreadEffect
      <4>3. QED
        BY <4>2 DEF Tags
    <3>4. ReadConfirmation(c)
      <4>1. PICK d \in Call : ReadConfirmation(d)
        BY <3>1, <3>2, <3>3 DEF Next, CallStep
      <4>2. c = d
        BY <2>2, <4>1, ReadEffect
      <4>3. QED
        BY <4>1, <4>2
    <3>5. /\ call'[c].tag = call[c].tag /\ call'[c].read = Head(confirms)
          /\ call'[c].pc \in Returned /\ call[c].pc = "waiting"
          /\ call'[c].pc = "ok" <=> verdict[Head(confirms)] = "ack"
      BY <3>4, ReadEffect
    <3>6. Head(confirms) \in 1 .. passed /\ verdict' = verdict
      BY <3>4, Taken DEF ReadConfirmation
    <3>7. QED
      BY <1>1, <1>3, <3>5, <3>6 DEF Tags
  <2>3. QED
    BY <2>1, <2>2
<1>7. QED
  BY <1>3, <1>4, <1>6 DEF Reads

\* The call that waits sent the last message, so no two calls wait.
LEMMA OneWaits ==
  ASSUME Tags, NEW c \in Call, call[c].pc = "waiting"
  PROVE  \A d \in Call : call[d].pc = "waiting" \/ call[d].tag = Len(verdict) => d = c
BY DEF Tags

LEMMA BalanceStep ==
  ASSUME TypeOK, Tags, Balance, Next
  PROVE  Balance'
<1>1. /\ \A c \in Call : call[c].tag \in Nat /\ call[c].read \in Nat
      /\ Len(verdict) \in Nat /\ passed \in Nat /\ Len(confirms) \in Nat
  BY Types
<1> DEFINE Left == Unread(Len(verdict))
<1>2. IsFiniteSet(Left) /\ Cardinality(Left) \in Nat
  BY <1>1, UnreadSets, FS_CardinalityType
<1>3. Len(verdict) = passed - Len(confirms) + Cardinality(Left) + (IF Waits THEN 1 ELSE 0)
  BY DEF Balance
<1>4. ASSUME Len(verdict') = passed' - Len(confirms') + Cardinality(Left')
                             + (IF Waits' THEN 1 ELSE 0)
      PROVE  Balance'
  BY <1>4 DEF Balance
<1>5. CASE \E c \in Call : Send(c) /\ Len(verdict') = Len(verdict) + 1
  <2>1. PICK c \in Call : Send(c) /\ Len(verdict') = Len(verdict) + 1
    BY <1>5
  <2>2. /\ \A d \in Call \ {c} : call'[d] = call[d]
        /\ call'[c].pc = "waiting" /\ \A d \in Call : call[d].pc # "waiting"
        /\ call[c].tag = 0 /\ passed' = passed /\ confirms' = confirms
    BY <2>1, SendEffect DEF Tags, Send
  <2>3. Left' = Left
    BY <1>1, <2>1, <2>2 DEF Unread, Tags
  <2>4. ~Waits /\ Waits'
    BY <2>2 DEF Waits
  <2>5. QED
    BY <1>1, <1>2, <1>3, <1>4, <2>1, <2>2, <2>3, <2>4
<1>6. CASE Len(verdict') = Len(verdict) /\ \E c \in Call : ReadConfirmation(c)
  <2>1. PICK c \in Call : ReadConfirmation(c)
    BY <1>6
  <2>2. /\ \A d \in Call \ {c} : call'[d] = call[d]
        /\ call[c].pc = "waiting" /\ call'[c].pc # "waiting" /\ call'[c].read # 0
    <3>1. confirms # <<>>
      BY <2>1 DEF ReadConfirmation
    <3>2. Head(confirms) # 0
      BY <3>1, Taken, Types
    <3>3. QED
      BY <2>1, <3>2, ReadEffect DEF Returned
  <2>3. passed' = passed /\ Len(confirms') = Len(confirms) - 1
    BY <2>1, Taken DEF ReadConfirmation
  <2>4. Left' = Left
    BY <1>6, <2>2 DEF Unread
  <2>5. Waits /\ ~Waits'
    BY <2>2, OneWaits DEF Waits
  <2>6. QED
    BY <1>1, <1>2, <1>3, <1>4, <1>6, <2>3, <2>4, <2>5
<1>7. CASE /\ Len(verdict') = Len(verdict)
           /\ \E c \in Call : SendFails(c) \/ ConfirmsClosed(c) \/ ContextDone(c)
  <2>1. PICK c \in Call : SendFails(c) \/ ConfirmsClosed(c) \/ ContextDone(c)
    BY <1>7
  <2>2. /\ \A d \in Call \ {c} : call'[d] = call[d]
        /\ call'[c].pc = "error" /\ call'[c].tag = call[c].tag /\ call'[c].read = call[c].read
        /\ call[c].pc = IF SendFails(c) THEN "called" ELSE "waiting"
        /\ passed' = passed /\ confirms' = confirms
    BY <2>1, UnreadEffect DEF SendFails, ConfirmsClosed, ContextDone
  <2>3. CASE call[c].pc = "called"
    <3>1. call[c].tag = 0
      BY <2>3 DEF Tags
    <3>2. Left' = Left
      BY <1>7, <2>2, <3>1 DEF Unread
    <3>3. Waits' = Waits
      BY <2>2, <2>3 DEF Waits
    <3>4. QED
      BY <1>3, <1>4, <1>7, <2>2, <3>2, <3>3
  <2>4. CASE call[c].pc = "waiting"
    <3>1. call[c].tag = Len(verdict) /\ call[c].tag # 0 /\ call[c].read = 0
      BY <2>4 DEF Tags
    <3>2. Left' = Left \cup {c} /\ c \notin Left
      BY <1>1, <1>7, <2>2, <2>4, <3>1 DEF Unread
    <3>3. Cardinality(Left') = Cardinality(Left) + 1
      BY <1>2, <3>2, FS_AddElement
    <3>4. Waits /\ ~Waits'
      BY <2>2, <2>4, OneWaits DEF Waits
    <3>5. QED
      BY <1>1, <1>2, <1>3, <1>4, <1>7, <2>2, <3>3, <3>4
  <2>5. QED
    BY <2>2, <2>3, <2>4
<1>8. CASE /\ Len(verdict') = Len(verdict)
           /\ (\E t \in DOMAIN verdict : Decide(t)) \/ HandOver \/ Disconnect
  <2>1. Left' = Left /\ Waits' = Waits
    BY <1>8, OtherSteps DEF Unread, Waits
  <2>2. passed' - Len(confirms') = passed - Len(confirms)
    <3>1. CASE HandOver
      <4>1. passed' = passed + 1 /\ confirms' = Append(confirms, passed + 1)
        BY <3>1 DEF HandOver
      <4>2. confirms \in Seq(Nat)
        BY <1>1, Types, SeqMonotonic
      <4>3. Len(confirms') = Len(confirms) + 1
        BY <1>1, <4>1, <4>2, AppendProperties
      <4>4. QED
        BY <1>1, <4>1, <4>3
    <3>2. CASE (\E t \in DOMAIN verdict : Decide(t)) \/ Disconnect
      BY <3>2 DEF Decide, Disconnect
    <3>3. QED
      BY <1>8, <3>1, <3>2
  <2>3. QED
    BY <1>3, <1>4, <1>8, <2>1, <2>2
<1>9. QED
  BY <1>5, <1>6, <1>7, <1>8, VerdictEffect

LEMMA SkewStep ==
  ASSUME TypeOK, Tags, Reads, Balance, SkewIsLeftUnread, Next
  PROVE  SkewIsLeftUnread'
<1>1. /\ \A c \in Call : call[c].tag \in Nat /\ call[c].read \in Nat
      /\ Len(verdict) \in Nat /\ passed \in Nat /\ Len(confirms) \in Nat
      /\ DOMAIN confirms = 1 .. Len(confirms)
  BY Types
<1>2. SUFFICES ASSUME NEW c \in Call, call'[c].read # 0
               PROVE  call'[c].read = call'[c].tag - Cardinality(LeftUnread(c)')
  BY DEF SkewIsLeftUnread
<1>3. ASSUME call'[c].tag = call[c].tag, call[c].tag # 0
      PROVE  LeftUnread(c)' = Unread(call[c].tag - 1)
  <2>1. call[c].tag - 1 \in Nat /\ call[c].tag - 1 < Len(verdict)
    BY <1>1, <1>3 DEF Tags
  <2>2. \A n \in Nat : n < Len(verdict) =>
          {x \in Call : /\ call'[x].tag \in 1 .. n
                        /\ call'[x].pc = "error" /\ call'[x].read = 0} = Unread(n)
    BY UnreadSets DEF Unread
  <2>3. QED
    BY <1>3, <2>1, <2>2 DEF LeftUnread
<1>4. CASE ReadConfirmation(c)
  <2>1. /\ call'[c].tag = call[c].tag /\ call'[c].read = Head(confirms)
        /\ call[c].pc = "waiting" /\ confirms # <<>>
    BY <1>4, ReadEffect DEF ReadConfirmation
  <2>2. call[c].tag = Len(verdict) /\ call[c].tag # 0
    BY <2>1 DEF Tags
  <2>3. Head(confirms) = passed - Len(confirms) + 1
    <3>1. Head(confirms) = confirms[1] /\ Len(confirms) >= 1
      BY <1>1, <2>1, Taken, Types
    <3>2. QED
      BY <1>1, <3>1 DEF Reads
  <2>4. Unread(Len(verdict) - 1) = Unread(Len(verdict))
    BY <1>1, <2>1, OneWaits DEF Unread
  <2>5. Len(verdict) = passed - Len(confirms) + Cardinality(Unread(Len(verdict))) + 1
    BY <2>1 DEF Balance, Waits
  <2>6. Cardinality(Unread(Len(verdict))) \in Nat
    BY <1>1, UnreadSets, FS_CardinalityType
  <2>7. QED
    BY <1>1, <1>3, <2>1, <2>2, <2>3, <2>4, <2>5, <2>6
<1>5. CASE call'[c] = call[c]
  <2>1. call[c].read # 0 /\ call[c].tag # 0
    BY <1>2, <1>5 DEF Reads
  <2>2. LeftUnread(c)' = Unread(call[c].tag - 1)
    BY <1>3, <1>5, <2>1
  <2>3. LeftUnread(c) = Unread(call[c].tag - 1)
    BY DEF LeftUnread, Unread
  <2>4. QED
    BY <1>5, <2>1, <2>2, <2>3 DEF SkewIsLeftUnread
<1>6. CASE ~ReadConfirmation(c) /\ call'[c] # call[c]
  <2>1. ~((\E t \in DOMAIN verdict : Decide(t)) \/ HandOver \/ Disconnect)
    BY <1>6, OtherSteps
  <2>2. ASSUME NEW d \in Call, Send(d)
        PROVE  FALSE
    BY <1>2, <1>6, <2>2, SendEffect DEF Tags
  <2>3. ASSUME NEW d \in Call, SendFails(d) \/ ConfirmsClosed(d) \/ ContextDone(d)
        PROVE  FALSE
    <3>1. c = d
      BY <1>6, <2>3, UnreadEffect
    <3>2. call[c].read # 0 /\ call[c].pc \in {"called", "waiting"}
      BY <1>2, <2>3, <3>1, UnreadEffect
    <3>3. QED
      BY <3>2 DEF Tags
  <2>4. ASSUME NEW d \in Call, ReadConfirmation(d)
        PROVE  FALSE
    BY <1>6, <2>4, ReadEffect
  <2>5. QED
    BY <2>1, <2>2, <2>3, <2>4 DEF Next, CallStep
<1>7. QED
  BY <1>4, <1>5, <1>6

-----------------------------------------------------------------------------
(* The theorems.                                                           *)

LEMMA IInvInit == Init => IInv
<1>1. SUFFICES ASSUME Init
               PROVE  IInv
  OBVIOUS
<1>2. /\ verdict = <<>> /\ confirms = <<>> /\ passed = 0 /\ open = TRUE
      /\ Len(verdict) = 0 /\ Len(confirms) = 0 /\ DOMAIN confirms = {}
      /\ verdict \in Seq({"pending", "ack", "nack"}) /\ confirms \in Seq(1 .. passed)
  BY <1>1, EmptySeq DEF Init
<1>3. \A c \in Call : call[c].pc = "called" /\ call[c].tag = 0 /\ call[c].read = 0
  BY <1>1 DEF Init
<1>4. TypeOK
  <2>1. call \in [Call -> CallRecord]
    BY <1>1 DEF Init, CallRecord
  <2>2. QED
    BY <1>2, <2>1 DEF TypeOK, CallRecord, Capacity
<1>5. Sent = {} /\ Unread(0) = {}
  BY <1>3 DEF Sent, Unread
<1>6. Tags /\ Reads /\ SkewIsLeftUnread
  BY <1>2, <1>3, <1>5, FS_EmptySet DEF Tags, Reads, SkewIsLeftUnread
<1>7. Balance
  BY <1>2, <1>3, <1>5, FS_EmptySet DEF Balance, Waits
<1>8. QED
  BY <1>4, <1>6, <1>7 DEF IInv

LEMMA IInvStep == IInv /\ [Next]_vars => IInv'
<1>1. SUFFICES ASSUME IInv, [Next]_vars
               PROVE  IInv'
  OBVIOUS
<1>2. CASE Next
  BY <1>1, <1>2, TypeStep, TagsStep, ReadsStep, BalanceStep, SkewStep DEF IInv
<1>3. CASE UNCHANGED vars
  <2>1. /\ call' = call /\ verdict' = verdict /\ passed' = passed
        /\ confirms' = confirms /\ open' = open
    BY <1>3 DEF vars
  <2>2. TypeOK' /\ Tags' /\ Reads'
    BY <1>1, <2>1 DEF IInv, TypeOK, Tags, Reads, Sent
  <2>3. Balance' /\ SkewIsLeftUnread'
    BY <1>1, <2>1 DEF IInv, Balance, Unread, Waits, SkewIsLeftUnread, LeftUnread
  <2>4. QED
    BY <2>2, <2>3 DEF IInv
<1>4. QED
  BY <1>1, <1>2, <1>3

\* The inductive invariant holds in every state of every behaviour of the publisher.
THEOREM Invariance == Spec => []IInv
BY IInvInit, IInvStep, PTL DEF Spec

\* Publish and the confirmation buffer stay in their types: at most one confirmation is
\* buffered, and it is one the library handed over.
THEOREM TypeCorrect == Spec => []TypeOK
<1>1. IInv => TypeOK
  BY DEF IInv
<1>2. QED
  BY <1>1, Invariance, PTL

\* Publish reads the next confirmation, not its own: however many calls there are, a call
\* reads one that is exactly as many messages old as calls gave up before it.
THEOREM SkewIsExact == Spec => []SkewIsLeftUnread
<1>1. IInv => SkewIsLeftUnread
  BY DEF IInv
<1>2. QED
  BY <1>1, Invariance, PTL

\* Until a call before it gave up, what Publish returns is what the broker did with its
\* own message.
THEOREM TruthfulFirst == Spec => []TruthfulUntilUnread
<1>1. ASSUME IInv
      PROVE  TruthfulUntilUnread
  <2>1. SUFFICES ASSUME NEW c \in Call, LeftUnread(c) = {}, call[c].read # 0
                 PROVE  call[c].pc = "ok" <=> verdict[call[c].tag] = "ack"
    BY DEF TruthfulUntilUnread
  <2>2. call[c].read = call[c].tag - 0 /\ call[c].tag \in Nat
    BY <1>1, <2>1, FS_EmptySet, Types DEF IInv, SkewIsLeftUnread
  <2>3. QED
    BY <1>1, <2>1, <2>2 DEF IInv, Reads
<1>2. QED
  BY <1>1, Invariance, PTL

-----------------------------------------------------------------------------
(* Where the promise of Publish breaks.                                    *)

\* A call gives up although a confirmation is there or can still come.
GivesUp == \E c \in Call : ContextDone(c) /\ ~ConfirmsClosed(c)

\* While none did, a call fails without a confirmation only when the connection is
\* down, and then no message follows its own.
NoneGaveUp ==
  \A c \in Call :
    /\ call[c].pc = "ok" => call[c].read # 0
    /\ call[c].pc = "error" /\ call[c].read = 0 /\ call[c].tag # 0 =>
         ~open /\ call[c].tag = Len(verdict)

LEMMA NoneGaveUpStep ==
  ASSUME IInv, NoneGaveUp, Next, ~GivesUp
  PROVE  NoneGaveUp'
<1>1. TypeOK /\ Tags
  BY DEF IInv
<1>2. SUFFICES ASSUME NEW x \in Call
               PROVE  /\ call'[x].pc = "ok" => call'[x].read # 0
                      /\ call'[x].pc = "error" /\ call'[x].read = 0 /\ call'[x].tag # 0 =>
                           ~open' /\ call'[x].tag = Len(verdict')
  BY DEF NoneGaveUp
<1>3. CASE \E c \in Call : Send(c)
  <2>1. PICK c \in Call : Send(c)
    BY <1>3
  <2>2. /\ \A d \in Call \ {c} : call'[d] = call[d]
        /\ call'[c].pc = "waiting" /\ open
    BY <1>1, <2>1, SendEffect DEF Send
  <2>3. QED
    BY <2>2 DEF NoneGaveUp
<1>4. CASE \E c \in Call : ReadConfirmation(c)
  <2>1. PICK c \in Call : ReadConfirmation(c)
    BY <1>4
  <2>2. confirms # <<>> /\ verdict' = verdict /\ open' = open
    BY <2>1 DEF ReadConfirmation
  <2>3. Head(confirms) # 0
    BY <1>1, <2>2, Taken, Types
  <2>4. (\A d \in Call \ {c} : call'[d] = call[d]) /\ call'[c].read # 0
    BY <1>1, <2>1, <2>3, ReadEffect
  <2>5. QED
    BY <2>2, <2>4 DEF NoneGaveUp
<1>5. CASE \E c \in Call : SendFails(c) \/ ConfirmsClosed(c) \/ ContextDone(c)
  <2>1. PICK c \in Call : SendFails(c) \/ ConfirmsClosed(c)
    BY <1>5 DEF GivesUp
  <2>2. /\ \A d \in Call \ {c} : call'[d] = call[d]
        /\ call'[c].pc = "error" /\ call'[c].tag = call[c].tag /\ call'[c].read = call[c].read
    BY <1>1, <2>1, UnreadEffect
  <2>3. ~open /\ open' = open /\ verdict' = verdict
    BY <2>1 DEF SendFails, ConfirmsClosed
  <2>4. call[c].tag # 0 => call[c].tag = Len(verdict)
    BY <1>1, <2>1 DEF Tags, SendFails, ConfirmsClosed
  <2>5. QED
    BY <2>2, <2>3, <2>4 DEF NoneGaveUp
<1>6. CASE (\E t \in DOMAIN verdict : Decide(t)) \/ HandOver \/ Disconnect
  <2>1. call' = call
    BY <1>6, OtherSteps
  <2>2. Len(verdict') = Len(verdict)
    <3>1. Len(verdict') = Len(verdict) \/ \E c \in Call : Send(c)
      BY <1>1, VerdictEffect
    <3>2. QED
      BY <1>3, <3>1, <2>1, <1>1, SendEffect
  <2>3. ~open => ~open'
    BY <1>6 DEF Decide, HandOver, Disconnect
  <2>4. QED
    BY <2>1, <2>2, <2>3 DEF NoneGaveUp
<1>7. QED
  BY <1>3, <1>4, <1>5, <1>6 DEF Next, CallStep

\* Publish returns nil only for a message the broker confirmed, as long as no context
\* ends while its confirmation can still come: the calls that give up are all that
\* breaks the promise, neither a refusal by the broker nor a lost connection does.
THEOREM OnlyGivingUpMisleads ==
  Spec /\ [][~GivesUp]_vars => []SuccessIsConfirmed
<1>1. Init => NoneGaveUp
  BY DEF Init, NoneGaveUp
<1>2. IInv /\ NoneGaveUp /\ [Next]_vars /\ [~GivesUp]_vars => NoneGaveUp'
  <2>1. SUFFICES ASSUME IInv, NoneGaveUp, [Next]_vars, [~GivesUp]_vars
                 PROVE  NoneGaveUp'
    OBVIOUS
  <2>2. CASE UNCHANGED vars
    BY <2>1, <2>2 DEF vars, NoneGaveUp
  <2>3. QED
    BY <2>1, <2>2, NoneGaveUpStep
<1>3. ASSUME IInv, NoneGaveUp
      PROVE  SuccessIsConfirmed
  <2>1. TypeOK /\ Tags /\ Reads /\ SkewIsLeftUnread
    BY <1>3 DEF IInv
  <2>2. SUFFICES ASSUME NEW c \in Call, call[c].pc = "ok"
                 PROVE  verdict[call[c].tag] = "ack"
    BY DEF SuccessIsConfirmed
  <2>3. call[c].read # 0 /\ call[c].tag \in Nat /\ Len(verdict) \in Nat
        /\ call[c].tag <= Len(verdict)
    BY <1>3, <2>1, <2>2, Types DEF NoneGaveUp, Tags
  <2>4. LeftUnread(c) = {}
    <3>1. \A x \in Call : call[x].tag \in Nat
      BY <2>1, Types
    <3>2. SUFFICES ASSUME NEW x \in Call, call[x].tag \in 1 .. call[c].tag - 1,
                          call[x].pc = "error", call[x].read = 0
                   PROVE  FALSE
      BY DEF LeftUnread
    <3>3. call[x].tag = Len(verdict)
      BY <1>3, <2>3, <3>2 DEF NoneGaveUp
    <3>4. QED
      BY <2>3, <3>1, <3>2, <3>3
  <2>5. call[c].read = call[c].tag - 0
    BY <2>1, <2>3, <2>4, FS_EmptySet DEF SkewIsLeftUnread
  <2>6. QED
    BY <2>1, <2>2, <2>3, <2>5 DEF Reads
<1>4. QED
  BY <1>1, <1>2, <1>3, Invariance, PTL DEF Spec
=============================================================================
