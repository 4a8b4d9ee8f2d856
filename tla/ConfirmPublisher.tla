-------------------------- MODULE ConfirmPublisher --------------------------
(***************************************************************************)
(* The publisher the request handlers and the normalizer share: one        *)
(* channel in confirm mode, one mutex, and one Go channel with room for    *)
(* one confirmation, which the calls of Publish read in turn.  The broker  *)
(* and the client library, which hands confirmations over in the order of  *)
(* their delivery tags, are external.                                      *)
(***************************************************************************)
EXTENDS Naturals, Sequences, FiniteSets

CONSTANT Call  \* the calls of Publish; each publishes one message

VARIABLES
  call,      \* where each call is, its message's delivery tag, the tag it read
  verdict,   \* what the broker did with each message, in order of delivery tags
  passed,    \* how many confirmations the library has handed over
  confirms,  \* p.confirms: the tags of the confirmations in its buffer
  open       \* whether the connection is up

vars == <<call, verdict, passed, confirms, open>>

Capacity == 1
Returned == {"ok", "error"}

TypeOK ==
  /\ call \in [Call -> [pc : {"called", "waiting"} \cup Returned, tag : Nat, read : Nat]]
  /\ verdict \in Seq({"pending", "ack", "nack"})
  /\ passed \in 0 .. Len(verdict)
  /\ confirms \in Seq(1 .. passed) /\ Len(confirms) <= Capacity
  /\ open \in BOOLEAN

Init ==
  /\ call = [c \in Call |-> [pc |-> "called", tag |-> 0, read |-> 0]]
  /\ verdict = <<>>
  /\ passed = 0
  /\ confirms = <<>>
  /\ open = TRUE

-----------------------------------------------------------------------------
(* Publish.  The mutex is held from the send to the return.                *)

\* Mutants: a call that fails keeps the mutex; there is no mutex.
UnlockedAfterSuccess == \A c \in Call : call[c].pc \notin {"waiting", "error"}
UnlockedAlways == TRUE
Unlocked == \A c \in Call : call[c].pc # "waiting"

Send(c) ==
  /\ call[c].pc = "called" /\ Unlocked /\ open
  /\ verdict' = Append(verdict, "pending")
  /\ call' = [call EXCEPT ![c].pc = "waiting", ![c].tag = Len(verdict) + 1]
  /\ UNCHANGED <<passed, confirms, open>>

SendFails(c) ==
  /\ call[c].pc = "called" /\ Unlocked /\ ~open
  /\ call' = [call EXCEPT ![c].pc = "error"]
  /\ UNCHANGED <<verdict, passed, confirms, open>>

\* Mutant: a negative confirmation counts as a confirmation.
ReadAnyConfirmation(c) ==
  /\ call[c].pc = "waiting" /\ confirms # <<>>
  /\ call' = [call EXCEPT ![c].read = Head(confirms), ![c].pc = "ok"]
  /\ confirms' = Tail(confirms)
  /\ UNCHANGED <<verdict, passed, open>>
\* The next confirmation in the Go channel is taken for this message's.
ReadConfirmation(c) ==
  /\ call[c].pc = "waiting" /\ confirms # <<>>
  /\ call' = [call EXCEPT ![c].read = Head(confirms),
                          ![c].pc = IF verdict[Head(confirms)] = "ack" THEN "ok" ELSE "error"]
  /\ confirms' = Tail(confirms)
  /\ UNCHANGED <<verdict, passed, open>>

ConfirmsClosed(c) ==
  /\ call[c].pc = "waiting" /\ confirms = <<>> /\ ~open
  /\ call' = [call EXCEPT ![c].pc = "error"]
  /\ UNCHANGED <<verdict, passed, confirms, open>>

\* The context of the call is done; select may choose this even when a
\* confirmation is there.  Nothing takes the confirmation out of the channel.
ContextDone(c) ==
  /\ call[c].pc = "waiting"
  /\ call' = [call EXCEPT ![c].pc = "error"]
  /\ UNCHANGED <<verdict, passed, confirms, open>>

-----------------------------------------------------------------------------
(* External: the broker and the client library.                            *)

Decide(t) ==
  /\ verdict[t] = "pending"
  /\ \E v \in {"ack", "nack"} : verdict' = [verdict EXCEPT ![t] = v]
  /\ UNCHANGED <<call, passed, confirms, open>>

\* Mutant: the Go channel has no bound.
HandOverUnbounded ==
  /\ open
  /\ passed < Len(verdict) /\ verdict[passed + 1] # "pending"
  /\ confirms' = Append(confirms, passed + 1)
  /\ passed' = passed + 1
  /\ UNCHANGED <<call, verdict, open>>
HandOver ==
  /\ open
  /\ passed < Len(verdict) /\ verdict[passed + 1] # "pending"
  /\ Len(confirms) < Capacity
  /\ confirms' = Append(confirms, passed + 1)
  /\ passed' = passed + 1
  /\ UNCHANGED <<call, verdict, open>>

Disconnect ==
  /\ open
  /\ open' = FALSE
  /\ UNCHANGED <<call, verdict, passed, confirms>>

CallStep(c) ==
  Send(c) \/ SendFails(c) \/ ReadConfirmation(c) \/ ConfirmsClosed(c) \/ ContextDone(c)
Next ==
  \/ \E c \in Call : CallStep(c)
  \/ \E t \in DOMAIN verdict : Decide(t)
  \/ HandOver \/ Disconnect

Spec == Init /\ [][Next]_vars

-----------------------------------------------------------------------------
(* Safety.                                                                 *)

\* The calls before c that sent a message and left its confirmation unread.
LeftUnread(c) ==
  {x \in Call : /\ call[x].tag \in 1 .. call[c].tag - 1
                /\ call[x].pc = "error" /\ call[x].read = 0}

\* A call that gave up shifts every later one by a message, for good: the
\* confirmation a call reads is as many messages old as calls gave up before it.
SkewIsLeftUnread ==
  \A c \in Call : call[c].read # 0 => call[c].read = call[c].tag - Cardinality(LeftUnread(c))

\* As long as no call gave up, a publish that succeeds is one the broker accepted,
\* and one that the broker refused fails.
TruthfulUntilUnread ==
  \A c \in Call : LeftUnread(c) = {} /\ call[c].read # 0 =>
    (call[c].pc = "ok" <=> verdict[call[c].tag] = "ack")

\* What Publish promises: it returns nil only for a message the broker confirmed.
SuccessIsConfirmed ==
  \A c \in Call : call[c].pc = "ok" => verdict[call[c].tag] = "ack"

-----------------------------------------------------------------------------
(* Liveness.  The broker answers what it was sent, the library hands over  *)
(* what arrived and a goroutine that can run does; no context need end.    *)

FairSpec ==
  /\ Spec
  /\ \A t \in 1 .. Cardinality(Call) : WF_vars(t \in DOMAIN verdict /\ Decide(t))
  /\ WF_vars(HandOver)
  /\ \A c \in Call :
       WF_vars(Send(c) \/ SendFails(c) \/ ReadConfirmation(c) \/ ConfirmsClosed(c))

\* No call waits for ever, for the mutex or for a confirmation, not even after
\* others gave up or the connection went down.
EveryCallReturns == \A c \in Call : <>(call[c].pc \in Returned)
=============================================================================
