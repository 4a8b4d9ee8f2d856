----------------------------- MODULE ScoringLedger -----------------------------
(***************************************************************************)
(* What scoring promises about the calculations of a dataset: they form a  *)
(* history that is only appended to, a delivered event is entered at most  *)
(* once, and it is entered with the features it announced.                 *)
(***************************************************************************)
EXTENDS Integers, Sequences

CONSTANTS Keys,     \* idempotency keys of the events: [job, ver]
          NoKey,    \* a calculation nobody's event asked for
          Versions  \* feature versions

VARIABLE ledger     \* the calculations, in the order of their version numbers

Entered(key) == \E i \in 1..Len(ledger) : ledger[i].key = key

LInit == ledger = <<>>

EnterEvent(key) ==
  /\ ~Entered(key)
  /\ ledger' = Append(ledger, [key |-> key, ver |-> key.ver])

EnterUnasked(ver) == ledger' = Append(ledger, [key |-> NoKey, ver |-> ver])

LNext == \/ \E key \in Keys : EnterEvent(key)
         \/ \E ver \in Versions : EnterUnasked(ver)

LSpec == LInit /\ [][LNext]_ledger
=============================================================================
