-------------------- MODULE InvestigationDecisionsProofs --------------------
(* The safety of InvestigationDecisions for every set of returns and of    *)
(* overlapping requests.                                                   *)
EXTENDS InvestigationDecisions, TLAPS

\* A request that passed the check named an analyst and may follow the row it saw.
Sanctioned(q) ==
  /\ ~request[q].blankAnalyst
  /\ request[q].seen = NoRow
       \/ AllowedTransition(request[q].seen.outcome, request[q].outcome)
PassedAreSanctioned ==
  \A q \in Request : request[q].pc \in {"checked", "inserting", "updating", "written", "saved"}
    => Sanctioned(q)
IInv == TypeOK /\ PassedAreSanctioned /\ RowsAreSanctioned

\* A step of a request changes its own record and, if it writes, its return's row.
LEMMA StepEffect ==
  ASSUME TypeOK, NEW q \in Request,
         CheckTransition(q) \/ ChooseStatement(q) \/ Insert(q) \/ Update(q) \/ Reply(q)
  PROVE  /\ request' \in [Request -> [pc : Pc, return : Return, outcome : Outcome,
                                      blankAnalyst : BOOLEAN, seen : Row \cup {NoRow}]]
         /\ \A p \in Request : /\ p # q => request'[p] = request[p]
                               /\ request'[p].return = request[p].return
                               /\ request'[p].outcome = request[p].outcome
                               /\ request'[p].blankAnalyst = request[p].blankAnalyst
         /\ request[q].pc # "new" => request'[q].seen = request[q].seen
<1> DEFINE Req == [pc : Pc, return : Return, outcome : Outcome,
                   blankAnalyst : BOOLEAN, seen : Row \cup {NoRow}]
<1>1. request \in [Request -> Req] /\ Found(q) \in Row \cup {NoRow}
  BY DEF TypeOK, Found
<1>2. ASSUME NEW pc \in Pc, NEW seen \in Row \cup {NoRow},
             request' = [request EXCEPT ![q] = [@ EXCEPT !.pc = pc, !.seen = seen]]
      PROVE  /\ request' \in [Request -> Req]
             /\ \A p \in Request : /\ p # q => request'[p] = request[p]
                                   /\ request'[p].return = request[p].return
                                   /\ request'[p].outcome = request[p].outcome
                                   /\ request'[p].blankAnalyst = request[p].blankAnalyst
             /\ request'[q].seen = seen
  <2> DEFINE new == [request[q] EXCEPT !.pc = pc, !.seen = seen]
  <2>1. /\ new \in Req /\ new.return = request[q].return /\ new.outcome = request[q].outcome
        /\ new.blankAnalyst = request[q].blankAnalyst /\ new.seen = seen
    BY <1>1, <1>2
  <2>2. request' = [request EXCEPT ![q] = new]
    BY <1>2
  <2> HIDE DEF new, Req
  <2>3. QED
    BY <1>1, <2>1, <2>2
<1>3. ASSUME NEW pc \in Pc, request' = [request EXCEPT ![q].pc = pc]
      PROVE  request' = [request EXCEPT ![q] = [@ EXCEPT !.pc = pc, !.seen = request[q].seen]]
  BY <1>1, <1>3
<1>4. request[q].seen \in Row \cup {NoRow}
  BY <1>1
<1>5. CASE CheckTransition(q)
  <2>1. PICK pc \in Pc :
          request' = [request EXCEPT ![q] = [@ EXCEPT !.pc = pc, !.seen = Found(q)]]
    BY <1>5 DEF CheckTransition, GoTo, Pc, Answered
  <2>2. request[q].pc = "new"
    BY <1>5 DEF CheckTransition
  <2>3. QED
    BY <1>1, <1>2, <2>1, <2>2
<1>6. CASE ChooseStatement(q) \/ Insert(q) \/ Update(q) \/ Reply(q)
  <2>1. PICK pc \in Pc : request' = [request EXCEPT ![q].pc = pc]
    BY <1>6 DEF ChooseStatement, Insert, Update, Reply, Write, Pc, Answered
  <2>2. QED
    BY <1>2, <1>3, <1>4, <2>1
<1>7. QED
  BY <1>5, <1>6

LEMMA PassedStep ==
  ASSUME IInv, Next
  PROVE  PassedAreSanctioned'
<1>1. PICK q \in Request :
        CheckTransition(q) \/ ChooseStatement(q) \/ Insert(q) \/ Update(q) \/ Reply(q)
  BY DEF Next
<1>2. /\ TypeOK /\ PassedAreSanctioned
  BY DEF IInv
<1>3. SUFFICES ASSUME NEW p \in Request,
                      request'[p].pc \in {"checked", "inserting", "updating", "written", "saved"}
               PROVE  Sanctioned(p)'
  BY DEF PassedAreSanctioned
<1>4. CASE p # q
  BY <1>1, <1>2, <1>3, <1>4, StepEffect DEF PassedAreSanctioned, Sanctioned
<1>5. CASE p = q /\ CheckTransition(q)
  <2>1. request'[q].pc = "checked" /\ request'[q].seen = Found(q) /\ ~Refusable(q)
    BY <1>2, <1>3, <1>5 DEF CheckTransition, GoTo, TypeOK
  <2>2. QED
    BY <1>1, <1>2, <1>5, <2>1, StepEffect DEF Refusable, Sanctioned
<1>6. CASE p = q /\ (ChooseStatement(q) \/ Insert(q) \/ Update(q) \/ Reply(q))
  <2>1. request[q].pc \in {"checked", "inserting", "updating", "written"}
    BY <1>6 DEF ChooseStatement, Insert, Update, Reply
  <2>2. Sanctioned(q)
    BY <1>2, <2>1 DEF PassedAreSanctioned
  <2>3. QED
    BY <1>1, <1>2, <1>6, <2>1, <2>2, StepEffect DEF Sanctioned
<1>7. QED
  BY <1>1, <1>4, <1>5, <1>6

\* How a row can change: one request that passed the check writes its outcome.
LEMMA RowsChange ==
  ASSUME IInv, NEW q \in Request,
         CheckTransition(q) \/ ChooseStatement(q) \/ Insert(q) \/ Update(q) \/ Reply(q)
  PROVE  \/ UNCHANGED decision /\ (request[q].pc \in {"written", "saved"} => Reply(q))
         \/ /\ request[q].pc \in {"inserting", "updating"} /\ request'[q].pc = "written"
            /\ request[q].pc = "inserting" => Found(q) = NoRow
            /\ decision' = [decision EXCEPT ![request[q].return] =
                              [outcome |-> request[q].outcome, by |-> q]]
<1>1. request \in [Request -> [pc : Pc, return : Return, outcome : Outcome,
                               blankAnalyst : BOOLEAN, seen : Row \cup {NoRow}]]
  BY DEF IInv, TypeOK
<1>2. CASE CheckTransition(q) \/ ChooseStatement(q) \/ Reply(q)
  BY <1>2 DEF CheckTransition, ChooseStatement, Reply
<1>3. CASE Insert(q) /\ Found(q) # NoRow
  BY <1>3 DEF Insert
<1>4. CASE (Insert(q) /\ Found(q) = NoRow) \/ Update(q)
  <2>1. Write(q) /\ request[q].pc \in {"inserting", "updating"}
    BY <1>4 DEF Insert, Update
  <2>2. request'[q].pc = "written"
    BY <1>1, <2>1 DEF Write
  <2>3. QED
    BY <1>4, <2>1, <2>2 DEF Write, Insert, Update
<1>5. QED
  BY <1>2, <1>3, <1>4

\* The row of r was written by p, which the service did not turn down.
WrittenBy(r, p) ==
  request[p].pc \in {"written", "saved"} /\ request[p].return = r /\ Sanctioned(p)

LEMMA RowsStep ==
  ASSUME IInv, Next
  PROVE  decision' \in [Return -> Row \cup {NoRow}] /\ RowsAreSanctioned'
<1>1. PICK q \in Request :
        CheckTransition(q) \/ ChooseStatement(q) \/ Insert(q) \/ Update(q) \/ Reply(q)
  BY DEF Next
<1>2. /\ TypeOK /\ decision \in [Return -> Row \cup {NoRow}]
      /\ request \in [Request -> [pc : Pc, return : Return, outcome : Outcome,
                                  blankAnalyst : BOOLEAN, seen : Row \cup {NoRow}]]
  BY DEF IInv, TypeOK
<1>3. \A r \in Return, p \in Request : decision[r] # NoRow /\ decision[r].by = p
        => WrittenBy(r, p)
  BY <1>2 DEF IInv, RowsAreSanctioned, WrittenBy, Sanctioned, Row
<1>4. ASSUME NEW r \in Return, NEW p \in Request, WrittenBy(r, p), p # q \/ UNCHANGED decision
      PROVE  WrittenBy(r, p)'
  <2>1. CASE p # q
    BY <1>1, <1>2, <1>4, <2>1, StepEffect DEF WrittenBy, Sanctioned
  <2>2. CASE p = q /\ UNCHANGED decision
    <3>1. Reply(q)
      BY <1>1, <1>4, <2>2 DEF WrittenBy, CheckTransition, ChooseStatement, Insert, Update
    <3>2. request'[q].pc = "saved"
      BY <1>2, <3>1 DEF Reply
    <3>3. request[q].pc # "new"
      BY <1>4, <2>2 DEF WrittenBy
    <3>4. QED
      BY <1>1, <1>2, <1>4, <2>2, <3>2, <3>3, StepEffect DEF WrittenBy, Sanctioned
  <2>3. QED
    BY <1>4, <2>1, <2>2
<1>5. CASE UNCHANGED decision
  <2>1. decision' \in [Return -> Row \cup {NoRow}]
    BY <1>2, <1>5
  <2>2. \A r \in Return, p \in Request : decision'[r] # NoRow /\ decision'[r].by = p
          => WrittenBy(r, p)'
    BY <1>3, <1>4, <1>5
  <2>3. RowsAreSanctioned'
    BY <2>1, <2>2 DEF RowsAreSanctioned, WrittenBy, Sanctioned, Row
  <2>4. QED
    BY <2>1, <2>3
<1>6. CASE /\ request[q].pc \in {"inserting", "updating"} /\ request'[q].pc = "written"
           /\ decision' = [decision EXCEPT ![request[q].return] =
                             [outcome |-> request[q].outcome, by |-> q]]
  <2> DEFINE row == [outcome |-> request[q].outcome, by |-> q]
  <2>1. row \in Row /\ row.by = q /\ request[q].return \in Return
    BY <1>2 DEF Row
  <2> HIDE DEF row
  <2>2. /\ decision' \in [Return -> Row \cup {NoRow}]
        /\ \A r \in Return : decision'[r] = IF r = request[q].return THEN row ELSE decision[r]
    BY <1>2, <1>6, <2>1 DEF row
  <2>3. PassedAreSanctioned'
    BY PassedStep
  <2>4. Sanctioned(q)'
    BY <1>6, <2>3 DEF PassedAreSanctioned
  <2>5. ASSUME NEW r \in Return, NEW p \in Request, decision'[r] # NoRow, decision'[r].by = p
        PROVE  WrittenBy(r, p)'
    <3>1. CASE r = request[q].return
      <4>1. p = q
        BY <2>1, <2>2, <2>5, <3>1
      <4>2. request'[q].return = r
        BY <1>1, <1>2, <3>1, StepEffect
      <4>3. QED
        BY <1>6, <2>4, <4>1, <4>2 DEF WrittenBy
    <3>2. CASE r # request[q].return
      <4>1. decision'[r] = decision[r]
        BY <2>2, <3>2
      <4>2. WrittenBy(r, p)
        BY <1>3, <2>5, <4>1
      <4>3. p # q
        BY <1>6, <4>2 DEF WrittenBy
      <4>4. QED
        BY <1>4, <4>2, <4>3
    <3>3. QED
      BY <3>1, <3>2
  <2>6. RowsAreSanctioned'
    BY <2>2, <2>5 DEF RowsAreSanctioned, WrittenBy, Sanctioned, Row
  <2>7. QED
    BY <2>2, <2>6
<1>7. QED
  BY <1>1, <1>5, <1>6, RowsChange

LEMMA Inductive == Spec => []IInv
<1>1. Init => IInv
  <2> SUFFICES ASSUME Init PROVE IInv
    OBVIOUS
  <2>1. TypeOK
    BY DEF Init, TypeOK, Pc
  <2>2. PassedAreSanctioned /\ RowsAreSanctioned
    BY DEF Init, PassedAreSanctioned, RowsAreSanctioned
  <2>3. QED
    BY <2>1, <2>2 DEF IInv
<1>2. IInv /\ [Next]_vars => IInv'
  <2> SUFFICES ASSUME IInv, [Next]_vars PROVE IInv'
    OBVIOUS
  <2>1. CASE Next
    <3>1. TypeOK'
      BY <2>1, StepEffect, RowsStep DEF IInv, Next, TypeOK
    <3>2. QED
      BY <2>1, <3>1, PassedStep, RowsStep DEF IInv
  <2>2. CASE UNCHANGED vars
    BY <2>2 DEF IInv, vars, TypeOK, PassedAreSanctioned, Sanctioned, RowsAreSanctioned
  <2>3. QED
    BY <2>1, <2>2
<1>3. QED
  BY <1>1, <1>2, PTL DEF Spec

\* The rows of the table and the requests keep their types.
THEOREM TypeCorrect == Spec => []TypeOK
BY Inductive, PTL DEF IInv

\* A final outcome is replaced only by a request that checked its transition before
\* the row was in its present state.
THEOREM FinalIsKeptFromFreshChecks == Spec => FinalChangesOnlyByStaleCheck
<1>1. ASSUME IInv, [Next]_vars, NEW r \in Return,
             decision[r] # NoRow, decision[r].outcome \in Final,
             decision'[r].outcome # decision[r].outcome
      PROVE  request[decision'[r].by].seen # decision[r]
  <2>1. PICK q \in Request :
          CheckTransition(q) \/ ChooseStatement(q) \/ Insert(q) \/ Update(q) \/ Reply(q)
    BY <1>1 DEF Next, vars
  <2>2. /\ decision \in [Return -> Row \cup {NoRow}]
        /\ request[q].pc \in {"inserting", "updating"}
        /\ decision' = [decision EXCEPT ![request[q].return] =
                          [outcome |-> request[q].outcome, by |-> q]]
    BY <1>1, <2>1, RowsChange DEF IInv, TypeOK
  <2>3. r = request[q].return /\ decision'[r] = [outcome |-> request[q].outcome, by |-> q]
    BY <1>1, <2>2
  <2>4. Sanctioned(q)
    BY <1>1, <2>2 DEF IInv, PassedAreSanctioned
  <2>5. ASSUME request[q].seen = decision[r]
        PROVE  FALSE
    <3>1. AllowedTransition(decision[r].outcome, request[q].outcome)
      BY <1>1, <2>4, <2>5 DEF Sanctioned
    <3>2. decision[r].outcome = request[q].outcome
      BY <1>1, <3>1 DEF AllowedTransition, Final
    <3>3. QED
      BY <1>1, <2>3, <3>2
  <2>6. QED
    BY <2>3, <2>5
<1>2. IInv /\ [Next]_vars =>
        [\A r \in Return :
           decision[r] # NoRow /\ decision[r].outcome \in Final
             /\ decision'[r].outcome # decision[r].outcome
               => request[decision'[r].by].seen # decision[r]]_vars
  BY <1>1
<1>3. QED
  BY <1>2, Inductive, PTL DEF Spec, FinalChangesOnlyByStaleCheck

\* Every recorded decision was sanctioned, whatever ran between its check and its write.
THEOREM DecisionsAreSanctioned == Spec => []RowsAreSanctioned
BY Inductive, PTL DEF IInv

\* A request that found no row does not replace the row that another one put there
\* between its read and its INSERT: the primary key keeps the first decision.
THEOREM FirstDecisionIsKept == Spec => InsertNeverReplaces
<1>1. ASSUME IInv, [Next]_vars, NEW r \in Return,
             decision[r] # NoRow, decision'[r] # decision[r]
      PROVE  request[decision'[r].by].pc = "updating"
  <2>1. PICK q \in Request :
          CheckTransition(q) \/ ChooseStatement(q) \/ Insert(q) \/ Update(q) \/ Reply(q)
    BY <1>1 DEF Next, vars
  <2>2. /\ decision \in [Return -> Row \cup {NoRow}]
        /\ request[q].pc \in {"inserting", "updating"}
        /\ request[q].pc = "inserting" => Found(q) = NoRow
        /\ decision' = [decision EXCEPT ![request[q].return] =
                          [outcome |-> request[q].outcome, by |-> q]]
    BY <1>1, <2>1, RowsChange DEF IInv, TypeOK
  <2>3. r = request[q].return /\ decision'[r] = [outcome |-> request[q].outcome, by |-> q]
    BY <1>1, <2>2
  <2>4. request[q].pc = "updating"
    BY <1>1, <2>2, <2>3 DEF Found
  <2>5. QED
    BY <2>3, <2>4
<1>2. IInv /\ [Next]_vars =>
        [\A r \in Return : decision[r] # NoRow /\ decision'[r] # decision[r]
           => request[decision'[r].by].pc = "updating"]_vars
  BY <1>1
<1>3. QED
  BY <1>2, Inductive, PTL DEF Spec, InsertNeverReplaces

\* An UPDATE overwrites a row that is not the one its request was checked against.
OverwritesUnseen == \E q \in Request : Update(q) /\ request[q].seen # Found(q)

\* Were a row updated only while it is still the one the transition was checked against,
\* no final outcome would go back to an open state, whatever else overlaps: the missing
\* condition of the UPDATE is all that stands between the code and its contract.
THEOREM UpdatesOfSeenRowsSuffice ==
  Spec /\ [][~OverwritesUnseen]_vars => FinalIsNotReopened
<1>1. ASSUME IInv, Next, ~OverwritesUnseen, NEW r \in Return,
             decision[r] # NoRow, decision[r].outcome \in Final
      PROVE  decision'[r].outcome \notin Undecided
  <2>1. SUFFICES ASSUME decision'[r] # decision[r]
                 PROVE  decision'[r].outcome \notin Undecided
    BY <1>1 DEF Final, Undecided
  <2>2. PICK q \in Request :
          CheckTransition(q) \/ ChooseStatement(q) \/ Insert(q) \/ Update(q) \/ Reply(q)
    BY <1>1 DEF Next
  <2>3. /\ decision \in [Return -> Row \cup {NoRow}]
        /\ request[q].pc \in {"inserting", "updating"}
        /\ request[q].pc = "inserting" => Found(q) = NoRow
        /\ decision' = [decision EXCEPT ![request[q].return] =
                          [outcome |-> request[q].outcome, by |-> q]]
    BY <1>1, <2>1, <2>2, RowsChange DEF IInv, TypeOK
  <2>4. r = request[q].return /\ decision'[r] = [outcome |-> request[q].outcome, by |-> q]
        /\ Found(q) = decision[r]
    BY <1>1, <2>1, <2>3 DEF Found
  <2>5. request[q].pc = "updating" /\ Sanctioned(q)
    BY <1>1, <2>3, <2>4 DEF IInv, PassedAreSanctioned
  <2>6. Update(q)
    BY <2>2, <2>5 DEF CheckTransition, ChooseStatement, Insert, Reply
  <2>7. request[q].seen = decision[r]
    BY <1>1, <2>4, <2>6 DEF OverwritesUnseen
  <2>8. AllowedTransition(decision[r].outcome, request[q].outcome)
    BY <1>1, <2>5, <2>7 DEF Sanctioned
  <2>9. QED
    BY <1>1, <2>4, <2>8 DEF AllowedTransition, Final, Undecided
<1>2. IInv /\ [Next]_vars /\ [~OverwritesUnseen]_vars =>
        [\A r \in Return : decision[r] # NoRow /\ decision[r].outcome \in Final
           => decision'[r].outcome \notin Undecided]_vars
  BY <1>1
<1>3. QED
  BY <1>2, Inductive, PTL DEF Spec, FinalIsNotReopened
=============================================================================
