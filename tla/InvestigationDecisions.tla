----------------------- MODULE InvestigationDecisions -----------------------
(***************************************************************************)
(* The decision an analyst records about a scored return.  The scoring     *)
(* service checks the transition against one read of the row and chooses   *)
(* between INSERT and UPDATE by a second one; neither locks the row, and   *)
(* each statement is a transaction of its own, so that other requests run  *)
(* in between.                                                             *)
(***************************************************************************)
EXTENDS Naturals, FiniteSets

CONSTANTS
  Return,    \* the returns that have a scoring result
  Request,   \* the PUT requests
  NoRow      \* what findDecision answers when there is no row

VARIABLES
  decision,  \* table investigation_decisions: the row of each return
  request    \* what each request asks, where it is and the row it has read last

vars == <<decision, request>>

Undecided == {"OPEN", "NEEDS_MORE_INFO"}
Final == {"CONFIRMED_FRAUD", "FALSE_POSITIVE", "RESOLVED"}
Outcome == Undecided \cup Final

\* The action, note, analyst and timestamps of a row are those of the request that wrote it.
Row == [outcome : Outcome, by : Request]
Answered == {"saved", "refused", "conflict"}
Pc == {"new", "checked", "inserting", "updating", "written"} \cup Answered

TypeOK ==
  /\ decision \in [Return -> Row \cup {NoRow}]
  /\ request \in [Request -> [pc : Pc, return : Return, outcome : Outcome,
                              blankAnalyst : BOOLEAN, seen : Row \cup {NoRow}]]

Init ==
  /\ decision = [r \in Return |-> NoRow]
  /\ request \in [Request -> [pc : {"new"}, return : Return, outcome : Outcome,
                              blankAnalyst : BOOLEAN, seen : {NoRow}]]

\* Mutant: a final outcome may follow another.
AllowedTransitionToFinal(from, to) == from = "OPEN" \/ to # "OPEN" \/ from = to
AllowedTransition(from, to) ==
  \/ from = "OPEN"
  \/ from = "NEEDS_MORE_INFO" /\ to # "OPEN"
  \/ from = to

Found(q) == decision[request[q].return]
GoTo(q, pc) == request' = [request EXCEPT ![q].pc = pc, ![q].seen = Found(q)]

\* Mutant: nobody asks who the analyst is.
RefusableTransition(q) ==
  Found(q) # NoRow /\ ~AllowedTransition(Found(q).outcome, request[q].outcome)
\* The row as the request reads it now forbids the outcome, or no analyst is named.
Refusable(q) ==
  \/ Found(q) # NoRow /\ ~AllowedTransition(Found(q).outcome, request[q].outcome)
  \/ request[q].blankAnalyst

\* ScoringService.saveDecision
CheckTransition(q) ==
  /\ request[q].pc = "new"
  /\ GoTo(q, IF Refusable(q) THEN "refused" ELSE "checked")
  /\ UNCHANGED decision

\* ScoringResultRepository.saveDecision, its second read; the transition is not
\* checked again.
ChooseStatement(q) ==
  /\ request[q].pc = "checked"
  /\ request' = [request EXCEPT ![q].pc = IF Found(q) = NoRow THEN "inserting" ELSE "updating"]
  /\ UNCHANGED decision

\* Mutant: the row does not say whose decision it is.
WriteAnonymously(q) ==
  /\ decision' = [decision EXCEPT ![request[q].return] =
                    [outcome |-> request[q].outcome, by |-> NoRow]]
  /\ request' = [request EXCEPT ![q].pc = "written"]
Write(q) ==
  /\ decision' = [decision EXCEPT ![request[q].return] =
                    [outcome |-> request[q].outcome, by |-> q]]
  /\ request' = [request EXCEPT ![q].pc = "written"]

\* Mutant: the INSERT overwrites a row that is there.
InsertOrReplace(q) == request[q].pc = "inserting" /\ Write(q)
\* The primary key refuses a second row of the return.
Insert(q) ==
  /\ request[q].pc = "inserting"
  /\ IF Found(q) = NoRow
       THEN Write(q)
       ELSE /\ request' = [request EXCEPT ![q].pc = "conflict"]
            /\ UNCHANGED decision

Update(q) == request[q].pc = "updating" /\ Write(q)

\* The row is read once more for the answer; by then it may be another request's.
Reply(q) ==
  /\ request[q].pc = "written"
  /\ request' = [request EXCEPT ![q].pc = "saved"]
  /\ UNCHANGED decision

Next == \E q \in Request :
  CheckTransition(q) \/ ChooseStatement(q) \/ Insert(q) \/ Update(q) \/ Reply(q)

Spec == Init /\ [][Next]_vars

-----------------------------------------------------------------------------
(* Properties.                                                             *)

\* A final outcome is changed only by a request that checked its transition before
\* the row reached its present state: requests that do not overlap never change it.
FinalChangesOnlyByStaleCheck ==
  [][\A r \in Return :
       decision[r] # NoRow /\ decision[r].outcome \in Final
         /\ decision'[r].outcome # decision[r].outcome
           => request[decision'[r].by].seen # decision[r]]_vars

\* Every row was written by a request the service did not turn down: one with an
\* analyst, whose transition was allowed from the row it had read.
RowsAreSanctioned ==
  \A r \in Return : decision[r] # NoRow =>
    LET q == request[decision[r].by] IN
    /\ q.pc \in {"written", "saved"} /\ q.return = r /\ ~q.blankAnalyst
    /\ q.seen = NoRow \/ AllowedTransition(q.seen.outcome, q.outcome)

\* The first decision on a return is not lost: a request that found no row does not
\* replace the row another one put there in the meantime.
InsertNeverReplaces ==
  [][\A r \in Return : decision[r] # NoRow /\ decision'[r] # decision[r]
       => request[decision'[r].by].pc = "updating"]_vars

\* Documented: terminal outcomes cannot transition back to an open state.
FinalIsNotReopened ==
  [][\A r \in Return : decision[r] # NoRow /\ decision[r].outcome \in Final
       => decision'[r].outcome \notin Undecided]_vars
=============================================================================
