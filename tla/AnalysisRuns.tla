---------------------------- MODULE AnalysisRuns ----------------------------
(***************************************************************************)
(* What the analysis lifecycle of the upload service promises its users:   *)
(* every dataset has a history of runs, a new run begins only when the     *)
(* earlier ones have ended, a run moves through its stages one at a time   *)
(* or fails, and a closed (archived) dataset gets no further run.          *)
(* JobLifecycle implements it with rows, request handlers and events.      *)
(***************************************************************************)
EXTENDS Naturals, Sequences

CONSTANTS
  Dataset,      \* the datasets that can be uploaded
  LateFailures  \* whether a run that was COMPLETED may still turn FAILED

VARIABLES
  runs,    \* every run ever begun, in order: its dataset and its status
  closed   \* the archived datasets

vars == <<runs, closed>>

\* The stages of a run in order; NORMALIZED is a status that no step enters.
Stage == <<"UPLOADED", "NORMALIZING", "BUILDING_RELATIONS", "SCORING", "COMPLETED">>
Ended == {"COMPLETED", "FAILED"}
Run == [dataset : Dataset, status : {Stage[k] : k \in 1 .. 5} \cup {"FAILED"}]

AllEnded(d) == \A i \in DOMAIN runs : runs[i].dataset = d => runs[i].status \in Ended

Init == runs = <<>> /\ closed = {}

Begin(d) ==
  /\ d \notin closed
  /\ AllEnded(d)
  /\ runs' = Append(runs, [dataset |-> d, status |-> "UPLOADED"])
  /\ UNCHANGED closed

Advance(i) ==
  /\ \E k \in 1 .. 4 : /\ runs[i].status = Stage[k]
                       /\ runs' = [runs EXCEPT ![i].status = Stage[k + 1]]
  /\ UNCHANGED closed

Fail(i) ==
  /\ runs[i].status \notin Ended \/ (LateFailures /\ runs[i].status = "COMPLETED")
  /\ runs' = [runs EXCEPT ![i].status = "FAILED"]
  /\ UNCHANGED closed

Close(d) ==
  /\ AllEnded(d)
  /\ closed' = closed \cup {d}
  /\ UNCHANGED runs

Next ==
  \/ \E d \in Dataset : Begin(d) \/ Close(d)
  \/ \E i \in DOMAIN runs : Advance(i) \/ Fail(i)

Spec == Init /\ [][Next]_vars
=============================================================================
