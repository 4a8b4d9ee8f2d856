----------------------------- MODULE MCScoringRuns -----------------------------
(***************************************************************************)
(* One dataset, two scoring replicas, any two faults or requests.          *)
(***************************************************************************)
EXTENDS ScoringRuns, TLC
=============================================================================
