---------------------- MODULE MCInvestigationDecisions ----------------------
(* InvestigationDecisions with a few overlapping requests.                 *)
EXTENDS InvestigationDecisions, TLC

Symmetry == Permutations(Request)
=============================================================================
