------------------------- MODULE MCConfirmPublisher -------------------------
(* ConfirmPublisher with a few calls of Publish.                           *)
EXTENDS ConfirmPublisher, TLC

Symmetry == Permutations(Call)
=============================================================================
