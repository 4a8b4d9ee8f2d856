--------------------------- MODULE MCJobLifecycle ---------------------------
(* JobLifecycle and its views on small sets of datasets and handlers.      *)
EXTENDS JobViews, TLC

\* Handlers are interchangeable, and so are datasets.
Symmetry == Permutations(Handler) \cup Permutations(Dataset)
HandlerSymmetry == Permutations(Handler)
=============================================================================
