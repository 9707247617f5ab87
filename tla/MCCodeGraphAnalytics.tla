------------------------ MODULE MCCodeGraphAnalytics ------------------------
(* CodeGraphAnalytics for TLC.                                               *)
EXTENDS CodeGraphAnalytics, TLC

Symmetry == Permutations(Repos) \cup Permutations(Procs)
=============================================================================
