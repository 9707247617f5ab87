---------------------------- MODULE MCIngestPool ----------------------------
(* Instances of IngestPool for TLC. *)
EXTENDS IngestPool, TLC

\* Workers and jobs are interchangeable in every safety property.
Symmetry == Permutations(Workers) \cup Permutations(Jobs)
=============================================================================
