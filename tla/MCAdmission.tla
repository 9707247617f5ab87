----------------------------- MODULE MCAdmission -----------------------------
(* Admission for TLC.                                                        *)
EXTENDS Admission, TLC

Symmetry == Permutations(MemBulk) \cup Permutations(GraphBulk)
            \cup Permutations(Readers) \cup Permutations(Background)
=============================================================================
