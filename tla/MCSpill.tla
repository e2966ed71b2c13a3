------------------------------- MODULE MCSpill -------------------------------
EXTENDS Spill, TLC

(* "a" is a short f32 dataset and "b" a longer f64 one. *)
MCElements == [d \in Datasets |-> IF d = "a" THEN 2 ELSE 3]
MCWide == {"b"}
Symmetry ==
  Permutations(Sessions) \cup Permutations(Results) \cup Permutations(Methods)
=============================================================================
