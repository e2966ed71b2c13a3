--------------------------- MODULE MCLocalPackage ---------------------------
EXTENDS LocalPackage, TLC

(* Two files of dataset "x" with different schemas, one of "y". *)
MCClaim == [t \in Tets |-> IF t = "y1" THEN "y" ELSE "x"]
MCSchema == [t \in Tets |-> IF t = "x2" THEN "long" ELSE "short"]

Symmetry == Permutations(Committers) \cup Permutations(Parts)
=============================================================================
