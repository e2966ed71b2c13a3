--------------------------- MODULE MCPackageStore ---------------------------
(* Small instances of PackageStore for TLC. *)
EXTENDS PackageStore, TLC

CONSTANTS t1, t2

(* Two files that claim the same dataset with differing bytes. *)
MCTets == {t1, t2}
MCClaim == [t \in MCTets |-> "d"]
MCOneTet == {t1}

Symmetry == Permutations(Committers) \cup Permutations(Parts)
              \cup Permutations(MCTets)
=============================================================================
