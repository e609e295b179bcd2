--------------------------- MODULE MCMasqueClient ---------------------------
(* Instances of MasqueClient for TLC.                                       *)
EXTENDS MasqueClient, TLC

(* Goroutines, bundles and DoH connections are only compared for equality. *)
Symmetry == Permutations(Procs) \cup Permutations(Bundles) \cup Permutations(Dohs)
=============================================================================
