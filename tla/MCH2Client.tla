----------------------------- MODULE MCH2Client -----------------------------
(* Instances of H2Client for TLC.                                           *)
EXTENDS H2Client, TLC

(* Bundles are only compared for equality. *)
Symmetry == Permutations(Bundles)
=============================================================================
