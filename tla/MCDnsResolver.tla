--------------------------- MODULE MCDnsResolver ---------------------------
(* Instances of DnsResolver for TLC.                                        *)
EXTENDS DnsResolver, TLC

(* Goroutines and names are only compared for equality. *)
Symmetry == Permutations(Procs) \cup Permutations(Hosts)
=============================================================================
