----------------------------- MODULE MCH2Socks -----------------------------
(* Instances of H2Socks and, within it, UdpAssociation for TLC: both        *)
(* address families.                                                        *)
EXTENDS H2Socks
=============================================================================
