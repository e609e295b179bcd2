------------------------------ MODULE MCProxy ------------------------------
(* Instances of Proxy for TLC, with a back-off that reaches its limit       *)
(* between two doublings, as from 5 ms to 1 s.                              *)
EXTENDS Proxy
=============================================================================
