--------------------------- MODULE MCTunnelRelay ---------------------------
(* Instances of TunnelRelay for TLC.  The constants are numbers and flags,  *)
(* given in the configurations.                                             *)
EXTENDS TunnelRelay
=============================================================================
