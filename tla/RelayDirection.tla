--------------------------- MODULE RelayDirection ---------------------------
(***************************************************************************)
(* What relaying one direction of a tunnel promises: the bytes arrive in   *)
(* the number they were sent, and the copy ends when all of a finished     *)
(* stream has been delivered.  It ends earlier only with a reason: a peer, *)
(* the edge or the process has failed, or the other direction is over and  *)
(* either drags this one along (Coupled) or has waited long enough.        *)
(*                                                                         *)
(* Both directions of TunnelRelay and of H2Socks implement this            *)
(* specification.                                                          *)
(***************************************************************************)
EXTENDS Naturals

CONSTANT Coupled  \* the end of the other direction ends this one

VARIABLES
  sent, got,  \* chunks sent by the source; delivered
  fin,        \* the source sends no more
  ended,      \* the copy is over
  fault,      \* a peer, the edge or the process has failed
  other,      \* the other direction is over
  late        \* and this one has been given its time to drain

vars == <<sent, got, fin, ended, fault, other, late>>

Init ==
  /\ sent = 0 /\ got = 0
  /\ fin = FALSE /\ ended = FALSE
  /\ fault = FALSE /\ other = FALSE /\ late = FALSE

Send ==
  /\ ~fin
  /\ sent' = sent + 1
  /\ UNCHANGED <<got, fin, ended, fault, other, late>>

Finish ==
  /\ ~fin /\ fin' = TRUE
  /\ UNCHANGED <<sent, got, ended, fault, other, late>>

Deliver ==
  /\ ~ended /\ got < sent
  /\ got' = got + 1
  /\ UNCHANGED <<sent, fin, ended, fault, other, late>>

Complete == fin /\ got = sent
Excused  == fault \/ (other /\ (Coupled \/ late))

(* The copy ends; nothing is delivered afterwards. *)
End ==
  /\ ~ended /\ (Complete \/ Excused)
  /\ ended' = TRUE
  /\ UNCHANGED <<sent, got, fin, fault, other, late>>

(* Something fails; a source that fails has sent its last chunk. *)
Break ==
  /\ ~fault /\ fault' = TRUE
  /\ fin' \in {fin, TRUE}
  /\ UNCHANGED <<sent, got, ended, other, late>>

OtherEnds ==
  /\ ~other /\ other' = TRUE
  /\ UNCHANGED <<sent, got, fin, ended, fault, late>>

Tire ==
  /\ other /\ ~late /\ late' = TRUE
  /\ UNCHANGED <<sent, got, fin, ended, fault, other>>

Next == Send \/ Finish \/ Deliver \/ End \/ Break \/ OtherEnds \/ Tire

Spec == Init /\ [][Next]_vars
=============================================================================
