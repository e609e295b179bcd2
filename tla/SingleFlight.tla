---------------------------- MODULE SingleFlight ----------------------------
(***************************************************************************)
(* What warp-go means by a flight, in resolveDNS (one per host name) and   *)
(* in dohConnection (one for the shared DoH connection): the first caller  *)
(* leads and does the work, later callers wait for it, and the end of the  *)
(* work releases them all at once.                                         *)
(*                                                                         *)
(* DnsResolver and MasqueClient each implement this specification.         *)
(***************************************************************************)
CONSTANTS
  Procs,  \* the callers
  Keys    \* what they call for

(* The part of each caller in the flight of each key: "out", "wait", "lead" *)
(* or "landed", when the work is done and the waiters are free, but the     *)
(* flight has not left the map yet.                                         *)
VARIABLE role

Init == role = [k \in Keys |-> [p \in Procs |-> "out"]]

Move(k, p, from, to) ==
  /\ role[k][p] = from
  /\ role' = [role EXCEPT ![k] = [@ EXCEPT ![p] = to]]

Airborne(k) == \E p \in Procs : role[k][p] = "lead"
Taken(k)    == \E p \in Procs : role[k][p] \in {"lead", "landed"}

(* Nobody flies for k: take the lead. *)
Lead(k, p) == ~Taken(k) /\ Move(k, p, "out", "lead")

(* Somebody does: wait.  A flight that has landed is not waited for. *)
Follow(k, p) == Airborne(k) /\ Move(k, p, "out", "wait")

(* A waiter whose own context ends does not wait for the landing. *)
GiveUp(k, p) == Move(k, p, "wait", "out")

(* The leader ends the flight: no waiter is left behind. *)
Land(k, p) ==
  /\ role[k][p] = "lead"
  /\ \E after \in {"landed", "out"} :
       role' = [role EXCEPT ![k] = [q \in Procs |-> IF q = p THEN after
                                                    ELSE IF @[q] = "wait" THEN "out" ELSE @[q]]]

Retire(k, p) == Move(k, p, "landed", "out")

Next ==
  \E k \in Keys, p \in Procs :
    Lead(k, p) \/ Follow(k, p) \/ GiveUp(k, p) \/ Land(k, p) \/ Retire(k, p)

Spec == Init /\ [][Next]_role
=============================================================================
