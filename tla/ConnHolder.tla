----------------------------- MODULE ConnHolder -----------------------------
(***************************************************************************)
(* What both back ends of warp-go mean by having a connection to the edge: *)
(* at most one is handed out to the handlers, a connection that is not has *)
(* an owner that publishes or closes it, and a closed client hands out     *)
(* none, however late a dial ends.                                         *)
(*                                                                         *)
(* MasqueClient (reconnect and Close) and H2Client (maintain and Close)    *)
(* each implement this specification.                                      *)
(***************************************************************************)
CONSTANTS
  Conns,  \* the identities of connections
  None    \* no connection

VARIABLES
  current,  \* the connection handed out, or None
  closed,   \* Close has taken effect
  hands,    \* connections some goroutine has to publish or to close
  open      \* connections built and not yet closed

vars == <<current, closed, hands, open>>

(* The client exists once its first dial has succeeded. *)
Init ==
  /\ current \in Conns /\ closed = FALSE
  /\ hands = {} /\ open = {current}

(* The connection handed out, if any, passes into somebody's hands. *)
Withdrawn == {current} \ {None}

(* A dial succeeds.  An open client dials one connection at a time: besides *)
(* the one handed out no other is open.                                     *)
Dial(c) ==
  /\ c \notin open
  /\ closed \/ open \subseteq {current}
  /\ open' = open \cup {c} /\ hands' = hands \cup {c}
  /\ UNCHANGED <<current, closed>>

(* A dialled connection is handed out, and the one it replaces is owed a    *)
(* close.                                                                   *)
Publish(c) ==
  /\ ~closed /\ c \in hands
  /\ current' = c /\ hands' = (hands \ {c}) \cup Withdrawn
  /\ UNCHANGED <<closed, open>>

(* A connection that failed is no longer handed out. *)
Withdraw ==
  /\ current # None
  /\ current' = None /\ hands' = hands \cup Withdrawn
  /\ UNCHANGED <<closed, open>>

(* Whoever has a connection in hand closes it; the one handed out is never  *)
(* closed.                                                                  *)
Discard(c) ==
  /\ c \in hands
  /\ hands' = hands \ {c} /\ open' = open \ {c}
  /\ UNCHANGED <<current, closed>>

Shut ==
  /\ ~closed
  /\ closed' = TRUE /\ current' = None /\ hands' = hands \cup Withdrawn
  /\ UNCHANGED open

Next ==
  \/ \E c \in Conns : Dial(c) \/ Publish(c) \/ Discard(c)
  \/ Withdraw \/ Shut

Spec == Init /\ [][Next]_vars
=============================================================================
