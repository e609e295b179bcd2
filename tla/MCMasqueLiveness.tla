-------------------------- MODULE MCMasqueLiveness --------------------------
(* An instance of MasqueClient for the liveness of its calls.               *)
EXTENDS MasqueClient

CONSTANT Resolvers  \* goroutines that only look names up; the others do both

ASSUME ResolversAssumption == Resolvers \subseteq Procs

Dialled == {d \in Dohs : ride[d] # None}

(* Bundles and DoH connections are numbered in the order they are dialled:  *)
(* every behaviour is one of these under other names, for an identity is    *)
(* used once.                                                               *)
InOrder ==
  /\ madeB = 1..Cardinality(madeB)
  /\ Dialled = 1..Cardinality(Dialled)

(* What the instance leaves out: two tunnels at once; two callers whose     *)
(* contexts are done; Close of a client that has both reconnected and       *)
(* dialled a DoH connection, or dialled two; and the question dnsQuery      *)
(* leaves behind, which can only retire a connection, as DohBreaks does.    *)
(* A goroutine's step that is cut has another outcome that is not, so the   *)
(* fairness of MasqueClient forces none of the behaviours out.              *)
Bounds ==
  /\ \A p \in Resolvers : g[p].op # "tunnel"
  /\ \A p, q \in Procs : g[p].ctx /\ g[q].ctx => p = q
  /\ closer # "off" => Cardinality(madeB) + Cardinality(Dialled) <= 2
  /\ ~straggler

LiveInit == Init /\ InOrder
LiveNext == Next /\ InOrder' /\ Bounds'

LiveSpec == LiveInit /\ [][LiveNext]_vars /\ Fairness
=============================================================================
