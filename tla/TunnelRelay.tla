---------------------------- MODULE TunnelRelay ----------------------------
(***************************************************************************)
(* One SOCKS5 connection served by the HTTP/3 back end, from accept to the *)
(* end of its tunnel: HandleSOCKS5 (tunnel/masque.go), the goroutine that  *)
(* watches for shutdown, the goroutine that copies the response, and the   *)
(* two peers, the client on conn and the edge on the request stream.       *)
(*                                                                         *)
(* Payload is counted in chunks.  Every read and write may block as long   *)
(* as its peer likes; what ends it is a peer's action, a Close, a          *)
(* CancelRead or a deadline.  The lookup, the stream pool and the UDP      *)
(* association the handler calls are other modules: here they succeed or   *)
(* fail.                                                                   *)
(***************************************************************************)
EXTENDS Naturals

CONSTANTS
  MaxChunks,    \* chunks each peer may send in its life
  RequireAuth,  \* cfg.Username and cfg.Password are set
  AllowUDP      \* cfg.AllowUDP

ASSUME ChunksAssumption == MaxChunks \in Nat
ASSUME ConfigAssumption == RequireAuth \in BOOLEAN /\ AllowUDP \in BOOLEAN

VARIABLES
  pc,                    \* HandleSOCKS5
  mon,                   \* the goroutine that watches ctx
  copier,                \* the goroutine that copies edge to client
  ctxDone,               \* the process is shutting down
  connOpen, connDl,      \* conn is open on our side; a deadline is set on it
  client,                \* "up", "eof" (done sending, still reading), "gone"
  cSent, cRelayed,       \* chunks sent by the client; passed on to the edge
  upHeld,                \* a chunk read from conn is being written to the stream
  send, recv,            \* the two directions of reqStream
  streamDl,              \* its deadline: "none", "set" or "past"
  edge, edgeReads,       \* "up", "fin" (done sending), "reset"; it still takes data
  eSent, eRelayed,       \* chunks sent by the edge; passed on to the client
  downHeld,              \* a chunk read from the stream is being written to conn
  grace                  \* the relayDrainGrace timer has fired

connVars   == <<connOpen, connDl>>
clientVars == <<client, cSent, cRelayed, upHeld>>
streamVars == <<send, recv, streamDl>>
edgeVars   == <<edge, edgeReads, eSent, eRelayed, downHeld>>
vars       == <<pc, mon, copier, ctxDone, grace, connVars, clientVars, streamVars, edgeVars>>

Relaying == {"relay", "drain", "join"}

(* accept, up to the goroutine that watches ctx and conn.SetDeadline. *)
Init ==
  /\ pc = "greet" /\ mon = "wait" /\ copier = "off"
  /\ ctxDone = FALSE /\ grace = FALSE
  /\ connOpen = TRUE /\ connDl = TRUE
  /\ client = "up" /\ cSent = 0 /\ cRelayed = 0 /\ upHeld = FALSE
  /\ send = "none" /\ recv = "none" /\ streamDl = "none"
  /\ edge = "up" /\ edgeReads = TRUE /\ eSent = 0 /\ eRelayed = 0 /\ downHeld = FALSE

-----------------------------------------------------------------------------
(* The peers and the process.                                               *)

ClientSends ==
  /\ client = "up" /\ pc \in Relaying /\ cSent < MaxChunks
  /\ cSent' = cSent + 1
  /\ UNCHANGED <<pc, mon, copier, ctxDone, grace, connVars, client, cRelayed, upHeld, streamVars, edgeVars>>

ClientHalfCloses ==
  /\ client = "up" /\ client' = "eof"
  /\ UNCHANGED <<pc, mon, copier, ctxDone, grace, connVars, cSent, cRelayed, upHeld, streamVars, edgeVars>>

ClientBreaks ==
  /\ client # "gone" /\ client' = "gone"
  /\ UNCHANGED <<pc, mon, copier, ctxDone, grace, connVars, cSent, cRelayed, upHeld, streamVars, edgeVars>>

EdgeSends ==
  /\ edge = "up" /\ pc \in Relaying /\ eSent < MaxChunks
  /\ eSent' = eSent + 1
  /\ UNCHANGED <<pc, mon, copier, ctxDone, grace, connVars, clientVars, streamVars, edge, edgeReads, eRelayed, downHeld>>

EdgeFinishes ==
  /\ edge = "up" /\ pc \in Relaying
  /\ edge' = "fin"
  /\ UNCHANGED <<pc, mon, copier, ctxDone, grace, connVars, clientVars, streamVars, edgeReads, eSent, eRelayed, downHeld>>

EdgeResets ==
  /\ edge # "reset" /\ recv = "open"
  /\ edge' = "reset" /\ edgeReads' = FALSE
  /\ UNCHANGED <<pc, mon, copier, ctxDone, grace, connVars, clientVars, streamVars, eSent, eRelayed, downHeld>>

(* STOP_SENDING: the edge wants no more of the request; its response goes on. *)
EdgeStopsReading ==
  /\ edgeReads /\ pc \in Relaying
  /\ edgeReads' = FALSE
  /\ UNCHANGED <<pc, mon, copier, ctxDone, grace, connVars, clientVars, streamVars, edge, eSent, eRelayed, downHeld>>

Shutdown ==
  /\ ~ctxDone /\ ctxDone' = TRUE
  /\ UNCHANGED <<pc, mon, copier, grace, connVars, clientVars, streamVars, edgeVars>>

-----------------------------------------------------------------------------
(* Retiring what the handler owns.                                          *)

(* releaseStream: both directions, CancelRead and Close. *)
ReleaseStream_SendOnly == send' = "closed" /\ UNCHANGED recv
ReleaseStream == send' = "closed" /\ recv' = "cancelled"

(* release, under once: the stream and the client's connection. *)
Release == ReleaseStream /\ connOpen' = FALSE

(* The handler's deferred calls: release if there is a tunnel, handlerDone, *)
(* conn.Close.                                                              *)
Return == pc' = "done" /\ connOpen' = FALSE

-----------------------------------------------------------------------------
(* HandleSOCKS5, up to the tunnel.                                          *)

(* Greeting, authentication and request each end well or end the handler:   *)
(* a short or malformed message, wrong credentials, a failing Read or       *)
(* Write, the deadline.  A client may have sent all three and its EOF.      *)
Handshake(from, to) ==
  /\ pc = from
  /\ \/ connOpen /\ client # "gone" /\ pc' = to /\ UNCHANGED connOpen
     \/ Return
  /\ UNCHANGED <<mon, copier, ctxDone, grace, connDl, clientVars, streamVars, edgeVars>>

Greet == Handshake("greet", IF RequireAuth THEN "auth" ELSE "request")
Auth  == Handshake("auth", "request")

(* CONNECT or UDP ASSOCIATE: the handshake deadline is dropped. *)
Request ==
  /\ pc = "request"
  /\ \/ /\ connOpen /\ client # "gone"
        /\ pc' \in {"resolve"} \cup (IF AllowUDP THEN {"udp"} ELSE {})
        /\ connDl' = FALSE
        /\ UNCHANGED connOpen
     \/ Return /\ UNCHANGED connDl
  /\ UNCHANGED <<mon, copier, ctxDone, grace, clientVars, streamVars, edgeVars>>

(* handleUDPAssociate returns, at the latest when conn ends. *)
UdpEnds ==
  /\ pc = "udp"
  /\ Return
  /\ UNCHANGED <<mon, copier, ctxDone, grace, connDl, clientVars, streamVars, edgeVars>>

Resolve ==
  /\ pc = "resolve"
  /\ \/ pc' = "open" /\ UNCHANGED connOpen
     \/ Return
  /\ UNCHANGED <<mon, copier, ctxDone, grace, connDl, clientVars, streamVars, edgeVars>>

(* openRequestStream, then SetDeadline at the head of connectThroughEdge. *)
OpenStream ==
  /\ pc = "open"
  /\ \/ /\ pc' = "exchange" /\ send' = "open" /\ recv' = "open" /\ streamDl' = "set"
        /\ UNCHANGED connOpen
     \/ Return /\ UNCHANGED streamVars
  /\ UNCHANGED <<mon, copier, ctxDone, grace, connDl, clientVars, edgeVars>>

(* 200: connectThroughEdge clears the deadline; the client is told and both *)
(* copies start.  An error of that reply is ignored.                        *)
ExchangeOK_KeepsDeadline ==
  /\ pc = "exchange" /\ edge = "up" /\ streamDl # "past"
  /\ pc' = "relay" /\ copier' = "copy"
  /\ UNCHANGED <<mon, ctxDone, grace, connVars, clientVars, streamVars, edgeVars>>
ExchangeOK ==
  /\ pc = "exchange" /\ edge = "up" /\ streamDl # "past"
  /\ streamDl' = "none"
  /\ pc' = "relay" /\ copier' = "copy"
  /\ UNCHANGED <<mon, ctxDone, grace, connVars, clientVars, send, recv, edgeVars>>

(* Another status, or the stream died. *)
ExchangeRefused ==
  /\ pc = "exchange"
  /\ ReleaseStream /\ Return
  /\ UNCHANGED <<mon, copier, ctxDone, grace, connDl, clientVars, streamDl, edgeVars>>

(* The edge accepted the stream and never answered: the deadline, which is  *)
(* all that ends the wait.                                                  *)
DeadlinePasses ==
  /\ streamDl = "set" /\ pc # "done"
  /\ streamDl' = "past"
  /\ UNCHANGED <<pc, mon, copier, ctxDone, grace, connVars, clientVars, send, recv, edgeVars>>

ExchangeTimesOut ==
  /\ pc = "exchange" /\ streamDl = "past"
  /\ ReleaseStream /\ Return
  /\ UNCHANGED <<mon, copier, ctxDone, grace, connDl, clientVars, streamDl, edgeVars>>

-----------------------------------------------------------------------------
(* The tunnel: io.Copy(reqStream, conn) in the handler.                     *)

RelayRead ==
  /\ pc = "relay" /\ ~upHeld /\ connOpen /\ client # "gone" /\ cRelayed < cSent
  /\ upHeld' = TRUE
  /\ UNCHANGED <<pc, mon, copier, ctxDone, grace, connVars, client, cSent, cRelayed, streamVars, edgeVars>>

RelayWrite ==
  /\ pc = "relay" /\ upHeld /\ send = "open" /\ edgeReads
  /\ cRelayed' = cRelayed + 1 /\ upHeld' = FALSE
  /\ UNCHANGED <<pc, mon, copier, ctxDone, grace, connVars, client, cSent, streamVars, edgeVars>>

(* A clean EOF: close the send side and let the response drain. *)
RelayEOF ==
  /\ pc = "relay" /\ ~upHeld /\ connOpen /\ client = "eof" /\ cRelayed = cSent
  /\ send' = "closed" /\ pc' = "drain"
  /\ UNCHANGED <<mon, copier, ctxDone, grace, connVars, clientVars, recv, streamDl, edgeVars>>

(* Any other end of the copy.  Between two writes it notices a conn that    *)
(* broke or was closed under it; during a write only a stream that takes no *)
(* more, because the edge said so or because our side was closed.           *)
RelayFails ==
  /\ pc = "relay"
  /\ IF upHeld THEN ~edgeReads \/ send = "closed" ELSE ~connOpen \/ client = "gone"
  /\ Release /\ pc' = "join"
  /\ UNCHANGED <<mon, copier, ctxDone, grace, connDl, clientVars, streamDl, edgeVars>>

(* relayDrainGrace after the half-close. *)
GraceExpires ==
  /\ pc = "drain" /\ ~grace
  /\ grace' = TRUE
  /\ UNCHANGED <<pc, mon, copier, ctxDone, connVars, clientVars, streamVars, edgeVars>>

DrainTimer_NoWait == TRUE
DrainTimer == grace

(* The select after a clean EOF: drained, or the timer and release. *)
Drain ==
  /\ pc = "drain" /\ pc' = "join"
  /\ \/ copier = "done" /\ UNCHANGED <<connOpen, send, recv>>
     \/ DrainTimer /\ Release
  /\ UNCHANGED <<mon, copier, ctxDone, grace, connDl, clientVars, streamDl, edgeVars>>

(* <-drained, and the handler returns. *)
Drained == copier = "done"

Join ==
  /\ pc = "join" /\ Drained
  /\ ReleaseStream /\ Return
  /\ UNCHANGED <<mon, copier, ctxDone, grace, connDl, clientVars, streamDl, edgeVars>>

-----------------------------------------------------------------------------
(* io.Copy(conn, reqStream) in its own goroutine.                           *)

CopyRead ==
  /\ copier = "copy" /\ ~downHeld /\ recv = "open" /\ edge # "reset" /\ eRelayed < eSent
  /\ downHeld' = TRUE
  /\ UNCHANGED <<pc, mon, copier, ctxDone, grace, connVars, clientVars, streamVars, edge, edgeReads, eSent, eRelayed>>

CopyWrite ==
  /\ copier = "copy" /\ downHeld /\ connOpen /\ client # "gone"
  /\ eRelayed' = eRelayed + 1 /\ downHeld' = FALSE
  /\ UNCHANGED <<pc, mon, copier, ctxDone, grace, connVars, clientVars, streamVars, edge, edgeReads, eSent>>

(* In a write: conn fails.  In a read: the response has ended, the edge has *)
(* reset the stream, or CancelRead.                                         *)
CopyOver ==
  /\ copier = "copy"
  /\ IF downHeld THEN ~connOpen \/ client = "gone"
                 ELSE edge = "reset" \/ recv # "open" \/ (edge = "fin" /\ eRelayed = eSent)

(* Then release and close(drained). *)
CopyEnds_NoRelease ==
  /\ CopyOver
  /\ copier' = "done"
  /\ UNCHANGED <<pc, mon, ctxDone, grace, connVars, clientVars, streamVars, edgeVars>>
CopyEnds ==
  /\ CopyOver
  /\ Release /\ copier' = "done"
  /\ UNCHANGED <<pc, mon, ctxDone, grace, connDl, clientVars, streamDl, edgeVars>>

-----------------------------------------------------------------------------
(* The goroutine that watches ctx and handlerDone.                          *)
Monitor ==
  /\ mon = "wait"
  /\ \/ ctxDone /\ connOpen' = FALSE
     \/ pc = "done" /\ UNCHANGED connOpen
  /\ mon' = "done"
  /\ UNCHANGED <<pc, copier, ctxDone, grace, connDl, clientVars, streamVars, edgeVars>>

-----------------------------------------------------------------------------
Finished == pc = "done" /\ mon = "done" /\ UNCHANGED vars

Peers == \/ ClientSends \/ ClientHalfCloses \/ ClientBreaks
         \/ EdgeSends \/ EdgeFinishes \/ EdgeResets \/ EdgeStopsReading \/ Shutdown
Setup == Greet \/ Auth \/ Request \/ UdpEnds \/ Resolve \/ OpenStream
         \/ ExchangeOK \/ ExchangeRefused \/ DeadlinePasses \/ ExchangeTimesOut
Tunnel == RelayRead \/ RelayWrite \/ RelayEOF \/ RelayFails \/ GraceExpires \/ Drain \/ Join

Next == Peers \/ Setup \/ Tunnel \/ CopyRead \/ CopyWrite \/ CopyEnds \/ Monitor \/ Finished

Spec == Init /\ [][Next]_vars

(* The handshake and the exchange run under deadlines, the lookup and the   *)
(* stream under the 20 s set-up budget, the drain under its timer; an       *)
(* association notices the end of conn, a copy the end of what it is parked *)
(* on.  The peers owe nothing: a chunk in flight need never be taken, an    *)
(* exchange never be answered, and a write is not known to notice that the  *)
(* other goroutine closed its side of the stream.                           *)
Fairness ==
  /\ WF_vars(Greet \/ Auth \/ Request \/ Resolve \/ OpenStream)
  /\ WF_vars(ExchangeTimesOut)
  /\ WF_vars((client # "up" \/ ~connOpen) /\ UdpEnds)
  /\ WF_vars(Monitor) /\ WF_vars(RelayRead) /\ WF_vars(RelayEOF)
  /\ WF_vars((upHeld => ~edgeReads) /\ RelayFails)
  /\ WF_vars(Drain) /\ WF_vars(Join)
  /\ WF_vars(CopyRead) /\ WF_vars(CopyEnds)
  /\ WF_vars(DeadlinePasses) /\ WF_vars(GraceExpires)

FairSpec == Spec /\ Fairness

-----------------------------------------------------------------------------
(* Properties.                                                              *)

TypeOK ==
  /\ pc \in {"greet", "auth", "request", "udp", "resolve", "open", "exchange", "done"} \cup Relaying
  /\ mon \in {"wait", "done"} /\ copier \in {"off", "copy", "done"}
  /\ ctxDone \in BOOLEAN /\ grace \in BOOLEAN
  /\ connOpen \in BOOLEAN /\ connDl \in BOOLEAN
  /\ client \in {"up", "eof", "gone"} /\ cSent \in 0..MaxChunks /\ cRelayed \in 0..cSent
  /\ send \in {"none", "open", "closed"} /\ recv \in {"none", "open", "cancelled"}
  /\ streamDl \in {"none", "set", "past"}
  /\ edge \in {"up", "fin", "reset"} /\ edgeReads \in BOOLEAN
  /\ upHeld \in BOOLEAN /\ downHeld \in BOOLEAN
  /\ eSent \in 0..MaxChunks /\ eRelayed \in 0..eSent

(* On every path out of the handler, the error paths included, the stream   *)
(* has been returned to the edge's grant in both directions (releaseStream  *)
(* and release), and the goroutine that copies the response has ended.      *)
StreamReturned == pc = "done" => send # "open" /\ recv # "open" /\ copier # "copy"

(* A tunnel runs under no deadline left over from its set-up, neither the   *)
(* 15 s of the handshake nor the one of the CONNECT exchange.               *)
NoLeftoverDeadline == pc \in Relaying => ~connDl /\ streamDl = "none"

(* The two directions of the tunnel, as RelayDirection sees them: the       *)
(* client's data goes up until the handler leaves its copy, the response    *)
(* comes down until the copier is done.                                     *)
UpOver   == copier # "off" /\ pc # "relay"
DownOver == copier = "done"
Broken   == client = "gone" \/ edge = "reset" \/ ~edgeReads \/ ctxDone

Up   == INSTANCE RelayDirection
          WITH Coupled <- TRUE, sent <- cSent, got <- cRelayed, fin <- client # "up",
               ended <- UpOver, fault <- Broken, other <- DownOver, late <- FALSE
Down == INSTANCE RelayDirection
          WITH Coupled <- FALSE, sent <- eSent, got <- eRelayed, fin <- edge # "up",
               ended <- DownOver, fault <- Broken, other <- UpOver, late <- grace

(* The tunnel truncates nothing without a reason.  The upload ends early    *)
(* only when the client, the edge or the process fails or the response is   *)
(* over; the response outlives the client's half-close and ends early only  *)
(* on a failure or after relayDrainGrace, whichever goroutine releases the  *)
(* stream and conn under the other first (HandleSOCKS5, masque.go 626-674). *)
TruncatesNothing == Up!Spec /\ Down!Spec

(* After a clean half-close the response keeps flowing: the stream is given *)
(* up only when the response is complete or can no longer arrive or be      *)
(* delivered, or when relayDrainGrace is over.                              *)
HalfCloseDrains ==
  [][pc = "drain" /\ recv = "open" /\ recv' # "open" =>
       \/ edge = "fin" /\ eRelayed = eSent
       \/ edge = "reset" \/ client = "gone" \/ ~connOpen \/ grace]_vars

(* The edge leaves a write of the tunnel parked for ever. *)
EdgeStalls == <>[](pc = "relay" /\ upHeld)

(* A client that is done sending or has vanished, a response that is over,  *)
(* or a shutdown ends the handler and the goroutine that watches ctx for    *)
(* it, whatever the edge does short of stalling a write: every wait on the  *)
(* edge is under a deadline, a timer or a CancelRead, and release closes    *)
(* conn under the other copy.                                               *)
HandlerReturns ==
  EdgeStalls \/ ((client # "up" \/ copier = "done" \/ ctxDone) ~> (pc = "done" /\ mon = "done"))
=============================================================================
