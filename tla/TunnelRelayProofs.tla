-------------------------- MODULE TunnelRelayProofs --------------------------
(***************************************************************************)
(* Proofs about TunnelRelay, for any number of chunks and every SOCKS5     *)
(* configuration.                                                          *)
(***************************************************************************)
EXTENDS TunnelRelay, TLAPS

(* TypeOK in three parts, each within reach of one prover: the points of    *)
(* control, the flags, and the counters, where a chunk that is held has not *)
(* been counted as relayed.                                                 *)
Points ==
  /\ pc \in {"greet", "auth", "request", "udp", "resolve", "open", "exchange", "done"} \cup Relaying
  /\ mon \in {"wait", "done"} /\ copier \in {"off", "copy", "done"}
  /\ client \in {"up", "eof", "gone"} /\ edge \in {"up", "fin", "reset"}
  /\ send \in {"none", "open", "closed"} /\ recv \in {"none", "open", "cancelled"}
  /\ streamDl \in {"none", "set", "past"}

Flags ==
  /\ ctxDone \in BOOLEAN /\ grace \in BOOLEAN /\ connOpen \in BOOLEAN /\ connDl \in BOOLEAN
  /\ edgeReads \in BOOLEAN /\ upHeld \in BOOLEAN /\ downHeld \in BOOLEAN

Counts ==
  /\ cSent \in 0..MaxChunks /\ cRelayed \in 0..cSent
  /\ eSent \in 0..MaxChunks /\ eRelayed \in 0..eSent
  /\ upHeld => cRelayed < cSent
  /\ downHeld => eRelayed < eSent

(* The initial state is typed. *)
LEMMA InitType == Init => Points /\ Flags /\ Counts
<1>1. Init => Points BY DEF Init, Points
<1>2. Init => Flags BY DEF Init, Flags
<1>3. Init => Counts BY ChunksAssumption DEF Init, Counts
<1> QED BY <1>1, <1>2, <1>3

(* No step leaves the points of control. *)
LEMMA PointsStep == Points /\ [Next]_vars => Points'
<1> SUFFICES ASSUME Points, [Next]_vars PROVE Points'
  OBVIOUS
<1> USE ConfigAssumption DEF Points, Relaying, vars, connVars, clientVars, streamVars, edgeVars
<1>1. CASE Peers
  BY <1>1 DEF Peers, ClientSends, ClientHalfCloses, ClientBreaks, EdgeSends, EdgeFinishes,
              EdgeResets, EdgeStopsReading, Shutdown
<1>2. CASE Setup
  BY <1>2 DEF Setup, Greet, Auth, Handshake, Request, UdpEnds, Resolve, OpenStream, ExchangeOK,
              ExchangeRefused, DeadlinePasses, ExchangeTimesOut, ReleaseStream, Return
<1>3. CASE Tunnel
  BY <1>3 DEF Tunnel, RelayRead, RelayWrite, RelayEOF, RelayFails, GraceExpires, Drain, Join,
              Release, ReleaseStream, Return
<1>4. CASE CopyRead \/ CopyWrite \/ CopyEnds
  BY <1>4 DEF CopyRead, CopyWrite, CopyEnds, Release, ReleaseStream
<1>5. CASE Monitor \/ Finished \/ UNCHANGED vars
  BY <1>5 DEF Monitor, Finished
<1> QED BY <1>1, <1>2, <1>3, <1>4, <1>5 DEF Next

(* No step leaves a flag that is not a flag. *)
LEMMA FlagsStep == Flags /\ [Next]_vars => Flags'
<1> SUFFICES ASSUME Flags, [Next]_vars PROVE Flags'
  OBVIOUS
<1> USE DEF Flags, vars, connVars, clientVars, streamVars, edgeVars
<1>1. CASE Peers
  BY <1>1 DEF Peers, ClientSends, ClientHalfCloses, ClientBreaks, EdgeSends, EdgeFinishes,
              EdgeResets, EdgeStopsReading, Shutdown
<1>2. CASE Setup
  BY <1>2 DEF Setup, Greet, Auth, Handshake, Request, UdpEnds, Resolve, OpenStream, ExchangeOK,
              ExchangeRefused, DeadlinePasses, ExchangeTimesOut, ReleaseStream, Return
<1>3. CASE Tunnel
  BY <1>3 DEF Tunnel, RelayRead, RelayWrite, RelayEOF, RelayFails, GraceExpires, Drain, Join,
              Release, ReleaseStream, Return
<1>4. CASE CopyRead \/ CopyWrite \/ CopyEnds
  BY <1>4 DEF CopyRead, CopyWrite, CopyEnds, Release, ReleaseStream
<1>5. CASE Monitor \/ Finished \/ UNCHANGED vars
  BY <1>5 DEF Monitor, Finished
<1> QED BY <1>1, <1>2, <1>3, <1>4, <1>5 DEF Next

(* Every step keeps the counters within what the peers sent. *)
LEMMA CountsStep == Counts /\ [Next]_vars => Counts'
<1> SUFFICES ASSUME Counts, [Next]_vars PROVE Counts'
  OBVIOUS
<1> USE ChunksAssumption DEF Counts, vars, connVars, clientVars, streamVars, edgeVars
<1>1. CASE Peers
  BY <1>1 DEF Peers, ClientSends, ClientHalfCloses, ClientBreaks, EdgeSends, EdgeFinishes,
              EdgeResets, EdgeStopsReading, Shutdown
<1>2. CASE Setup
  BY <1>2 DEF Setup, Greet, Auth, Handshake, Request, UdpEnds, Resolve, OpenStream, ExchangeOK,
              ExchangeRefused, DeadlinePasses, ExchangeTimesOut, ReleaseStream, Return
<1>3. CASE Tunnel
  BY <1>3 DEF Tunnel, RelayRead, RelayWrite, RelayEOF, RelayFails, GraceExpires, Drain, Join,
              Release, ReleaseStream, Return
<1>4. CASE CopyRead \/ CopyWrite \/ CopyEnds
  BY <1>4 DEF CopyRead, CopyWrite, CopyEnds, Release, ReleaseStream
<1>5. CASE Monitor \/ Finished \/ UNCHANGED vars
  BY <1>5 DEF Monitor, Finished
<1> QED BY <1>1, <1>2, <1>3, <1>4, <1>5 DEF Next

(* The three parts are an invariant, and make up TypeOK. *)
LEMMA TypeAlways == Spec => [](TypeOK /\ Points)
<1>1. Points /\ Flags /\ Counts => TypeOK BY DEF Points, Flags, Counts, TypeOK
<1> QED BY InitType, PointsStep, FlagsStep, CountsStep, <1>1, PTL DEF Spec

(* The types hold always: in particular the tunnel never passes on more     *)
(* chunks than it was sent.                                                 *)
THEOREM TypeCorrect == Spec => []TypeOK
BY TypeAlways, PTL

-----------------------------------------------------------------------------
(* What the handler owns at each point of its life.                         *)

BeforeStream == {"greet", "auth", "request", "udp", "resolve", "open"}

OwnInv ==
  /\ pc \in BeforeStream => copier = "off" /\ send = "none" /\ recv = "none" /\ streamDl = "none"
  /\ pc \in {"udp", "resolve", "open", "exchange"} \cup Relaying => ~connDl
  /\ pc = "exchange" => copier = "off"
  /\ pc \in Relaying => copier # "off" /\ streamDl = "none"
  /\ copier = "copy" => pc \in Relaying
  /\ pc = "done" => send # "open" /\ recv # "open"

(* The invariant holds at first. *)
LEMMA InitOwn == Init => OwnInv
BY DEF Init, OwnInv, BeforeStream, Relaying

(* Every step preserves it. *)
LEMMA NextOwn == Points /\ OwnInv /\ [Next]_vars => OwnInv'
<1> SUFFICES ASSUME Points, OwnInv, [Next]_vars PROVE OwnInv'
  OBVIOUS
<1> USE ConfigAssumption
    DEF Points, OwnInv, BeforeStream, Relaying, vars, connVars, clientVars, streamVars, edgeVars
<1>1. CASE Peers
  BY <1>1 DEF Peers, ClientSends, ClientHalfCloses, ClientBreaks, EdgeSends, EdgeFinishes,
              EdgeResets, EdgeStopsReading, Shutdown
<1>2. CASE Setup
  <2>1. CASE Greet BY <2>1 DEF Greet, Handshake, Return
  <2>2. CASE Auth BY <2>2 DEF Auth, Handshake, Return
  <2>3. CASE Request BY <2>3 DEF Request, Return
  <2>4. CASE UdpEnds BY <2>4 DEF UdpEnds, Return
  <2>5. CASE Resolve BY <2>5 DEF Resolve, Return
  <2>6. CASE OpenStream BY <2>6 DEF OpenStream, Return
  <2>7. CASE ExchangeOK BY <2>7 DEF ExchangeOK
  <2>8. CASE ExchangeRefused BY <2>8 DEF ExchangeRefused, ReleaseStream, Return
  <2>9. CASE DeadlinePasses BY <2>9 DEF DeadlinePasses
  <2>10. CASE ExchangeTimesOut BY <2>10 DEF ExchangeTimesOut, ReleaseStream, Return
  <2> QED BY <1>2, <2>1, <2>2, <2>3, <2>4, <2>5, <2>6, <2>7, <2>8, <2>9, <2>10 DEF Setup
<1>3. CASE Tunnel
  <2>1. CASE RelayRead BY <2>1 DEF RelayRead
  <2>2. CASE RelayWrite BY <2>2 DEF RelayWrite
  <2>3. CASE RelayEOF BY <2>3 DEF RelayEOF
  <2>4. CASE RelayFails BY <2>4 DEF RelayFails, Release, ReleaseStream
  <2>5. CASE GraceExpires BY <2>5 DEF GraceExpires
  <2>6. CASE Drain BY <2>6 DEF Drain, Release, ReleaseStream
  <2>7. CASE Join BY <2>7 DEF Join, Drained, ReleaseStream, Return
  <2> QED BY <1>3, <2>1, <2>2, <2>3, <2>4, <2>5, <2>6, <2>7 DEF Tunnel
<1>4. CASE CopyRead BY <1>4 DEF CopyRead
<1>5. CASE CopyWrite BY <1>5 DEF CopyWrite
<1>6. CASE CopyEnds BY <1>6 DEF CopyEnds, CopyOver, Release, ReleaseStream
<1>7. CASE Monitor BY <1>7 DEF Monitor
<1>8. CASE Finished \/ UNCHANGED vars BY <1>8 DEF Finished
<1> QED BY <1>1, <1>2, <1>3, <1>4, <1>5, <1>6, <1>7, <1>8 DEF Next

(* OwnInv is an invariant, on top of the types. *)
LEMMA OwnAlways == Spec => []OwnInv
BY TypeAlways, InitOwn, NextOwn, PTL DEF Spec

(* Every way out of HandleSOCKS5 gives both directions of the stream back   *)
(* and has waited for the copy goroutine.                                   *)
THEOREM StreamsAreReturned == Spec => []StreamReturned
<1>1. OwnInv => StreamReturned BY DEF OwnInv, StreamReturned, Relaying
<1> QED BY OwnAlways, <1>1, PTL

(* No tunnel runs under a deadline of its set-up. *)
THEOREM DeadlinesAreCleared == Spec => []NoLeftoverDeadline
<1>1. OwnInv => NoLeftoverDeadline BY DEF OwnInv, NoLeftoverDeadline
<1> QED BY OwnAlways, <1>1, PTL

(* After a half-close the response drains until it is over, cannot be       *)
(* delivered, or the grace period has passed.                               *)
THEOREM ResponseDrains == Spec => HalfCloseDrains
<1> DEFINE Lost == pc = "drain" /\ recv = "open" /\ recv' # "open" =>
                     \/ edge = "fin" /\ eRelayed = eSent
                     \/ edge = "reset" \/ client = "gone" \/ ~connOpen \/ grace
<1>1. [Next]_vars => [Lost]_vars
  <2> SUFFICES ASSUME Next, pc = "drain", recv = "open", recv' # "open" PROVE Lost
    BY DEF vars
  <2> USE DEF connVars, clientVars, streamVars, edgeVars, vars
  <2>1. CASE Peers
    BY <2>1 DEF Peers, ClientSends, ClientHalfCloses, ClientBreaks, EdgeSends, EdgeFinishes,
                EdgeResets, EdgeStopsReading, Shutdown
  <2>2. CASE Setup
    BY <2>2 DEF Setup, Greet, Auth, Handshake, Request, UdpEnds, Resolve, OpenStream,
                ExchangeOK, ExchangeRefused, DeadlinePasses, ExchangeTimesOut
  <2>3. CASE Tunnel
    BY <2>3 DEF Tunnel, RelayRead, RelayWrite, RelayEOF, RelayFails, GraceExpires,
                Drain, DrainTimer, Join
  <2>4. CASE CopyRead \/ CopyWrite \/ Monitor \/ Finished
    BY <2>4 DEF CopyRead, CopyWrite, Monitor, Finished
  <2>5. CASE CopyEnds BY <2>5 DEF CopyEnds, CopyOver
  <2> QED BY <2>1, <2>2, <2>3, <2>4, <2>5 DEF Next
<1> QED BY <1>1, PTL DEF Spec, HalfCloseDrains

-----------------------------------------------------------------------------
(* Both directions of the tunnel implement RelayDirection.                  *)

(* What one goroutine may find closed under it, and why: only a failure or  *)
(* the end of the grace period closes the stream or conn while the response *)
(* is still being copied.                                                   *)
CauseInv ==
  /\ pc = "exchange" => send = "open" /\ recv = "open"
  /\ copier = "copy" /\ pc = "relay" => send = "open"
  /\ copier = "copy" /\ (recv # "open" \/ ~connOpen) => Broken \/ grace
  /\ copier = "off" /\ pc # "done" /\ ~connOpen => ctxDone
  /\ grace => copier # "off" /\ pc \in {"drain", "join", "done"}

(* Every step preserves it. *)
LEMMA NextCause == Points /\ Flags /\ OwnInv /\ CauseInv /\ [Next]_vars => CauseInv'
<1> SUFFICES ASSUME Points, Flags, OwnInv, CauseInv, [Next]_vars PROVE CauseInv'
  OBVIOUS
<1> USE DEF Points, Flags, OwnInv, CauseInv, Broken, BeforeStream, Relaying, vars, connVars, clientVars,
            streamVars, edgeVars
<1>1. CASE Peers
  BY <1>1 DEF Peers, ClientSends, ClientHalfCloses, ClientBreaks, EdgeSends, EdgeFinishes,
              EdgeResets, EdgeStopsReading, Shutdown
<1>2. CASE Setup
  <2>1. CASE Greet \/ Auth BY <2>1 DEF Greet, Auth, Handshake, Return
  <2>2. CASE Request \/ UdpEnds \/ Resolve \/ OpenStream
    BY <2>2, ConfigAssumption DEF Request, UdpEnds, Resolve, OpenStream, Return
  <2>3. CASE ExchangeOK BY <2>3 DEF ExchangeOK
  <2>4. CASE ExchangeRefused \/ ExchangeTimesOut
    BY <2>4 DEF ExchangeRefused, ExchangeTimesOut, ReleaseStream, Return
  <2>5. CASE DeadlinePasses BY <2>5 DEF DeadlinePasses
  <2> QED BY <1>2, <2>1, <2>2, <2>3, <2>4, <2>5 DEF Setup
<1>3. CASE Tunnel
  <2>1. CASE RelayRead \/ RelayWrite BY <2>1 DEF RelayRead, RelayWrite
  <2>2. CASE RelayEOF BY <2>2 DEF RelayEOF
  <2>3. CASE RelayFails BY <2>3 DEF RelayFails, Release, ReleaseStream
  <2>4. CASE GraceExpires BY <2>4 DEF GraceExpires
  <2>5. CASE Drain BY <2>5 DEF Drain, DrainTimer, Release, ReleaseStream
  <2>6. CASE Join BY <2>6 DEF Join, Drained, ReleaseStream, Return
  <2> QED BY <1>3, <2>1, <2>2, <2>3, <2>4, <2>5, <2>6 DEF Tunnel
<1>4. CASE CopyRead \/ CopyWrite BY <1>4 DEF CopyRead, CopyWrite
<1>5. CASE CopyEnds BY <1>5 DEF CopyEnds, CopyOver, Release, ReleaseStream
<1>6. CASE Monitor BY <1>6 DEF Monitor
<1>7. CASE Finished \/ UNCHANGED vars BY <1>7 DEF Finished
<1> QED BY <1>1, <1>2, <1>3, <1>4, <1>5, <1>6, <1>7 DEF Next

(* Everything known of a tunnel. *)
TunnelKnown == Points /\ Flags /\ Counts /\ OwnInv /\ CauseInv

(* It holds throughout. *)
LEMMA TunnelAlways == Spec => []TunnelKnown
<1>1. Init => CauseInv BY DEF Init, CauseInv
<1>2. Points /\ Flags /\ Counts /\ OwnInv /\ CauseInv <=> TunnelKnown BY DEF TunnelKnown
<1> QED BY <1>1, <1>2, InitType, PointsStep, FlagsStep, CountsStep, InitOwn, NextOwn, NextCause, PTL DEF Spec

(* What the set-up of the tunnel and its end leave alone. *)
LEMMA SetupFrame ==
  ASSUME TunnelKnown, Setup \/ Monitor \/ Finished \/ UNCHANGED vars
  PROVE  /\ UNCHANGED <<client, edge, edgeReads, ctxDone, cSent, cRelayed, eSent, eRelayed, grace>>
         /\ UNCHANGED <<UpOver, DownOver>>
<1> USE DEF vars, connVars, clientVars, streamVars, edgeVars
<1>1. UNCHANGED <<client, edge, edgeReads, ctxDone, cSent, cRelayed, eSent, eRelayed, grace>>
  BY DEF Setup, Greet, Auth, Handshake, Request, UdpEnds, Resolve, OpenStream, ExchangeOK,
         ExchangeRefused, DeadlinePasses, ExchangeTimesOut, Monitor, Finished
<1>2. \/ copier = "off" /\ copier' = "off"
      \/ copier = "off" /\ copier' = "copy" /\ pc' = "relay"
      \/ UNCHANGED <<pc, copier>>
  BY DEF Setup, Greet, Auth, Handshake, Request, UdpEnds, Resolve, OpenStream, ExchangeOK,
         ExchangeRefused, DeadlinePasses, ExchangeTimesOut, Monitor, Finished, TunnelKnown, OwnInv, BeforeStream
<1> QED BY <1>1, <1>2 DEF UpOver, DownOver

(* The copy from the client to the edge. *)
LEMMA UpRefines ==
  ASSUME TunnelKnown, [Next]_vars
  PROVE  [Up!Next]_Up!vars
<1> USE DEF vars, connVars, clientVars, streamVars, edgeVars, UpOver, DownOver, Broken, Up!vars
<1>1. CASE Setup \/ Monitor \/ Finished \/ UNCHANGED vars BY <1>1, SetupFrame
<1>2. CASE ClientSends BY <1>2 DEF ClientSends, Up!Next, Up!Send
<1>3. CASE ClientHalfCloses BY <1>3 DEF ClientHalfCloses, Up!Next, Up!Finish
<1>4. CASE ClientBreaks \/ EdgeResets \/ EdgeStopsReading \/ Shutdown
  <2>1. /\ Broken' /\ ((client # "up") => (client' # "up"))
        /\ UNCHANGED <<cSent, cRelayed, UpOver, DownOver>>
    BY <1>4 DEF ClientBreaks, EdgeResets, EdgeStopsReading, Shutdown, TunnelKnown, OwnInv
  <2> QED BY <2>1 DEF Up!Next, Up!Break, Up!Finish
<1>5. CASE EdgeSends \/ EdgeFinishes \/ RelayRead \/ GraceExpires \/ Drain \/ Join \/ CopyRead \/ CopyWrite
  <2>1. UNCHANGED <<client, edgeReads, ctxDone, cSent, cRelayed, copier>>
        /\ (edge' = "reset" <=> edge = "reset") /\ (pc' = "relay" <=> pc = "relay")
    BY <1>5 DEF EdgeSends, EdgeFinishes, RelayRead, GraceExpires, Drain, Join, Return, CopyRead, CopyWrite
  <2> QED BY <2>1
<1>6. CASE RelayWrite
  <2>1. cRelayed < cSent /\ ~UpOver BY <1>6 DEF RelayWrite, TunnelKnown, Counts
  <2> QED BY <1>6, <2>1 DEF RelayWrite, Up!Next, Up!Deliver
<1>7. CASE RelayEOF
  <2>1. copier # "off" BY <1>7 DEF RelayEOF, TunnelKnown, OwnInv, Relaying
  <2> QED BY <1>7, <2>1 DEF RelayEOF, Up!Next, Up!End, Up!Complete
<1>8. CASE RelayFails
  <2>1. copier # "off" /\ (copier = "copy" => send = "open") /\ ~grace
    BY <1>8 DEF RelayFails, TunnelKnown, OwnInv, CauseInv, Relaying
  <2>2. Broken \/ DownOver
    BY <1>8, <2>1 DEF RelayFails, TunnelKnown, CauseInv, Points
  <2> QED BY <1>8, <2>1, <2>2 DEF RelayFails, Up!Next, Up!End, Up!Excused
<1>9. CASE CopyEnds
  <2>1. copier = "copy" /\ copier' = "done" /\ pc' = pc BY <1>9 DEF CopyEnds, CopyOver
  <2>2. UNCHANGED <<client, edge, edgeReads, ctxDone, cSent, cRelayed>> BY <1>9 DEF CopyEnds
  <2> QED BY <2>1, <2>2 DEF Up!Next, Up!OtherEnds
<1> QED BY <1>1, <1>2, <1>3, <1>4, <1>5, <1>6, <1>7, <1>8, <1>9 DEF Next, Peers, Tunnel

(* The copy from the edge to the client. *)
LEMMA DownRefines ==
  ASSUME TunnelKnown, [Next]_vars
  PROVE  [Down!Next]_Down!vars
<1> USE DEF vars, connVars, clientVars, streamVars, edgeVars, UpOver, DownOver, Broken, Down!vars
<1>1. CASE Setup \/ Monitor \/ Finished \/ UNCHANGED vars BY <1>1, SetupFrame
<1>2. CASE EdgeSends BY <1>2 DEF EdgeSends, Down!Next, Down!Send
<1>3. CASE EdgeFinishes BY <1>3 DEF EdgeFinishes, Down!Next, Down!Finish
<1>4. CASE ClientBreaks \/ EdgeResets \/ EdgeStopsReading \/ Shutdown
  <2>1. /\ Broken' /\ ((edge # "up") => (edge' # "up"))
        /\ UNCHANGED <<eSent, eRelayed, UpOver, DownOver, grace>>
    BY <1>4 DEF ClientBreaks, EdgeResets, EdgeStopsReading, Shutdown
  <2> QED BY <2>1 DEF Down!Next, Down!Break, Down!Finish
<1>5. CASE ClientSends \/ ClientHalfCloses \/ RelayRead \/ RelayWrite \/ Drain \/ Join \/ CopyRead
  <2>1. UNCHANGED <<edge, edgeReads, ctxDone, eSent, eRelayed, copier, grace>>
        /\ (client' = "gone" <=> client = "gone") /\ (pc' = "relay" <=> pc = "relay")
    BY <1>5 DEF ClientSends, ClientHalfCloses, RelayRead, RelayWrite, Drain, Join, Return, CopyRead
  <2> QED BY <2>1
<1>6. CASE CopyWrite
  <2>1. eRelayed < eSent /\ ~DownOver BY <1>6 DEF CopyWrite, TunnelKnown, Counts
  <2> QED BY <1>6, <2>1 DEF CopyWrite, Down!Next, Down!Deliver
<1>7. CASE RelayEOF \/ RelayFails
  <2>1. copier # "off" /\ pc = "relay" /\ pc' # "relay" /\ copier' = copier
    BY <1>7 DEF RelayEOF, RelayFails, TunnelKnown, OwnInv, Relaying
  <2>2. UNCHANGED <<client, edge, edgeReads, ctxDone, eSent, eRelayed, grace>>
    BY <1>7 DEF RelayEOF, RelayFails
  <2> QED BY <2>1, <2>2 DEF Down!Next, Down!OtherEnds
<1>8. CASE GraceExpires
  <2>1. UpOver /\ ~grace /\ grace' = TRUE BY <1>8 DEF GraceExpires, TunnelKnown, OwnInv, Relaying
  <2> QED BY <1>8, <2>1 DEF GraceExpires, Down!Next, Down!Tire
<1>9. CASE CopyEnds
  <2>1. copier = "copy" /\ copier' = "done" /\ pc' = pc
        /\ UNCHANGED <<client, edge, edgeReads, ctxDone, eSent, eRelayed, grace>>
    BY <1>9 DEF CopyEnds, CopyOver
  <2>2. (edge = "fin" /\ eRelayed = eSent) \/ Broken \/ (UpOver /\ grace)
    BY <1>9, <2>1 DEF CopyEnds, CopyOver, TunnelKnown, CauseInv
  <2> QED BY <2>1, <2>2 DEF Down!Next, Down!End, Down!Complete, Down!Excused
<1> QED BY <1>1, <1>2, <1>3, <1>4, <1>5, <1>6, <1>7, <1>8, <1>9 DEF Next, Peers, Tunnel

(* A tunnel of the HTTP/3 back end truncates neither direction without a    *)
(* reason, for any amount of data and whichever goroutine ends first.       *)
THEOREM NothingTruncated == Spec => TruncatesNothing
<1>1. Init => Up!Init /\ Down!Init
  BY DEF Init, Up!Init, Down!Init, UpOver, DownOver, Broken
<1>2. TunnelKnown /\ [Next]_vars => [Up!Next]_Up!vars /\ [Down!Next]_Down!vars
  BY UpRefines, DownRefines
<1> QED BY <1>1, <1>2, TunnelAlways, PTL DEF Spec, TruncatesNothing, Up!Spec, Down!Spec
=============================================================================
