---------------------------- MODULE H2SocksProofs ----------------------------
(***************************************************************************)
(* Proofs about H2Socks, for any number of chunks, remote sockets and      *)
(* senders.  While an association runs, the invariant is the one of        *)
(* UdpAssociationProofs and its steps keep it by the lemmas proved there;  *)
(* while the handler is elsewhere nothing of an association exists.        *)
(***************************************************************************)
EXTENDS H2Socks, UdpAssociationProofs

(* No association exists while the handler is elsewhere. *)
AwayInv ==
  /\ PartsOK
  /\ sockets = {} /\ Joined /\ watcher = "off" /\ control = "off" /\ ~stop /\ served = {}
  /\ pc # "join" => connOpen \/ ctxDone

HostTypes ==
  /\ pc \in {"negotiate", "request", "dial", "success", "tunnel", "join",
             "bind", "reply", "relay", "done"}
  /\ mon \in {"wait", "done"} /\ gone \in BOOLEAN
  /\ remote \in {"none", "open", "closed"} /\ target \in {"up", "fin", "reset"}
  /\ upload \in {"off", "read", "write", "done"} /\ download \in {"off", "read", "write", "done"}

CountTypes ==
  /\ cSent \in 0..MaxChunks /\ cRelayed \in 0..cSent /\ (upload = "write" => cRelayed < cSent)
  /\ tSent \in 0..MaxChunks /\ tRelayed \in 0..tSent /\ (download = "write" => tRelayed < tSent)

(* Where the connection to the target is open and where copies run. *)
TunnelInv ==
  /\ pc \in {"negotiate", "request", "dial", "bind", "reply", "relay"} => remote = "none"
  /\ pc \in {"success", "tunnel"} => remote = "open"
  /\ pc = "done" => remote # "open"
  /\ pc \notin {"tunnel", "join", "done"} => upload = "off" /\ download = "off"
  /\ pc = "done" => upload \in {"off", "done"} /\ download \in {"off", "done"}

(* Why a copy has ended before the handler closed anything. *)
CopyInv ==
  /\ gone => hungUp
  /\ pc = "tunnel" /\ upload = "done" =>
       ctxDone \/ gone \/ target = "reset" \/ (hungUp /\ cRelayed = cSent)
  /\ pc = "tunnel" /\ download = "done" =>
       ctxDone \/ gone \/ target = "reset" \/ (target = "fin" /\ tRelayed = tSent)

HostInv == HostTypes /\ CountTypes /\ TunnelInv /\ CopyInv

HInv == (Elsewhere => AwayInv) /\ (~Elsewhere => Inv) /\ HostInv

(* A connection just accepted satisfies the invariant. *)
LEMMA HandlerInitInv == HandlerInit => HInv
<1> SUFFICES ASSUME HandlerInit PROVE HInv OBVIOUS
<1>1. PartsOK
  <2>1. left \in [Sockets -> 0..IdleTicks] /\ quiet \in 0..IdleTicks BY IdleAssumption DEF HandlerInit
  <2>2. stop \in BOOLEAN /\ ctxDone \in BOOLEAN /\ hungUp \in BOOLEAN /\ connOpen \in BOOLEAN
    BY DEF HandlerInit
  <2> QED BY <2>1, <2>2 DEF HandlerInit, PartsOK
<1>2. Elsewhere /\ AwayInv BY <1>1 DEF HandlerInit, Elsewhere, AwayInv, Joined
<1>3. HostTypes /\ TunnelInv /\ CopyInv BY DEF HandlerInit, HostTypes, TunnelInv, CopyInv
<1>4. CountTypes BY ChunksAssumption DEF HandlerInit, CountTypes
<1> QED BY <1>2, <1>3, <1>4 DEF HInv, HostInv

-----------------------------------------------------------------------------
(* What a step leaves alone.                                                *)

(* The association, wherever the handler is. *)
LEMMA SameAssociation ==
  ASSUME HInv, UNCHANGED <<pc, connOpen, worldVars, udpVars>>
  PROVE  (Elsewhere => AwayInv)' /\ (~Elsewhere => Inv)'
<1> USE DEF worldVars, udpVars, taskVars, timeVars
<1>1. Elsewhere' <=> Elsewhere BY DEF Elsewhere
<1>2. CASE Elsewhere BY <1>1, <1>2 DEF HInv, AwayInv, PartsOK, Joined
<1>3. CASE ~Elsewhere
  <2>1. UNCHANGED vars BY DEF vars
  <2>2. Inv' BY <1>3, <2>1, NextInv DEF HInv
  <2> QED BY <1>1, <1>3, <2>2
<1> QED BY <1>2, <1>3

(* The handler returns from elsewhere. *)
LEMMA ReturnsClean ==
  ASSUME HInv, Elsewhere, Return,
         UNCHANGED <<stop, clientAddr, served, taskVars, worldVars, timeVars>>
  PROVE  ~Elsewhere' /\ Inv'
<1> USE DEF taskVars, worldVars, timeVars
<1>1. ~Elsewhere' BY DEF Elsewhere, Return
<1>2. TypeOK' BY DEF HInv, AwayInv, PartsOK, TypeOK, Return
<1>3. SetupInv' /\ StopInv' /\ ConnInv' /\ EndsClean' /\ ServesOnePeer'
  BY DEF HInv, AwayInv, Return, Joined, SetupInv, StopInv, ConnInv, EndsClean, ServesOnePeer
<1> QED BY <1>1, <1>2, <1>3 DEF Inv

-----------------------------------------------------------------------------
(* Steps of the association, by the lemmas of UdpAssociationProofs. *)
LEMMA AssociationInv ==
  ASSUME HInv, Association
  PROVE  HInv'
<1>1. UNCHANGED hostVars BY DEF Association
<1>2. CASE Elsewhere
  <2>1. HangUp \/ Cancel
    BY <1>2 DEF Association, Elsewhere, HInv, AwayInv, Joined, Tick, Bind, Reply, Join, UpRead, UpWrite,
                UpEnds, Watch, ControlEnds, DownRead, DownWrite, DownWriteFails, DownEnds
  <2>2. Elsewhere' /\ AwayInv'
    <3>1. PartsOK'
      <4>1. hungUp' \in BOOLEAN /\ ctxDone' \in BOOLEAN
        BY <1>2, <2>1 DEF HangUp, Cancel, HInv, AwayInv, PartsOK
      <4> QED BY <1>2, <2>1, <4>1 DEF HangUp, Cancel, HInv, AwayInv, PartsOK, taskVars, timeVars
    <3> QED BY <1>2, <2>1, <3>1 DEF HangUp, Cancel, Elsewhere, HInv, AwayInv, Joined, taskVars
  <2>3. HostInv'
    BY <1>1, <2>1 DEF HangUp, Cancel, hostVars, tunVars, copyVars, HInv, HostInv, HostTypes,
                      CountTypes, TunnelInv, CopyInv
  <2> QED BY <2>2, <2>3 DEF HInv
<1>3. CASE ~Elsewhere
  <2>1. Inv' BY <1>3, WorldInv, HandlerInv, UpInv, DownInv, EnderInv DEF Association, HInv
  <2>2. pc \in {"bind", "reply", "relay", "done"} /\ pc' \in {"bind", "reply", "relay", "done"}
    BY <1>3, <2>1 DEF HInv, Inv, TypeOK
  <2>3. (hungUp => hungUp') /\ (pc = "done" => pc' = "done")
    BY <2>2 DEF Association, HangUp, Cancel, Tick, Bind, Reply, Join, UpRead, UpWrite, UpEnds, Watch,
                ControlEnds, DownRead, DownWrite, DownWriteFails, DownEnds, worldVars, Return
  <2>4. HostTypes' /\ CountTypes'
    BY <1>1, <2>2 DEF hostVars, tunVars, copyVars, HInv, HostInv, HostTypes, CountTypes
  <2>5. TunnelInv' BY <1>1, <2>2, <2>3 DEF hostVars, tunVars, copyVars, HInv, HostInv, TunnelInv
  <2>6. CopyInv' BY <1>1, <2>2, <2>3 DEF hostVars, tunVars, copyVars, HInv, HostInv, CopyInv
  <2>7. ~Elsewhere' BY <2>2 DEF Elsewhere
  <2> QED BY <2>1, <2>4, <2>5, <2>6, <2>7 DEF HInv, HostInv
<1> QED BY <1>2, <1>3

(* The handshake, the request, the dial and the answer (h2_socks.go 44-87). *)
LEMMA SetupStepInv ==
  ASSUME HInv, Setup
  PROVE  HInv'
<1> USE DEF taskVars, worldVars, timeVars
<1>1. Elsewhere /\ pc \in {"negotiate", "request", "dial", "success"}
  BY DEF Setup, Negotiate, Request, Dial, Success, Elsewhere
<1>2. UNCHANGED <<stop, clientAddr, served, taskVars, worldVars, timeVars, mon, gone, target,
                  cSent, cRelayed, tSent, tRelayed>>
  BY DEF Setup, Negotiate, Request, Dial, Success, copyVars
<1>3. CASE HandlerReturns /\ UNCHANGED <<upload, download>>
  <2>1. ~Elsewhere' /\ Inv' BY <1>1, <1>2, <1>3, ReturnsClean DEF HandlerReturns
  <2>2. HostTypes' /\ TunnelInv' /\ CopyInv'
    BY <1>1, <1>2, <1>3 DEF HandlerReturns, Return, HInv, HostInv, HostTypes, TunnelInv, CopyInv
  <2>3. CountTypes' BY <1>2, <1>3 DEF HInv, HostInv, CountTypes
  <2> QED BY <2>1, <2>2, <2>3 DEF HInv, HostInv
<1>4. CASE /\ UNCHANGED <<sockets, connOpen>>
           /\ \/ pc = "negotiate" /\ pc' = "request" /\ UNCHANGED <<remote, upload, download>>
              \/ pc = "request" /\ pc' = "dial" /\ UNCHANGED <<remote, upload, download>>
              \/ pc = "dial" /\ pc' = "success" /\ remote' = "open" /\ UNCHANGED <<upload, download>>
              \/ pc = "success" /\ pc' = "tunnel" /\ upload' = "read" /\ download' = "read"
                 /\ UNCHANGED remote
  <2>1. Elsewhere' BY <1>4 DEF Elsewhere
  <2>2. AwayInv' BY <1>1, <1>2, <1>4 DEF HInv, AwayInv, PartsOK, Joined
  <2>3. HostTypes' /\ TunnelInv' /\ CopyInv'
    BY <1>1, <1>2, <1>4 DEF HInv, HostInv, HostTypes, TunnelInv, CopyInv
  <2>4. CountTypes' BY <1>2, <1>4 DEF HInv, HostInv, CountTypes
  <2> QED BY <2>1, <2>2, <2>3, <2>4 DEF HInv, HostInv
<1>5. CASE /\ pc = "request" /\ pc' = "bind" /\ connOpen
           /\ UNCHANGED <<sockets, connOpen, remote, upload, download>>
  <2>1. ~Elsewhere' BY <1>5 DEF Elsewhere
  <2>2. TypeOK' BY <1>1, <1>2, <1>5 DEF HInv, AwayInv, PartsOK, TypeOK
  <2>3. SetupInv' /\ StopInv' /\ ConnInv' /\ EndsClean' /\ ServesOnePeer'
    BY <1>1, <1>2, <1>5 DEF HInv, AwayInv, Joined, SetupInv, StopInv, ConnInv, EndsClean, ServesOnePeer
  <2>4. HostTypes' /\ TunnelInv' /\ CopyInv'
    BY <1>2, <1>5 DEF HInv, HostInv, HostTypes, TunnelInv, CopyInv
  <2>5. CountTypes' BY <1>2, <1>5 DEF HInv, HostInv, CountTypes
  <2> QED BY <2>1, <2>2, <2>3, <2>4, <2>5 DEF HInv, HostInv, Inv
<1> QED BY <1>3, <1>4, <1>5 DEF Setup, Negotiate, Request, Dial, Success, copyVars

(* The two receives from done (h2_socks.go 103-112). *)
LEMMA JoinInv ==
  ASSUME HInv, FirstDone \/ SecondDone
  PROVE  HInv'
<1> USE DEF taskVars, worldVars, timeVars, udpVars, copyVars
<1>1. CASE FirstDone
  <2>1. Elsewhere /\ Elsewhere' BY <1>1 DEF FirstDone, Elsewhere
  <2>2. AwayInv' BY <1>1, <2>1 DEF FirstDone, HInv, AwayInv, PartsOK, Joined
  <2>3. HostTypes' /\ TunnelInv' /\ CopyInv'
    BY <1>1 DEF FirstDone, HInv, HostInv, HostTypes, TunnelInv, CopyInv
  <2>4. CountTypes' BY <1>1 DEF FirstDone, HInv, HostInv, CountTypes
  <2> QED BY <2>1, <2>2, <2>3, <2>4 DEF HInv, HostInv
<1>2. CASE SecondDone
  <2>1. ~Elsewhere' /\ Inv' BY <1>2, ReturnsClean DEF SecondDone, HandlerReturns, Elsewhere
  <2>2. HostTypes' /\ TunnelInv' /\ CopyInv'
    BY <1>2 DEF SecondDone, HandlerReturns, Return, BothDone, HInv, HostInv, HostTypes, TunnelInv, CopyInv
  <2>3. CountTypes' BY <1>2 DEF SecondDone, HInv, HostInv, CountTypes
  <2> QED BY <2>1, <2>2, <2>3 DEF HInv, HostInv
<1> QED BY <1>1, <1>2

(* A copy runs only in the tunnel. *)
LEMMA CopiesInTunnel ==
  ASSUME HInv, upload \in {"read", "write"} \/ download \in {"read", "write"}
  PROVE  pc \in {"tunnel", "join"}
BY DEF HInv, HostInv, HostTypes, TunnelInv

(* The copy from the client to the target. *)
LEMMA UploadInv ==
  ASSUME HInv, UploadRead \/ UploadWrite \/ UploadEnds
  PROVE  HInv'
<1> USE DEF vars, HInv, HostInv
<1>1. UNCHANGED <<vars, mon, gone, remote, target, download, cSent, tSent, tRelayed>>
  BY DEF UploadRead, UploadWrite, UploadEnds
<1>2. pc \in {"tunnel", "join"} BY CopiesInTunnel DEF UploadRead, UploadWrite, UploadEnds
<1>3. (Elsewhere => AwayInv)' /\ (~Elsewhere => Inv)' BY <1>1, SameAssociation DEF udpVars
<1>4. HostTypes' BY <1>1 DEF HostTypes, UploadRead, UploadWrite, UploadEnds
<1>5. CountTypes' BY <1>1, ChunksAssumption DEF CountTypes, UploadRead, UploadWrite, UploadEnds
<1>6. TunnelInv' BY <1>1, <1>2 DEF TunnelInv
<1>7. CopyInv'
  <2>1. CASE UploadEnds
    <3>1. Elsewhere BY <1>2 DEF Elsewhere
    <3>2. pc = "tunnel" => remote = "open" /\ (connOpen \/ ctxDone) BY <3>1 DEF AwayInv, TunnelInv
    <3> QED BY <1>1, <2>1, <3>2 DEF CopyInv, UploadEnds, worldVars
  <2>2. CASE UploadRead \/ UploadWrite
    BY <1>1, <2>2 DEF CopyInv, UploadRead, UploadWrite, worldVars
  <2> QED BY <2>1, <2>2
<1> QED BY <1>3, <1>4, <1>5, <1>6, <1>7

(* The copy from the target to the client. *)
LEMMA DownloadInv ==
  ASSUME HInv, DownloadRead \/ DownloadWrite \/ DownloadEnds
  PROVE  HInv'
<1> USE DEF vars, HInv, HostInv
<1>1. UNCHANGED <<vars, mon, gone, remote, target, upload, cSent, cRelayed, tSent>>
  BY DEF DownloadRead, DownloadWrite, DownloadEnds
<1>2. pc \in {"tunnel", "join"} BY CopiesInTunnel DEF DownloadRead, DownloadWrite, DownloadEnds
<1>3. (Elsewhere => AwayInv)' /\ (~Elsewhere => Inv)' BY <1>1, SameAssociation DEF udpVars
<1>4. HostTypes' BY <1>1 DEF HostTypes, DownloadRead, DownloadWrite, DownloadEnds
<1>5. CountTypes' BY <1>1, ChunksAssumption DEF CountTypes, DownloadRead, DownloadWrite, DownloadEnds
<1>6. TunnelInv' BY <1>1, <1>2 DEF TunnelInv
<1>7. CopyInv'
  <2>1. CASE DownloadEnds
    <3>1. Elsewhere BY <1>2 DEF Elsewhere
    <3>2. pc = "tunnel" => remote = "open" /\ (connOpen \/ ctxDone) BY <3>1 DEF AwayInv, TunnelInv
    <3> QED BY <1>1, <2>1, <3>2 DEF CopyInv, DownloadEnds, worldVars
  <2>2. CASE DownloadRead \/ DownloadWrite
    BY <1>1, <2>2 DEF CopyInv, DownloadRead, DownloadWrite, worldVars
  <2> QED BY <2>1, <2>2
<1> QED BY <1>3, <1>4, <1>5, <1>6, <1>7

(* The goroutine that closes conn on shutdown. *)
LEMMA MonitorInv ==
  ASSUME HInv, Monitor
  PROVE  HInv'
<1> USE DEF HInv, HostInv
<1>1. HostTypes' /\ CountTypes' /\ TunnelInv' /\ CopyInv'
  BY DEF Monitor, tunVars, copyVars, worldVars, HostTypes, CountTypes, TunnelInv, CopyInv
<1>2. CASE UNCHANGED connOpen BY <1>1, <1>2, SameAssociation DEF Monitor
<1>3. CASE ctxDone /\ connOpen' = FALSE
  <2>1. Elsewhere' <=> Elsewhere BY DEF Monitor, Elsewhere
  <2>2. CASE Elsewhere
    <3>1. AwayInv'
      BY <1>3, <2>2 DEF Monitor, AwayInv, PartsOK, Joined, worldVars, udpVars, taskVars, timeVars
    <3> QED BY <1>1, <2>1, <2>2, <3>1
  <2>3. CASE ~Elsewhere
    <3>1. CASE connOpen = FALSE BY <1>1, <1>3, <3>1, SameAssociation DEF Monitor
    <3>2. CASE connOpen = TRUE
      <4>1. CloseConn BY <1>3, <3>2 DEF Monitor, CloseConn, udpVars
      <4>2. Inv' BY <2>3, <4>1, WorldInv
      <4> QED BY <1>1, <2>1, <2>3, <4>2
    <3> QED BY <2>3, <3>1, <3>2 DEF Inv, TypeOK, PartsOK
  <2> QED BY <2>2, <2>3
<1> QED BY <1>2, <1>3 DEF Monitor

(* The client and the target. *)
LEMMA PeersInv ==
  ASSUME HInv, ClientSends \/ ClientVanishes \/ TargetSends \/ TargetEnds
  PROVE  HInv'
<1> USE DEF HInv, HostInv
<1>1. CASE ClientSends \/ TargetSends \/ TargetEnds
  <2>1. UNCHANGED <<vars, mon, gone, remote, upload, download, cRelayed, tRelayed>>
    BY <1>1 DEF ClientSends, TargetSends, TargetEnds, copyVars
  <2>2. (Elsewhere => AwayInv)' /\ (~Elsewhere => Inv)' BY <2>1, SameAssociation DEF vars, udpVars
  <2>3. HostTypes' BY <1>1, <2>1 DEF HostTypes, vars, ClientSends, TargetSends, TargetEnds
  <2>4. CountTypes'
    BY <1>1, <2>1, ChunksAssumption DEF CountTypes, ClientSends, TargetSends, TargetEnds, copyVars
  <2>5. TunnelInv' BY <2>1 DEF TunnelInv, vars
  <2>6. CopyInv'
    BY <1>1, <2>1 DEF CopyInv, vars, worldVars, ClientSends, TargetSends, TargetEnds, copyVars
  <2> QED BY <2>2, <2>3, <2>4, <2>5, <2>6
<1>2. CASE ClientVanishes
  <2>1. HostTypes' /\ CountTypes' /\ TunnelInv'
    BY <1>2 DEF ClientVanishes, tunVars, copyVars, HostTypes, CountTypes, TunnelInv
  <2>2. CopyInv' BY <1>2 DEF ClientVanishes, tunVars, copyVars, CopyInv
  <2>3. Elsewhere' <=> Elsewhere BY <1>2 DEF ClientVanishes, Elsewhere
  <2>4. CASE Elsewhere
    <3>1. AwayInv'
      BY <1>2, <2>4 DEF ClientVanishes, AwayInv, PartsOK, Joined, udpVars, taskVars, timeVars
    <3> QED BY <2>1, <2>2, <2>3, <2>4, <3>1
  <2>5. CASE ~Elsewhere
    <3>1. CASE hungUp = TRUE
      BY <1>2, <2>1, <2>2, <3>1, SameAssociation DEF ClientVanishes, worldVars
    <3>2. CASE hungUp = FALSE
      <4>1. HangUp BY <1>2, <3>2 DEF ClientVanishes, HangUp, udpVars
      <4>2. Inv' BY <2>5, <4>1, WorldInv
      <4> QED BY <2>1, <2>2, <2>3, <2>5, <4>2
    <3> QED BY <2>5, <3>1, <3>2 DEF Inv, TypeOK, PartsOK
  <2> QED BY <2>4, <2>5
<1> QED BY <1>1, <1>2

(* Every step keeps the invariant. *)
LEMMA HandlerNextInv == HInv /\ [HandlerNext]_allVars => HInv'
<1> SUFFICES ASSUME HInv, [HandlerNext]_allVars PROVE HInv' OBVIOUS
<1>1. CASE UNCHANGED allVars
  <2>1. (Elsewhere => AwayInv)' /\ (~Elsewhere => Inv)'
    BY <1>1, SameAssociation DEF allVars, vars, udpVars
  <2>2. HostInv'
    BY <1>1 DEF allVars, vars, worldVars, hostVars, tunVars, copyVars, HInv, HostInv, HostTypes, CountTypes,
                TunnelInv, CopyInv
  <2> QED BY <2>1, <2>2 DEF HInv
<1> QED BY <1>1, AssociationInv, SetupStepInv, JoinInv, UploadInv, DownloadInv, MonitorInv, PeersInv
        DEF HandlerNext, Tunnel

-----------------------------------------------------------------------------
(* Every variable keeps its type; no copy delivers more than was sent. *)
THEOREM HandlerTypeCorrect == HandlerSpec => []HandlerTypeOK
<1>1. HInv => HandlerTypeOK
  BY DEF HInv, AwayInv, Inv, TypeOK, HostInv, HostTypes, CountTypes, HandlerTypeOK
<1> QED BY HandlerInitInv, HandlerNextInv, <1>1, PTL DEF HandlerSpec

(* HandleSOCKS5 of the HTTP/2 back end returns with nothing open and        *)
(* nothing running (h2_socks.go 23-113).                                    *)
THEOREM HandlerIsClean == HandlerSpec => []HandlerEndsClean
<1>1. HInv => HandlerEndsClean
  BY DEF HInv, Elsewhere, Inv, HostInv, TunnelInv, HandlerEndsClean
<1> QED BY HandlerInitInv, HandlerNextInv, <1>1, PTL DEF HandlerSpec

(* One source address per association, inside the handler too. *)
THEOREM HandlerServesOnePeer == HandlerSpec => []ServesOnePeer
<1>1. HInv => ServesOnePeer BY DEF HInv, AwayInv, Inv, ServesOnePeer
<1> QED BY HandlerInitInv, HandlerNextInv, <1>1, PTL DEF HandlerSpec

(* Closing both connections after the first copy has ended loses nothing of *)
(* the direction that ended (h2_socks.go 88-113).                           *)
THEOREM FirstCloserLosesNothing == HandlerSpec => FirstCloserIsLossless
<1> DEFINE Lossless == pc = "tunnel" /\ pc' = "join" /\ ~ctxDone =>
                         /\ target = "fin" /\ ~hungUp => tRelayed = tSent
                         /\ hungUp /\ ~gone /\ target = "up" => cRelayed = cSent
<1>1. HInv /\ [HandlerNext]_allVars => [Lossless]_allVars
  <2> SUFFICES ASSUME HInv, HandlerNext, pc = "tunnel", pc' = "join", ~ctxDone
               PROVE  /\ target = "fin" /\ ~hungUp => tRelayed = tSent
                      /\ hungUp /\ ~gone /\ target = "up" => cRelayed = cSent
    OBVIOUS
  <2>1. FirstDone
    BY DEF HandlerNext, Association, HangUp, Cancel, Tick, Bind, Reply, Join, UpRead, UpWrite, UpEnds, Watch,
           ControlEnds, DownRead, DownWrite, DownWriteFails, DownEnds, Setup, Negotiate, Request, Dial,
           Success, Tunnel, SecondDone, UploadRead, UploadWrite, UploadEnds, DownloadRead, DownloadWrite,
           DownloadEnds, Monitor, ClientSends, ClientVanishes, TargetSends, TargetEnds, vars, allVars
  <2> QED BY <2>1 DEF FirstDone, OneDone, HInv, HostInv, CopyInv
<1> QED BY HandlerInitInv, HandlerNextInv, <1>1, PTL DEF HandlerSpec, FirstCloserIsLossless

-----------------------------------------------------------------------------
(* HandleSOCKS5 implements UdpAssociation.                                  *)

(* What UdpAssociation sees of a step elsewhere. *)
seenPc   == IF Elsewhere THEN "bind" ELSE pc
seenConn == Elsewhere \/ connOpen

(* A step that changes nothing UdpAssociation sees is a stutter. *)
LEMMA SeesNothing ==
  ASSUME UNCHANGED <<seenPc, seenConn, worldVars, udpVars>>
  PROVE  UNCHANGED Hosted!vars
BY DEF seenPc, seenConn, worldVars, udpVars, taskVars, timeVars, Hosted!vars, Hosted!worldVars,
       Hosted!taskVars, Hosted!timeVars

(* A handler that returns from elsewhere is a bind that fails. *)
LEMMA SeesFailedBind ==
  ASSUME Elsewhere, Return, UNCHANGED <<stop, clientAddr, served, taskVars, worldVars, timeVars>>
  PROVE  Hosted!Bind
BY DEF Elsewhere, Return, taskVars, worldVars, timeVars, Hosted!Bind, Hosted!Return, Hosted!taskVars,
       Hosted!worldVars, Hosted!timeVars

(* A step of the association itself is seen as it is. *)
LEMMA SeesAssociation ==
  ASSUME HInv, Association
  PROVE  Hosted!Next
<1> USE DEF taskVars, worldVars, timeVars, Hosted!taskVars, Hosted!worldVars, Hosted!timeVars
<1>1. CASE HangUp BY <1>1 DEF HangUp, Elsewhere, Hosted!HangUp, Hosted!Next
<1>2. CASE Cancel BY <1>2 DEF Cancel, Elsewhere, Hosted!Cancel, Hosted!Next
<1>3. CASE ~HangUp /\ ~Cancel
  <2>1. ~Elsewhere
    BY <1>3 DEF Association, Elsewhere, HInv, AwayInv, Joined, Tick, Bind, Reply, Join, UpRead, UpWrite,
                UpEnds, Watch, ControlEnds, DownRead, DownWrite, DownWriteFails, DownEnds
  <2>2. ~Elsewhere'
    BY <1>3, <2>1 DEF Association, Elsewhere, Return, Tick, Bind, Reply, Join, UpRead, UpWrite,
                UpEnds, Watch, ControlEnds, DownRead, DownWrite, DownWriteFails, DownEnds
  <2>4. ASSUME Tick PROVE Hosted!Tick
    BY <2>1, <2>2, <2>4 DEF Tick, Hosted!Tick, Reading, Hosted!Reading, Sockets, Hosted!Sockets
  <2>5. ASSUME Bind PROVE Hosted!Bind
    BY <2>1, <2>2, <2>5 DEF Bind, Hosted!Bind, Return, Hosted!Return, Sockets, Hosted!Sockets
  <2>6. ASSUME Reply PROVE Hosted!Reply
    BY <2>1, <2>2, <2>6 DEF Reply, Hosted!Reply, Return, Hosted!Return
  <2>7. ASSUME Join PROVE Hosted!Join
    BY <2>1, <2>2, <2>7 DEF Join, Hosted!Join, Joined, Hosted!Joined, Return, Hosted!Return
  <2>8. ASSUME UpRead PROVE Hosted!UpRead
    BY <2>1, <2>2, <2>8 DEF UpRead, Hosted!UpRead, Readable, Hosted!Readable, Addrs, Hosted!Addrs,
       IsPeer, Hosted!IsPeer, Matches, Hosted!Matches, Rearm, Hosted!Rearm
  <2>9. ASSUME UpWrite PROVE Hosted!UpWrite
    BY <2>1, <2>2, <2>9 DEF UpWrite, Hosted!UpWrite, Rearm, Hosted!Rearm
  <2>10. ASSUME UpEnds PROVE Hosted!UpEnds
    BY <2>1, <2>2, <2>10 DEF UpEnds, Hosted!UpEnds, ReadFails, Hosted!ReadFails, Shutdown, Hosted!Shutdown
  <2>11. ASSUME Watch PROVE Hosted!Watch
    BY <2>1, <2>2, <2>11 DEF Watch, Hosted!Watch, Shutdown, Hosted!Shutdown
  <2>12. ASSUME ControlEnds PROVE Hosted!ControlEnds
    BY <2>1, <2>2, <2>12 DEF ControlEnds, Hosted!ControlEnds, Shutdown, Hosted!Shutdown
  <2>13. ASSUME NEW r \in Remotes, DownRead(r) PROVE Hosted!DownRead(r)
    BY <2>1, <2>2, <2>13 DEF DownRead, Hosted!DownRead, Readable, Hosted!Readable, Rearm, Hosted!Rearm
  <2>14. ASSUME NEW r \in Remotes, DownWrite(r) PROVE Hosted!DownWrite(r)
    BY <2>1, <2>2, <2>14 DEF DownWrite, Hosted!DownWrite, Rearm, Hosted!Rearm
  <2>15. ASSUME NEW r \in Remotes, DownWriteFails(r) PROVE Hosted!DownWriteFails(r)
    BY <2>1, <2>2, <2>15 DEF DownWriteFails, Hosted!DownWriteFails, Shutdown, Hosted!Shutdown
  <2>16. ASSUME NEW r \in Remotes, DownEnds(r) PROVE Hosted!DownEnds(r)
    BY <2>1, <2>2, <2>16 DEF DownEnds, Hosted!DownEnds, ReadFails, Hosted!ReadFails, Shutdown, Hosted!Shutdown
  <2> QED BY <1>3, <2>4, <2>5, <2>6, <2>7, <2>8, <2>9, <2>10, <2>11, <2>12, <2>13, <2>14,
          <2>15, <2>16 DEF Association, Hosted!Next
<1> QED BY <1>1, <1>2, <1>3

(* Every step of the handler is a step of UdpAssociation, or none. *)
LEMMA SeesStep ==
  ASSUME HInv, [HandlerNext]_allVars
  PROVE  [Hosted!Next]_Hosted!vars
<1>1. CASE Association BY <1>1, SeesAssociation
<1>2. CASE Setup \/ SecondDone
  <2>1. Elsewhere BY <1>2 DEF Setup, Negotiate, Request, Dial, Success, SecondDone, Elsewhere
  <2>2. UNCHANGED <<stop, clientAddr, served, taskVars, worldVars, timeVars>>
    BY <1>2 DEF Setup, Negotiate, Request, Dial, Success, SecondDone
  <2>3. CASE Return BY <2>1, <2>2, <2>3, SeesFailedBind DEF Hosted!Next
  <2>4. CASE ~Return
    <3>1. UNCHANGED <<sockets, connOpen>> /\ (pc' = "bind" => connOpen)
          /\ pc' \in {"request", "dial", "bind", "success", "tunnel"}
      BY <1>2, <2>4 DEF Setup, Negotiate, Request, Dial, Success, SecondDone, HandlerReturns
    <3>2. UNCHANGED <<seenPc, seenConn>> BY <2>1, <3>1 DEF seenPc, seenConn, Elsewhere
    <3> QED BY <2>2, <3>1, <3>2, SeesNothing DEF udpVars
  <2> QED BY <2>3, <2>4
<1>3. CASE FirstDone
  <2>1. UNCHANGED <<seenPc, seenConn>> BY <1>3 DEF FirstDone, seenPc, seenConn, Elsewhere
  <2> QED BY <1>3, <2>1, SeesNothing DEF FirstDone
<1>4. CASE UNCHANGED vars
  <2>1. UNCHANGED <<seenPc, seenConn>> BY <1>4 DEF vars, seenPc, seenConn, Elsewhere
  <2> QED BY <1>4, <2>1, SeesNothing DEF vars, udpVars
<1>5. CASE Monitor
  <2>1. Elsewhere' <=> Elsewhere BY <1>5 DEF Monitor, Elsewhere
  <2>2. CASE Elsewhere \/ connOpen' = connOpen
    <3>1. UNCHANGED <<seenPc, seenConn>> BY <1>5, <2>1, <2>2 DEF Monitor, seenPc, seenConn
    <3> QED BY <1>5, <3>1, SeesNothing DEF Monitor
  <2>3. CASE ~Elsewhere /\ connOpen' # connOpen
    <3>1. ctxDone /\ connOpen' = FALSE /\ connOpen = TRUE
      BY <1>5, <2>3 DEF Monitor, HInv, Inv, TypeOK, PartsOK
    <3>2. Hosted!CloseConn
      BY <1>5, <2>1, <2>3, <3>1 DEF Monitor, Hosted!CloseConn, udpVars, worldVars, taskVars, timeVars,
         Hosted!worldVars, Hosted!taskVars, Hosted!timeVars
    <3> QED BY <3>2 DEF Hosted!Next
  <2> QED BY <2>2, <2>3
<1>6. CASE ClientVanishes
  <2>1. Elsewhere' <=> Elsewhere BY <1>6 DEF ClientVanishes, Elsewhere
  <2>2. CASE hungUp = TRUE
    <3>1. UNCHANGED <<seenPc, seenConn>> BY <1>6, <2>1 DEF ClientVanishes, seenPc, seenConn
    <3> QED BY <1>6, <2>2, <3>1, SeesNothing DEF ClientVanishes, worldVars
  <2>3. CASE hungUp = FALSE
    <3>1. Hosted!HangUp
      BY <1>6, <2>1, <2>3 DEF ClientVanishes, Hosted!HangUp, udpVars, taskVars, timeVars,
         Hosted!taskVars, Hosted!timeVars
    <3> QED BY <3>1 DEF Hosted!Next
  <2>4. hungUp \in BOOLEAN BY DEF HInv, AwayInv, Inv, TypeOK, PartsOK
  <2> QED BY <2>2, <2>3, <2>4
<1>7. CASE ClientSends \/ TargetSends \/ TargetEnds \/ UploadRead \/ UploadWrite \/ UploadEnds
           \/ DownloadRead \/ DownloadWrite \/ DownloadEnds \/ UNCHANGED allVars
  BY <1>4, <1>7 DEF ClientSends, TargetSends, TargetEnds, UploadRead, UploadWrite, UploadEnds,
                    DownloadRead, DownloadWrite, DownloadEnds, allVars
<1> QED BY <1>1, <1>2, <1>3, <1>5, <1>6, <1>7 DEF HandlerNext, Tunnel

(* Whatever the handler does around an association, the association behaves *)
(* as UdpAssociation says, so that everything proved of that specification  *)
(* holds of it (h2_socks.go 60-80).                                         *)
THEOREM HandlerHostsAssociation == HandlerSpec => HostsAssociation
<1>1. HandlerInit => Hosted!Init
  BY DEF HandlerInit, Elsewhere, Hosted!Init, Sockets, Hosted!Sockets
<1>2. HInv /\ [HandlerNext]_allVars => [Hosted!Next]_Hosted!vars BY SeesStep
<1> QED BY HandlerInitInv, HandlerNextInv, <1>1, <1>2, PTL DEF HandlerSpec, HostsAssociation, Hosted!Spec

-----------------------------------------------------------------------------
(* Both directions of the tunnel implement RelayDirection.                  *)

(* Connections are closed under a copy only after the other one has ended. *)
JoinCause == pc = "join" => OneDone

(* What a step that touches neither peer nor the end of a copy leaves alone. *)
QuietStep ==
  \/ Association /\ ~HangUp /\ ~Cancel
  \/ Setup \/ Monitor \/ FirstDone \/ SecondDone
  \/ UploadRead \/ DownloadRead \/ UNCHANGED allVars

(* No such step is seen by RelayDirection. *)
LEMMA QuietFrame ==
  ASSUME HInv, QuietStep
  PROVE  /\ UNCHANGED <<cSent, cRelayed, tSent, tRelayed, hungUp, gone, target, ctxDone>>
         /\ (upload' = "done") = (upload = "done") /\ (download' = "done") = (download = "done")
<1> USE DEF hostVars, tunVars, copyVars, worldVars, vars, allVars
<1>1. CASE Association /\ ~HangUp /\ ~Cancel
  <2>1. UNCHANGED <<hungUp, ctxDone>>
    BY <1>1 DEF Association, Tick, Bind, Reply, Join, UpRead, UpWrite, UpEnds, Watch, ControlEnds,
                DownRead, DownWrite, DownWriteFails, DownEnds
  <2> QED BY <1>1, <2>1 DEF Association
<1>2. CASE Setup
  <2>1. UNCHANGED <<upload, download>> \/ (pc = "success" /\ upload' = "read" /\ download' = "read")
    BY <1>2 DEF Setup, Negotiate, Request, Dial, Success
  <2>2. pc = "success" => upload = "off" /\ download = "off" BY DEF HInv, HostInv, TunnelInv
  <2>3. UNCHANGED <<cSent, cRelayed, tSent, tRelayed, hungUp, gone, target, ctxDone>>
    BY <1>2 DEF Setup, Negotiate, Request, Dial, Success
  <2> QED BY <2>1, <2>2, <2>3
<1>3. CASE Monitor \/ FirstDone \/ SecondDone BY <1>3 DEF Monitor, FirstDone, SecondDone
<1>4. CASE UploadRead \/ DownloadRead \/ UNCHANGED allVars BY <1>4 DEF UploadRead, DownloadRead
<1> QED BY <1>1, <1>2, <1>3, <1>4 DEF QuietStep

(* Every step keeps JoinCause. *)
LEMMA NextJoinCause == HInv /\ JoinCause /\ [HandlerNext]_allVars => JoinCause'
<1> SUFFICES ASSUME HInv, JoinCause, [HandlerNext]_allVars, pc' = "join" PROVE OneDone'
  BY DEF JoinCause
<1> USE DEF hostVars, tunVars, copyVars, vars, allVars
<1>1. CASE FirstDone BY <1>1 DEF FirstDone, OneDone
<1>2. CASE ~FirstDone
  <2>1. pc = "join"
    BY <1>2 DEF HandlerNext, Association, HangUp, Cancel, Tick, Bind, Reply, Join, UpRead, UpWrite, UpEnds,
                Watch, ControlEnds, DownRead, DownWrite, DownWriteFails, DownEnds, Setup, Negotiate, Request,
                Dial, Success, Tunnel, SecondDone, HandlerReturns, Return, UploadRead, UploadWrite, UploadEnds,
                DownloadRead, DownloadWrite, DownloadEnds, Monitor, ClientSends, ClientVanishes,
                TargetSends, TargetEnds
  <2>2. (upload = "done" => upload' = "done") /\ (download = "done" => download' = "done")
    BY <1>2, <2>1 DEF HandlerNext, Association, Setup, Negotiate, Request, Dial, Success, Tunnel, SecondDone,
                      UploadRead, UploadWrite, UploadEnds, DownloadRead, DownloadWrite, DownloadEnds,
                      Monitor, ClientSends, ClientVanishes, TargetSends, TargetEnds
  <2> QED BY <2>1, <2>2 DEF JoinCause, OneDone
<1> QED BY <1>1, <1>2

(* A failure of a peer or of the process. *)
Failure == Cancel \/ ClientVanishes \/ (TargetEnds /\ target' = "reset")

(* It breaks the tunnel and undoes no end of a stream. *)
LEMMA FailureFrame ==
  ASSUME HInv, Failure, Association \/ ClientVanishes \/ TargetEnds
  PROVE  /\ Broken' /\ (hungUp' = hungUp \/ hungUp' = TRUE) /\ (target # "up" => target' # "up")
         /\ UNCHANGED copyVars
BY DEF Failure, Cancel, ClientVanishes, TargetEnds, Association, Broken, hostVars, tunVars, worldVars, vars

(* The copy from the client to the target. *)
LEMMA UpwardRefines ==
  ASSUME HInv, JoinCause, [HandlerNext]_allVars
  PROVE  [Upward!Next]_Upward!vars
<1> USE DEF copyVars, Broken, Upward!vars
<1>1. CASE QuietStep BY <1>1, QuietFrame
<1>2. CASE ClientSends BY <1>2 DEF ClientSends, vars, worldVars, Upward!Next, Upward!Send
<1>3. CASE Association /\ HangUp
  BY <1>3 DEF Association, HangUp, hostVars, tunVars, Upward!Next, Upward!Finish
<1>4. CASE Failure /\ (Association \/ ClientVanishes \/ TargetEnds)
  <2>1. Broken' /\ UNCHANGED copyVars /\ (hungUp' = hungUp \/ hungUp' = TRUE) BY <1>4, FailureFrame
  <2>2. hungUp \in BOOLEAN BY DEF HInv, AwayInv, Inv, TypeOK, PartsOK
  <2> QED BY <2>1, <2>2 DEF Upward!Next, Upward!Break, Upward!Finish
<1>5. CASE TargetSends \/ DownloadWrite \/ (TargetEnds /\ target' # "reset")
  BY <1>5 DEF TargetSends, DownloadWrite, TargetEnds, vars, worldVars, HInv, HostInv, HostTypes
<1>6. CASE UploadWrite
  <2>1. cRelayed < cSent BY <1>6 DEF UploadWrite, HInv, HostInv, CountTypes
  <2> QED BY <1>6, <2>1 DEF UploadWrite, vars, worldVars, Upward!Next, Upward!Deliver
<1>7. CASE UploadEnds
  <2>1. upload \in {"read", "write"} /\ upload' = "done"
        /\ UNCHANGED <<vars, gone, target, download, cSent, cRelayed>>
    BY <1>7 DEF UploadEnds
  <2>2. pc \in {"tunnel", "join"} BY <2>1, CopiesInTunnel
  <2>3. HInv' BY HandlerNextInv
  <2>4. (hungUp /\ cRelayed = cSent) \/ Broken \/ download = "done"
    <3>1. CASE pc = "join" BY <2>1, <3>1 DEF JoinCause, OneDone
    <3>2. CASE pc = "tunnel" BY <2>1, <2>3, <3>2 DEF vars, worldVars, HInv, HostInv, CopyInv
    <3> QED BY <2>2, <3>1, <3>2
  <2> QED BY <2>1, <2>4 DEF vars, worldVars, Upward!Next, Upward!End, Upward!Complete, Upward!Excused
<1>8. CASE DownloadEnds
  BY <1>8 DEF DownloadEnds, vars, worldVars, Upward!Next, Upward!OtherEnds
<1> QED BY <1>1, <1>2, <1>3, <1>4, <1>5, <1>6, <1>7, <1>8 DEF HandlerNext, Tunnel, QuietStep, Failure

(* The copy from the target to the client. *)
LEMMA DownwardRefines ==
  ASSUME HInv, JoinCause, [HandlerNext]_allVars
  PROVE  [Downward!Next]_Downward!vars
<1> USE DEF copyVars, Broken, Downward!vars
<1>1. CASE QuietStep BY <1>1, QuietFrame
<1>2. CASE TargetSends BY <1>2 DEF TargetSends, vars, worldVars, Downward!Next, Downward!Send
<1>3. CASE TargetEnds /\ target' # "reset"
  BY <1>3 DEF TargetEnds, vars, worldVars, HInv, HostInv, HostTypes, Downward!Next, Downward!Finish
<1>4. CASE Failure /\ (Association \/ ClientVanishes \/ TargetEnds)
  <2>1. Broken' /\ UNCHANGED copyVars /\ (target # "up" => target' # "up") BY <1>4, FailureFrame
  <2> QED BY <2>1 DEF Downward!Next, Downward!Break, Downward!Finish
<1>5. CASE ClientSends \/ UploadWrite \/ (Association /\ HangUp)
  BY <1>5 DEF ClientSends, UploadWrite, Association, HangUp, hostVars, tunVars, vars, worldVars
<1>6. CASE DownloadWrite
  <2>1. tRelayed < tSent BY <1>6 DEF DownloadWrite, HInv, HostInv, CountTypes
  <2> QED BY <1>6, <2>1 DEF DownloadWrite, vars, worldVars, Downward!Next, Downward!Deliver
<1>7. CASE DownloadEnds
  <2>1. download \in {"read", "write"} /\ download' = "done"
        /\ UNCHANGED <<vars, gone, target, upload, tSent, tRelayed>>
    BY <1>7 DEF DownloadEnds
  <2>2. pc \in {"tunnel", "join"} BY <2>1, CopiesInTunnel
  <2>3. HInv' BY HandlerNextInv
  <2>4. (target # "up" /\ tRelayed = tSent) \/ Broken \/ upload = "done"
    <3>1. CASE pc = "join" BY <2>1, <3>1 DEF JoinCause, OneDone
    <3>2. CASE pc = "tunnel" BY <2>1, <2>3, <3>2 DEF vars, worldVars, HInv, HostInv, CopyInv
    <3> QED BY <2>2, <3>1, <3>2
  <2> QED BY <2>1, <2>4 DEF vars, worldVars, Downward!Next, Downward!End, Downward!Complete, Downward!Excused
<1>8. CASE UploadEnds
  BY <1>8 DEF UploadEnds, vars, worldVars, Downward!Next, Downward!OtherEnds
<1> QED BY <1>1, <1>2, <1>3, <1>4, <1>5, <1>6, <1>7, <1>8 DEF HandlerNext, Tunnel, QuietStep, Failure

(* Closing both connections after the first copy cuts only the other        *)
(* direction: a tunnel of the HTTP/2 back end truncates nothing without a   *)
(* failure or the end of the other copy (h2_socks.go 88-113).               *)
THEOREM OneWayTruncated == HandlerSpec => TruncatesOneWay
<1>1. HandlerInit => Upward!Init /\ Downward!Init /\ JoinCause
  BY DEF HandlerInit, Upward!Init, Downward!Init, Broken, JoinCause
<1>2. HInv /\ JoinCause /\ [HandlerNext]_allVars => [Upward!Next]_Upward!vars /\ [Downward!Next]_Downward!vars
  BY UpwardRefines, DownwardRefines
<1> QED BY <1>1, <1>2, HandlerInitInv, HandlerNextInv, NextJoinCause, PTL
        DEF HandlerSpec, TruncatesOneWay, Upward!Spec, Downward!Spec
=============================================================================
