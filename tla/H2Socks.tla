------------------------------ MODULE H2Socks ------------------------------
(***************************************************************************)
(* One SOCKS5 connection served by the HTTP/2 back end: HandleSOCKS5       *)
(* (tunnel/h2_socks.go) with the goroutine that watches for shutdown and   *)
(* the two goroutines that copy a CONNECT tunnel, composed with the UDP    *)
(* association it runs for UDP ASSOCIATE (UdpAssociation, whose variables  *)
(* pc, ctxDone, hungUp and connOpen are the handler's own).                *)
(*                                                                         *)
(* remote is a TCP connection of the userspace network stack.  Payload is  *)
(* counted in chunks; a read or write blocks as long as its peer likes,    *)
(* until one side of it is closed.                                         *)
(***************************************************************************)
EXTENDS UdpAssociation

CONSTANTS
  MaxChunks,  \* chunks each peer may send in its life
  AllowUDP    \* cfg.AllowUDP

ASSUME ChunksAssumption == MaxChunks \in Nat
ASSUME ConfigAssumption == AllowUDP \in BOOLEAN

VARIABLES
  mon,               \* the goroutine that watches ctx and handlerDone
  gone,              \* the client is gone altogether: writes to conn fail too
  remote,            \* the connection to the target: "none", "open", "closed"
  target,            \* "up", "fin" (done sending, still reading), "reset"
  upload, download,  \* the copies conn to remote and remote to conn
  cSent, cRelayed,   \* chunks the client has sent; passed on
  tSent, tRelayed    \* chunks the target has sent; passed on

udpVars   == <<sockets, stop, clientAddr, served, taskVars, timeVars>>
copyVars  == <<upload, download, cSent, cRelayed, tSent, tRelayed>>
tunVars   == <<remote, target, copyVars>>
hostVars  == <<mon, gone, tunVars>>
allVars   == <<vars, hostVars>>

(* accept, the watcher, and the 15 s deadline. *)
HandlerInit ==
  /\ pc = "negotiate" /\ sockets = {} /\ stop = FALSE /\ clientAddr = None
  /\ up = "off" /\ down = [r \in Remotes |-> "off"] /\ watcher = "off" /\ control = "off"
  /\ ctxDone = FALSE /\ hungUp = FALSE /\ connOpen = TRUE
  /\ left = [s \in Sockets |-> IdleTicks] /\ quiet = 0 /\ served = {}
  /\ mon = "wait" /\ gone = FALSE /\ remote = "none" /\ target = "up"
  /\ upload = "off" /\ download = "off"
  /\ cSent = 0 /\ cRelayed = 0 /\ tSent = 0 /\ tRelayed = 0

-----------------------------------------------------------------------------
(* The client and the target.                                               *)

ClientSends ==
  /\ pc = "tunnel" /\ ~hungUp /\ cSent < MaxChunks
  /\ cSent' = cSent + 1
  /\ UNCHANGED <<vars, mon, gone, remote, target, upload, download, cRelayed, tSent, tRelayed>>

ClientVanishes ==
  /\ ~gone /\ gone' = TRUE /\ hungUp' = TRUE
  /\ UNCHANGED <<pc, connOpen, ctxDone, udpVars, mon, tunVars>>

TargetSends ==
  /\ remote = "open" /\ target = "up" /\ tSent < MaxChunks
  /\ tSent' = tSent + 1
  /\ UNCHANGED <<vars, mon, gone, remote, target, upload, download, cSent, cRelayed, tRelayed>>

TargetEnds ==
  /\ remote = "open" /\ target # "reset"
  /\ target' \in IF target = "up" THEN {"fin", "reset"} ELSE {"reset"}
  /\ UNCHANGED <<vars, mon, gone, remote, copyVars>>

-----------------------------------------------------------------------------
(* The handler.                                                             *)

(* The handler returns: deferred remote.Close and conn.Close. *)
HandlerReturns_LeaksRemote == Return /\ UNCHANGED remote
HandlerReturns ==
  /\ Return
  /\ remote' = IF remote = "open" THEN "closed" ELSE remote

(* negotiateSOCKS5 under the deadline: method, user name and password. *)
Negotiate ==
  /\ pc = "negotiate"
  /\ \/ connOpen /\ pc' = "request" /\ UNCHANGED <<sockets, connOpen, remote>>
     \/ HandlerReturns
  /\ UNCHANGED <<stop, clientAddr, served, taskVars, worldVars, timeVars, mon, gone, target, copyVars>>

(* readSOCKS5Request; the deadline ends with it. *)
Request ==
  /\ pc = "request"
  /\ \/ /\ connOpen
        /\ pc' \in {"dial"} \cup (IF AllowUDP THEN {"bind"} ELSE {})
        /\ UNCHANGED <<sockets, connOpen, remote>>
     \/ HandlerReturns
  /\ UNCHANGED <<stop, clientAddr, served, taskVars, worldVars, timeVars, mon, gone, target, copyVars>>

(* tunNet.DialContext, within 25 s and ctx. *)
Dial ==
  /\ pc = "dial"
  /\ \/ pc' = "success" /\ remote' = "open" /\ UNCHANGED <<sockets, connOpen>>
     \/ HandlerReturns
  /\ UNCHANGED <<stop, clientAddr, served, taskVars, worldVars, timeVars, mon, gone, target, copyVars>>

(* writeSocks5Success; an error ends the handler. *)
Success ==
  /\ pc = "success"
  /\ \/ /\ connOpen /\ pc' = "tunnel"
        /\ upload' = "read" /\ download' = "read"
        /\ UNCHANGED <<sockets, connOpen, remote>>
     \/ HandlerReturns /\ UNCHANGED <<upload, download>>
  /\ UNCHANGED <<stop, clientAddr, served, taskVars, worldVars, timeVars, mon, gone, target,
                 cSent, cRelayed, tSent, tRelayed>>

(* The first <-done: one copy has ended, in whichever direction. *)
OneDone_Unawaited == TRUE
OneDone == upload = "done" \/ download = "done"

(* Then both connections are closed, which ends the other copy. *)
FirstDone_ConnOnly ==
  /\ pc = "tunnel" /\ OneDone
  /\ pc' = "join" /\ connOpen' = FALSE
  /\ UNCHANGED <<worldVars, udpVars, mon, gone, remote, target, copyVars>>
FirstDone ==
  /\ pc = "tunnel" /\ OneDone
  /\ pc' = "join" /\ connOpen' = FALSE /\ remote' = "closed"
  /\ UNCHANGED <<worldVars, udpVars, mon, gone, target, copyVars>>

(* The second <-done. *)
BothDone == upload = "done" /\ download = "done"

SecondDone ==
  /\ pc = "join" /\ BothDone
  /\ HandlerReturns
  /\ UNCHANGED <<stop, clientAddr, served, taskVars, worldVars, timeVars, mon, gone, target, copyVars>>

-----------------------------------------------------------------------------
(* io.Copy(remote, conn).                                                   *)

UploadRead ==
  /\ upload = "read" /\ connOpen /\ ~gone /\ cRelayed < cSent
  /\ upload' = "write"
  /\ UNCHANGED <<vars, mon, gone, remote, target, download, cSent, cRelayed, tSent, tRelayed>>

UploadWrite ==
  /\ upload = "write" /\ remote = "open" /\ target # "reset"
  /\ upload' = "read" /\ cRelayed' = cRelayed + 1
  /\ UNCHANGED <<vars, mon, gone, remote, target, download, cSent, tSent, tRelayed>>

UploadEnds ==
  /\ \/ upload = "read" /\ (gone \/ ~connOpen \/ (hungUp /\ cRelayed = cSent))
     \/ upload = "write" /\ (remote # "open" \/ target = "reset")
  /\ upload' = "done"
  /\ UNCHANGED <<vars, mon, gone, remote, target, download, cSent, cRelayed, tSent, tRelayed>>

(* io.Copy(conn, remote). *)
DownloadRead ==
  /\ download = "read" /\ remote = "open" /\ target # "reset" /\ tRelayed < tSent
  /\ download' = "write"
  /\ UNCHANGED <<vars, mon, gone, remote, target, upload, cSent, cRelayed, tSent, tRelayed>>

DownloadWrite ==
  /\ download = "write" /\ connOpen /\ ~gone
  /\ download' = "read" /\ tRelayed' = tRelayed + 1
  /\ UNCHANGED <<vars, mon, gone, remote, target, upload, cSent, cRelayed, tSent>>

DownloadEnds ==
  /\ \/ download = "read" /\ (remote # "open" \/ target = "reset" \/ (target = "fin" /\ tRelayed = tSent))
     \/ download = "write" /\ (gone \/ ~connOpen)
  /\ download' = "done"
  /\ UNCHANGED <<vars, mon, gone, remote, target, upload, cSent, cRelayed, tSent, tRelayed>>

-----------------------------------------------------------------------------
(* The goroutine that watches ctx and handlerDone. *)
Monitor_SetupCtx ==
  /\ mon = "wait"
  /\ \/ pc # "negotiate" /\ connOpen' = FALSE
     \/ pc = "done" /\ UNCHANGED connOpen
  /\ mon' = "done"
  /\ UNCHANGED <<pc, worldVars, udpVars, gone, tunVars>>
Monitor ==
  /\ mon = "wait"
  /\ \/ ctxDone /\ connOpen' = FALSE
     \/ pc = "done" /\ UNCHANGED connOpen
  /\ mon' = "done"
  /\ UNCHANGED <<pc, worldVars, udpVars, gone, tunVars>>

-----------------------------------------------------------------------------
(* What the association does, the closing of conn by the monitor apart. *)
Association ==
  /\ \/ HangUp \/ Cancel \/ Tick \/ Bind \/ Reply \/ Join
     \/ UpRead \/ UpWrite \/ UpEnds \/ Watch \/ ControlEnds
     \/ \E r \in Remotes : DownRead(r) \/ DownWrite(r) \/ DownWriteFails(r) \/ DownEnds(r)
  /\ UNCHANGED hostVars

Setup  == Negotiate \/ Request \/ Dial \/ Success
Tunnel == FirstDone \/ SecondDone \/ UploadRead \/ UploadWrite \/ UploadEnds
          \/ DownloadRead \/ DownloadWrite \/ DownloadEnds

AllGone == Gone /\ mon = "done"

HandlerNext ==
  \/ Association \/ Setup \/ Tunnel \/ Monitor
  \/ ClientSends \/ ClientVanishes \/ TargetSends \/ TargetEnds
  \/ AllGone /\ UNCHANGED allVars

HandlerSpec == HandlerInit /\ [][HandlerNext]_allVars

(* As in UdpAssociation; the handshake and the dial run under deadlines.    *)
(* The peers owe nothing: a chunk in flight need never be taken.            *)
HandlerFairness ==
  /\ WF_allVars(Bind /\ UNCHANGED hostVars) /\ WF_allVars(Reply /\ UNCHANGED hostVars)
  /\ WF_allVars(Join /\ UNCHANGED hostVars) /\ WF_allVars(Tick /\ UNCHANGED hostVars)
  /\ WF_allVars(UpWrite /\ UNCHANGED hostVars) /\ WF_allVars(UpEnds /\ UNCHANGED hostVars)
  /\ WF_allVars(Watch /\ UNCHANGED hostVars) /\ WF_allVars(ControlEnds /\ UNCHANGED hostVars)
  /\ \A r \in Remotes : /\ WF_allVars((DownWrite(r) \/ DownWriteFails(r)) /\ UNCHANGED hostVars)
                         /\ WF_allVars(DownEnds(r) /\ UNCHANGED hostVars)
  /\ WF_allVars(Setup) /\ WF_allVars(FirstDone) /\ WF_allVars(SecondDone) /\ WF_allVars(Monitor)
  /\ WF_allVars(UploadRead) /\ WF_allVars(UploadEnds)
  /\ WF_allVars(DownloadRead) /\ WF_allVars(DownloadEnds)

HandlerFairSpec == HandlerSpec /\ HandlerFairness

-----------------------------------------------------------------------------
(* Properties.                                                              *)

HandlerTypeOK ==
  /\ pc \in {"negotiate", "request", "dial", "success", "tunnel", "join",
             "bind", "reply", "relay", "done"}
  /\ PartsOK
  /\ mon \in {"wait", "done"} /\ gone \in BOOLEAN
  /\ remote \in {"none", "open", "closed"} /\ target \in {"up", "fin", "reset"}
  /\ upload \in {"off", "read", "write", "done"} /\ download \in {"off", "read", "write", "done"}
  /\ cSent \in 0..MaxChunks /\ cRelayed \in 0..cSent
  /\ tSent \in 0..MaxChunks /\ tRelayed \in 0..tSent

(* The handler gives an association what UdpAssociation assumes: seen from  *)
(* the association, everything else the handler does is "bind" with conn    *)
(* open, a handler that never starts one is a failed bind, and once it runs *)
(* conn is closed under it only for ctx.                                    *)
Elsewhere == pc \in {"negotiate", "request", "dial", "success", "tunnel", "join"}
Hosted == INSTANCE UdpAssociation WITH pc       <- IF Elsewhere THEN "bind" ELSE pc,
                                       connOpen <- Elsewhere \/ connOpen
HostsAssociation == Hosted!Spec

(* On every path out of HandleSOCKS5, as a tunnel or as an association, a   *)
(* failed bind of the second socket included, the connection to the target  *)
(* and all sockets are closed and every goroutine that relays has ended.    *)
HandlerEndsClean ==
  pc = "done" => /\ EndsClean /\ remote # "open"
                 /\ upload \in {"off", "done"} /\ download \in {"off", "done"}

(* The two directions of the tunnel, as RelayDirection sees them. *)
Broken == gone \/ target = "reset" \/ ctxDone

Upward   == INSTANCE RelayDirection
              WITH Coupled <- TRUE, sent <- cSent, got <- cRelayed, fin <- hungUp,
                   ended <- upload = "done", fault <- Broken, other <- download = "done", late <- FALSE
Downward == INSTANCE RelayDirection
              WITH Coupled <- TRUE, sent <- tSent, got <- tRelayed, fin <- target # "up",
                   ended <- download = "done", fault <- Broken, other <- upload = "done", late <- FALSE

(* The tunnel truncates nothing without a reason: the direction whose copy  *)
(* ends first is complete, unless a peer or the process failed; closing     *)
(* both connections after it cuts only the other direction (this back end   *)
(* has no half-close; h2_socks.go 88-113).                                  *)
TruncatesOneWay == Upward!Spec /\ Downward!Spec

(* Whichever peer closes first has had all its bytes delivered: closing     *)
(* both connections after the first copy never cuts the copy that ended.    *)
(* (The other direction is cut: this back end has no half-close.)           *)
FirstCloserIsLossless ==
  [][pc = "tunnel" /\ pc' = "join" /\ ~ctxDone =>
       /\ target = "fin" /\ ~hungUp => tRelayed = tSent
       /\ hungUp /\ ~gone /\ target = "up" => cRelayed = cSent]_allVars

(* The target leaves a write of the tunnel parked for ever. *)
TargetStalls == <>[](pc = "tunnel" /\ upload = "write")

(* A client that hangs up, or a shutdown, ends the handler, and with it     *)
(* every goroutine it has started ("letting the handler return", and no     *)
(* watcher per connection stays behind).                                    *)
HandlerEnds == TargetStalls \/ ((hungUp \/ ctxDone) ~> AllGone)
=============================================================================
