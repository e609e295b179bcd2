--------------------------- MODULE UdpAssociation ---------------------------
(***************************************************************************)
(* One SOCKS5 UDP association, in both back ends: handleUDPAssociate       *)
(* (tunnel/udp.go) with one socket towards the targets, and                *)
(* handleH2UDPAssociate (tunnel/h2_udp.go) with one per address family of  *)
(* the tunnel.  Its goroutines are                                         *)
(*                                                                         *)
(*   up        clientToRemote: client socket to the remote sockets         *)
(*   down[r]   remoteToClient: remote socket r to the client               *)
(*   watcher   waits for ctx or stop                                       *)
(*   control   reads the TCP control connection until it ends              *)
(*                                                                         *)
(* and the handler, which joins up and every down.  A datagram is what a   *)
(* read does with it; sockets queue nothing here, since a read may return  *)
(* any datagram at any time.  Time passes in ticks of udpIdleTimeout /     *)
(* IdleTicks.                                                              *)
(***************************************************************************)
EXTENDS Naturals

CONSTANTS
  Remotes,    \* the sockets towards the targets: one, or one per address family
  Hosts,      \* source hosts of datagrams on the client socket
  Ports,      \* source ports
  IdleTicks,  \* udpIdleTimeout
  None        \* nil

ASSUME RemotesAssumption == "client" \notin Remotes
ASSUME IdleAssumption    == IdleTicks \in Nat \ {0}
ASSUME NilAssumption     == None \notin Hosts \X Ports

VARIABLES
  pc,          \* the handler
  sockets,     \* open sockets: "client" and members of Remotes
  stop,        \* stopOnce has run
  clientAddr,  \* the client's source address, None before its first datagram
  up, down, watcher, control,
  ctxDone,     \* the process is shutting down
  hungUp,      \* the client has closed the control connection
  connOpen,    \* conn is open on our side
  left,        \* ticks left on the read deadline of each socket
  quiet,       \* ticks since a datagram last arrived, in either direction
  served       \* source addresses of the datagrams passed on to a target

taskVars  == <<up, down, watcher, control>>
worldVars == <<ctxDone, hungUp>>
timeVars  == <<left, quiet>>
vars      == <<pc, sockets, stop, clientAddr, connOpen, served, taskVars, worldVars, timeVars>>

Addrs   == Hosts \X Ports
Sockets == {"client"} \cup Remotes

Init ==
  /\ pc = "bind" /\ sockets = {} /\ stop = FALSE /\ clientAddr = None
  /\ up = "off" /\ down = [r \in Remotes |-> "off"] /\ watcher = "off" /\ control = "off"
  /\ ctxDone = FALSE /\ hungUp = FALSE /\ connOpen = TRUE
  /\ left = [s \in Sockets |-> IdleTicks] /\ quiet = 0 /\ served = {}

-----------------------------------------------------------------------------
(* The client, the process, and time.                                       *)

HangUp ==
  /\ ~hungUp /\ hungUp' = TRUE
  /\ UNCHANGED <<pc, sockets, stop, clientAddr, connOpen, served, taskVars, ctxDone, timeVars>>

Cancel ==
  /\ ~ctxDone /\ ctxDone' = TRUE
  /\ UNCHANGED <<pc, sockets, stop, clientAddr, connOpen, served, taskVars, hungUp, timeVars>>

(* The goroutine of HandleSOCKS5 that watches ctx closes conn. *)
CloseConn ==
  /\ ctxDone /\ connOpen /\ connOpen' = FALSE
  /\ UNCHANGED <<pc, sockets, stop, clientAddr, served, taskVars, worldVars, timeVars>>

(* A read deadline only counts while somebody is in the read. *)
Reading(s) == IF s = "client" THEN up = "read" ELSE down[s] = "read"

Tick ==
  /\ pc = "relay"
  /\ left' = [s \in Sockets |-> IF left[s] > 0 /\ Reading(s) THEN left[s] - 1 ELSE left[s]]
  /\ quiet' = IF quiet < IdleTicks THEN quiet + 1 ELSE quiet
  /\ UNCHANGED <<pc, sockets, stop, clientAddr, connOpen, served, taskVars, worldVars>>

-----------------------------------------------------------------------------
(* The handler.                                                             *)

(* Deferred calls and early returns close every socket there is; the        *)
(* deferred conn.Close of HandleSOCKS5 follows.                             *)
Return == pc' = "done" /\ sockets' = {} /\ connOpen' = FALSE

(* net.ListenUDP and, for each family the tunnel has an address of,         *)
(* tunNet.ListenUDP; any of them may fail, and closes those before it.      *)
Bind_LeavesOpen ==
  /\ pc = "bind"
  /\ \/ /\ sockets # Sockets
        /\ \E s \in IF "client" \in sockets THEN Remotes \ sockets ELSE {"client"} :
             sockets' = sockets \cup {s}
        /\ UNCHANGED <<pc, connOpen>>
     \/ sockets = Sockets /\ Remotes # {} /\ pc' = "reply" /\ UNCHANGED <<sockets, connOpen>>
     \/ pc' = "done" /\ connOpen' = FALSE /\ UNCHANGED sockets
  /\ UNCHANGED <<stop, clientAddr, served, taskVars, worldVars, timeVars>>
Bind ==
  /\ pc = "bind"
  /\ \/ /\ sockets # Sockets
        /\ \E s \in IF "client" \in sockets THEN Remotes \ sockets ELSE {"client"} :
             sockets' = sockets \cup {s}
        /\ UNCHANGED <<pc, connOpen>>
     \/ sockets = Sockets /\ Remotes # {} /\ pc' = "reply" /\ UNCHANGED <<sockets, connOpen>>
     \/ Return
  /\ UNCHANGED <<stop, clientAddr, served, taskVars, worldVars, timeVars>>

(* sendSocks5Bound, then the goroutines start. *)
Reply ==
  /\ pc = "reply"
  /\ \/ /\ connOpen /\ pc' = "relay"
        /\ up' = "read" /\ down' = [r \in Remotes |-> "read"]
        /\ watcher' = "wait" /\ control' = "read"
        /\ UNCHANGED <<sockets, connOpen>>
     \/ Return /\ UNCHANGED taskVars
  /\ UNCHANGED <<stop, clientAddr, served, worldVars, timeVars>>

(* wg.Wait: clientToRemote and every remoteToClient. *)
Joined == up = "off" /\ \A r \in Remotes : down[r] = "off"

Join ==
  /\ pc = "relay" /\ Joined
  /\ Return
  /\ UNCHANGED <<stop, clientAddr, served, taskVars, worldVars, timeVars>>

(* shutdown, under stopOnce. *)
Shutdown ==
  /\ stop' = TRUE
  /\ sockets' = IF stop THEN sockets ELSE {}

-----------------------------------------------------------------------------
(* clientToRemote and h2UDPClientToRemote.                                  *)

(* setPeer: the first datagram pins the address, others must match it. *)
Matches_HostOnly(addr, src) == addr[1] = src[1]
Matches(addr, src) == addr = src

IsPeer(src) == clientAddr # None => Matches(clientAddr, src)

(* A read succeeds only before its deadline; SetReadDeadline at the head of *)
(* the loop sets a new one.                                                 *)
Readable(s) == s \in sockets /\ left[s] > 0
Rearm(s) == left' = [left EXCEPT ![s] = IdleTicks]

(* A datagram arrives: from a stranger, malformed, or a request, which goes *)
(* on to the name lookup.                                                   *)
UpRead ==
  /\ up = "read" /\ Readable("client")
  /\ \E src \in Addrs :
       /\ clientAddr' = IF clientAddr = None THEN src ELSE clientAddr
       /\ \/ up' = "read" /\ UNCHANGED served
          \/ IsPeer(src) /\ up' = "resolve" /\ served' = served \cup {src}
  /\ Rearm("client") /\ quiet' = 0
  /\ UNCHANGED <<pc, sockets, stop, connOpen, down, watcher, control, worldVars>>

(* resolveUDPTarget and the write, each under its own time limit.  Whether  *)
(* they work or not, the loop goes on.                                      *)
UpWrite_Fatal ==
  /\ up = "resolve"
  /\ \/ up' = "read" /\ Rearm("client") /\ UNCHANGED <<stop, sockets>>
     \/ up' = "off" /\ Shutdown /\ UNCHANGED left
  /\ UNCHANGED <<pc, clientAddr, connOpen, served, down, watcher, control, worldVars, quiet>>
UpWrite ==
  /\ up = "resolve"
  /\ up' = "read" /\ Rearm("client")
  /\ UNCHANGED <<pc, sockets, stop, clientAddr, connOpen, served, down, watcher, control, worldVars, quiet>>

(* A read fails: the socket is closed, or silent for udpIdleTimeout. *)
ReadFails_NoDeadline(s) == s \notin sockets
ReadFails(s) == s \notin sockets \/ left[s] = 0

UpEnds ==
  /\ up = "read" /\ ReadFails("client")
  /\ up' = "off" /\ Shutdown
  /\ UNCHANGED <<pc, clientAddr, connOpen, served, down, watcher, control, worldVars, timeVars>>

-----------------------------------------------------------------------------
(* remoteToClient and h2UDPRemoteToClient.                                  *)

(* A datagram nobody can have asked for, or one that cannot be framed, is   *)
(* dropped; another is framed and sent to the client.                       *)
DownRead(r) ==
  /\ down[r] = "read" /\ Readable(r)
  /\ \E next \in {"read"} \cup (IF clientAddr = None THEN {} ELSE {"write"}) :
       down' = [down EXCEPT ![r] = next]
  /\ Rearm(r) /\ quiet' = 0
  /\ UNCHANGED <<pc, sockets, stop, clientAddr, connOpen, served, up, watcher, control, worldVars>>

DownWrite(r) ==
  /\ down[r] = "write" /\ "client" \in sockets
  /\ down' = [down EXCEPT ![r] = "read"] /\ Rearm(r)
  /\ UNCHANGED <<pc, sockets, stop, clientAddr, connOpen, served, up, watcher, control, worldVars, quiet>>

(* The write fails: the client socket is closed, or the frame is larger     *)
(* than a datagram may be, the header having been added to a reply of       *)
(* nearly udpMaxDatagram bytes.  That ends the goroutine.                   *)
DownWriteFails(r) ==
  /\ down[r] = "write"
  /\ down' = [down EXCEPT ![r] = "off"] /\ Shutdown
  /\ UNCHANGED <<pc, clientAddr, connOpen, served, up, watcher, control, worldVars, timeVars>>

DownEnds(r) ==
  /\ down[r] = "read" /\ ReadFails(r)
  /\ down' = [down EXCEPT ![r] = "off"] /\ Shutdown
  /\ UNCHANGED <<pc, clientAddr, connOpen, served, up, watcher, control, worldVars, timeVars>>

-----------------------------------------------------------------------------
(* The two goroutines that only end the association.                        *)

Watch ==
  /\ watcher = "wait" /\ (ctxDone \/ stop)
  /\ watcher' = "off" /\ Shutdown
  /\ UNCHANGED <<pc, clientAddr, connOpen, served, up, down, control, worldVars, timeVars>>

ControlEnds ==
  /\ control = "read" /\ (hungUp \/ ~connOpen)
  /\ control' = "off" /\ Shutdown
  /\ UNCHANGED <<pc, clientAddr, connOpen, served, up, down, watcher, worldVars, timeVars>>

-----------------------------------------------------------------------------
Gone == pc = "done" /\ watcher = "off" /\ control = "off"
Finished == Gone /\ UNCHANGED vars

Next ==
  \/ HangUp \/ Cancel \/ CloseConn \/ Tick
  \/ Bind \/ Reply \/ Join
  \/ UpRead \/ UpWrite \/ UpEnds
  \/ \E r \in Remotes : DownRead(r) \/ DownWrite(r) \/ DownWriteFails(r) \/ DownEnds(r)
  \/ Watch \/ ControlEnds \/ Finished

Spec == Init /\ [][Next]_vars

(* Time passes, Go runs what can run, and a lookup or a write of a datagram *)
(* is bounded; that datagrams arrive or the client hangs up is not assumed. *)
Fairness ==
  /\ WF_vars(Bind) /\ WF_vars(Reply) /\ WF_vars(Join) /\ WF_vars(Tick)
  /\ WF_vars(UpWrite) /\ WF_vars(UpEnds) /\ WF_vars(Watch) /\ WF_vars(ControlEnds)
  /\ \A r \in Remotes : WF_vars(DownWrite(r) \/ DownWriteFails(r)) /\ WF_vars(DownEnds(r))

FairSpec == Spec /\ Fairness

-----------------------------------------------------------------------------
(* Properties.                                                              *)

PartsOK ==
  /\ sockets \subseteq Sockets
  /\ stop \in BOOLEAN /\ clientAddr \in Addrs \cup {None}
  /\ up \in {"off", "read", "resolve"} /\ down \in [Remotes -> {"off", "read", "write"}]
  /\ watcher \in {"off", "wait"} /\ control \in {"off", "read"}
  /\ ctxDone \in BOOLEAN /\ hungUp \in BOOLEAN /\ connOpen \in BOOLEAN
  /\ left \in [Sockets -> 0..IdleTicks] /\ quiet \in 0..IdleTicks
  /\ served \subseteq Addrs

TypeOK == pc \in {"bind", "reply", "relay", "done"} /\ PartsOK

(* Whatever ends an association, the failure of its second socket included, *)
(* its handler returns with no socket open and no relay goroutine running.  *)
EndsClean == pc = "done" => sockets = {} /\ up = "off" /\ \A r \in Remotes : down[r] = "off"

(* "an off-path sender cannot hijack the association" (udp.go 155): the     *)
(* datagrams passed on all came from the address the replies go to, host    *)
(* and port.                                                                *)
ServesOnePeer == served \subseteq {clientAddr}

(* "A single unreachable target must not kill the association" (udp.go      *)
(* 194), nor a malformed datagram, a stranger's or a name that does not     *)
(* resolve: it stops only for ctx, for the control connection, for a        *)
(* direction that was silent, or for a reply the client socket refused.     *)
StopHasCause ==
  [][~stop /\ stop' =>
       \/ ctxDone \/ hungUp
       \/ \E s \in Sockets : left[s] = 0
       \/ \E r \in Remotes : down[r] = "write" /\ down'[r] = "off"]_vars

(* An association nobody uses ends, although the client never hangs up. *)
IdleEnds == []<>(quiet < IdleTicks) \/ <>(pc = "done")

-----------------------------------------------------------------------------
(* What the comments of the code promise and the code does not do.          *)

(* "udpIdleTimeout tears down an association that has seen no traffic"      *)
(* (udp.go 27): a read deadline ends only an association in which nothing   *)
(* has arrived for that long.                                               *)
TimesOutOnlyWhenIdle ==
  [][~stop /\ (\/ up = "read" /\ up' = "off"
              \/ \E r \in Remotes : down[r] = "read" /\ down'[r] = "off") =>
       quiet = IdleTicks]_vars
=============================================================================
