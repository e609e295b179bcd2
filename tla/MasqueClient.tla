---------------------------- MODULE MasqueClient ----------------------------
(***************************************************************************)
(* The HTTP/3 back end of warp-go (tunnel/masque.go): one QUIC connection  *)
(* to the edge, replaced on failure, and one DNS-over-HTTPS connection     *)
(* that rides in a stream of it and is shared by every lookup.             *)
(*                                                                         *)
(* Every SOCKS5 handler is a goroutine of Procs.  It opens a request       *)
(* stream for a tunnel, or looks a name up; a lookup needs the shared DoH  *)
(* connection, whose dial itself opens a request stream.  Both may find    *)
(* the QUIC connection dead and reconnect.  Close runs once, at any time.  *)
(*                                                                         *)
(* Critical sections of connMu and dohMu never block and are one step      *)
(* each, together with the close() of an object that the section has just  *)
(* made unreachable.  reconnectMu is held across a dial and is a variable. *)
(* A blocking network call is a step that succeeds or fails at any later   *)
(* time.                                                                   *)
(***************************************************************************)
EXTENDS Naturals, FiniteSets

CONSTANTS
  Procs,     \* goroutines that open streams and look names up
  Bundles,   \* identities of connBundles; bounds how many dials can succeed
  Dohs,      \* identities of dohConns; bounds how many DoH dials can succeed
  NAddrs,    \* len(edgeAddrs)
  NServers,  \* len(dnsServers)
  None       \* nil

ASSUME CountAssumption == NAddrs \in Nat \ {0} /\ NServers \in Nat \ {0}
ASSUME NoneAssumption  == None \notin Procs \cup Bundles \cup Dohs

VARIABLES
  cur, closed,      \* MasqueClient.cur and closed, guarded by connMu
  open,             \* bundles built and not yet closed by connBundle.close
  alive,            \* bundles whose QUIC context is not done
  madeB,            \* bundles ever built
  reconnectMu,      \* the goroutine holding reconnectMu
  addrIdx, dialI,   \* MasqueClient.addrIdx and the loop index of dial
  doh, dohDial,     \* the shared DoH connection and the leader of the dial flight
  dohOpen,          \* dohConns built and not yet closed by dohConn.close
  dohUp,            \* dohConns whose h2.State() is neither Closed nor Closing
  ride,             \* the bundle each dohConn's stream belongs to, None if never built
  straggler,        \* the shared dohConn has a question dnsQuery no longer waits for
  g,                \* the goroutines: program counter and locals
  closer, closeHold \* progress of Close and the bundle it has taken

connVars == <<cur, closed, open, alive, madeB, addrIdx>>
dohVars  == <<doh, dohDial, dohOpen, dohUp, ride, straggler>>
lockVars == <<reconnectMu, dialI>>
endVars  == <<closer, closeHold>>
vars     == <<connVars, dohVars, lockVars, endVars, g>>

Labels == {"idle", "open", "openStream", "rcLock", "rcCheck", "rcDial",
           "rcSettings", "rcInstall", "rcCloseOld", "rcInval", "reopen",
           "reopenStream", "dohLive", "dohJoin", "dohWait", "dohHandshake",
           "dohCheck", "dohInstall", "dohRecheck", "query"}

Goroutine ==
  [pc     : Labels,
   op     : {"none", "tunnel", "lookup"},
   tried  : Bundles \cup {None},  \* last answer of currentConnection, later reconnect's stale
   hold   : Bundles \cup {None},  \* a bundle reconnect owns: freshly dialled, or just replaced
   dconn  : Dohs \cup {None},     \* the DoH connection dialled or queried
   failed : Dohs \cup {None},     \* the one the first attempt of this lookup failed on
   srv    : 0..NServers,          \* index into dnsServers
   waitOn : Procs \cup {None},    \* leader of the dial flight waited for
   ctx    : BOOLEAN]              \* the caller's context is done

Idle == [pc |-> "idle", op |-> "none", tried |-> None, hold |-> None,
         dconn |-> None, failed |-> None, srv |-> 0, waitOn |-> None, ctx |-> FALSE]

At(p, label) == g[p].pc = label
Goto(p, label) == g' = [g EXCEPT ![p].pc = label]
Become(p, r) == g' = [g EXCEPT ![p] = r]

-----------------------------------------------------------------------------
(* NewMasqueClientContext: a client exists once its first dial succeeded,   *)
(* on any of the candidate addresses.                                       *)
Init ==
  /\ cur \in Bundles
  /\ closed = FALSE
  /\ open = {cur} /\ alive = {cur} /\ madeB = {cur}
  /\ reconnectMu = None
  /\ addrIdx \in 0..(NAddrs - 1) /\ dialI = 0
  /\ doh = None /\ dohDial = None
  /\ dohOpen = {} /\ dohUp = {} /\ straggler = FALSE
  /\ ride = [d \in Dohs |-> None]
  /\ g = [p \in Procs |-> Idle]
  /\ closer = "off" /\ closeHold = None

-----------------------------------------------------------------------------
(* The environment.                                                         *)

(* The edge, the network or the idle timeout ends a QUIC connection. *)
BundleDies(b) ==
  /\ b \in alive
  /\ alive' = alive \ {b}
  /\ UNCHANGED <<cur, closed, open, madeB, addrIdx, dohVars, lockVars, endVars, g>>

(* The HTTP/2 read loop of a DoH connection notices an error or a GOAWAY. *)
DohBreaks(d) ==
  /\ d \in dohUp
  /\ dohUp' = dohUp \ {d}
  /\ UNCHANGED <<connVars, doh, dohDial, dohOpen, ride, straggler, lockVars, endVars, g>>

(* The set-up budget of a handler runs out, or the process is shutting down. *)
CtxDone(p) ==
  /\ ~At(p, "idle") /\ ~g[p].ctx
  /\ g' = [g EXCEPT ![p].ctx = TRUE]
  /\ UNCHANGED <<connVars, dohVars, lockVars, endVars>>

-----------------------------------------------------------------------------
(* openRequestStream.                                                       *)

(* currentConnection answers a bundle: not closed, and its QUIC context is  *)
(* not done.                                                                *)
HasConnection == ~closed /\ cur \in alive

(* openRequestStream failed: a tunnel reports to its client; a DoH dial     *)
(* (dialDoH inside dialAnyDoH) goes on to the next server unless the        *)
(* caller's context is done.                                                *)
AfterOpenError(r) ==
  IF r.op = "tunnel" THEN Idle
  ELSE IF r.srv < NServers /\ ~r.ctx
       THEN [r EXCEPT !.pc = "open", !.srv = @ + 1, !.tried = None, !.hold = None]
       ELSE [r EXCEPT !.pc = "dohInstall", !.srv = 0, !.tried = None, !.hold = None]

(* openRequestStream returned a stream on bundle r.tried. *)
AfterOpen(r) ==
  IF r.op = "tunnel" THEN Idle ELSE [r EXCEPT !.pc = "dohHandshake"]

(* reconnect returned nil. *)
AfterReconnect(r) == [r EXCEPT !.pc = "reopen", !.tried = None, !.hold = None]

StartTunnel(p) ==
  /\ At(p, "idle")
  /\ Become(p, [Idle EXCEPT !.pc = "open", !.op = "tunnel"])
  /\ UNCHANGED <<connVars, dohVars, lockVars, endVars>>

Open(p) ==
  /\ At(p, "open")
  /\ IF HasConnection
       THEN Become(p, [g[p] EXCEPT !.pc = "openStream", !.tried = cur])
       ELSE Become(p, [g[p] EXCEPT !.pc = "rcLock", !.tried = None])
  /\ UNCHANGED <<connVars, dohVars, lockVars, endVars>>

OpenStreamOK(p) ==
  /\ At(p, "openStream") /\ g[p].tried \in alive
  /\ Become(p, AfterOpen(g[p]))
  /\ UNCHANGED <<connVars, dohVars, lockVars, endVars>>

(* The open failed or ran into its ten seconds: reconnect, unless it is the *)
(* caller that has gone.                                                    *)
OpenStreamFails(p) ==
  /\ At(p, "openStream")
  /\ IF g[p].ctx THEN Become(p, AfterOpenError(g[p])) ELSE Goto(p, "rcLock")
  /\ UNCHANGED <<connVars, dohVars, lockVars, endVars>>

(* After reconnect: take the connection there is now and try once more. *)
Reopen(p) ==
  /\ At(p, "reopen")
  /\ IF HasConnection
       THEN Become(p, [g[p] EXCEPT !.pc = "reopenStream", !.tried = cur])
       ELSE Become(p, AfterOpenError(g[p]))
  /\ UNCHANGED <<connVars, dohVars, lockVars, endVars>>

ReopenStream(p) ==
  /\ At(p, "reopenStream")
  /\ \/ g[p].tried \in alive /\ Become(p, AfterOpen(g[p]))
     \/ Become(p, AfterOpenError(g[p]))
  /\ UNCHANGED <<connVars, dohVars, lockVars, endVars>>

-----------------------------------------------------------------------------
(* reconnect and dial.                                                      *)

RcLock(p) ==
  /\ At(p, "rcLock") /\ reconnectMu = None
  /\ reconnectMu' = p
  /\ Goto(p, "rcCheck")
  /\ UNCHANGED <<connVars, dohVars, dialI, endVars>>

(* Another goroutine has reconnected since p saw its connection fail. *)
AlreadyReconnected_Never(p) == FALSE
AlreadyReconnected(p) == HasConnection /\ cur # g[p].tried

RcCheck(p) ==
  /\ At(p, "rcCheck")
  /\ dialI' = 0
  /\ IF AlreadyReconnected(p)
       THEN reconnectMu' = None /\ Become(p, AfterReconnect(g[p]))
       ELSE UNCHANGED reconnectMu /\ Goto(p, "rcDial")
  /\ UNCHANGED <<connVars, dohVars, endVars>>

(* dialAddr completed the QUIC handshake with candidate (addrIdx + dialI). *)
RcDialOK(p) ==
  /\ At(p, "rcDial")
  /\ \E b \in Bundles \ madeB :
       /\ open' = open \cup {b} /\ alive' = alive \cup {b} /\ madeB' = madeB \cup {b}
       /\ Become(p, [g[p] EXCEPT !.pc = "rcSettings", !.hold = b])
  /\ UNCHANGED <<cur, closed, addrIdx, dohVars, lockVars, endVars>>

(* An attempt failed.  dial stops when its own 35 s context is done or the  *)
(* address family has no route (giveUp), and after the last candidate; the  *)
(* context of the goroutine that asked for the connection plays no part.    *)
NextAddr(p, giveUp) ==
  IF giveUp \/ dialI + 1 = NAddrs
    THEN /\ reconnectMu' = None /\ dialI' = 0
         /\ Become(p, AfterOpenError(g[p]))
    ELSE /\ dialI' = dialI + 1
         /\ Become(p, [g[p] EXCEPT !.pc = "rcDial", !.hold = None])
         /\ UNCHANGED reconnectMu

RcDialFails(p) ==
  /\ At(p, "rcDial")
  /\ \E giveUp \in BOOLEAN : NextAddr(p, giveUp)
  /\ UNCHANGED <<connVars, dohVars, endVars>>

(* The server's SETTINGS arrived: the bundle is ready and its address is    *)
(* remembered.                                                              *)
RcSettingsOK_NoWrap(p) ==
  /\ At(p, "rcSettings")
  /\ addrIdx' = addrIdx + dialI
  /\ Goto(p, "rcInstall")
  /\ UNCHANGED <<cur, closed, open, alive, madeB, dohVars, lockVars, endVars>>
RcSettingsOK(p) ==
  /\ At(p, "rcSettings")
  /\ addrIdx' = (addrIdx + dialI) % NAddrs
  /\ Goto(p, "rcInstall")
  /\ UNCHANGED <<cur, closed, open, alive, madeB, dohVars, lockVars, endVars>>

(* The connection died, the timer fired or the context ended before         *)
(* SETTINGS: the half-built bundle is closed.                               *)
RcSettingsFails(p) ==
  /\ At(p, "rcSettings")
  /\ open' = open \ {g[p].hold} /\ alive' = alive \ {g[p].hold}
  /\ \E giveUp \in BOOLEAN : NextAddr(p, giveUp)
  /\ UNCHANGED <<cur, closed, madeB, addrIdx, dohVars, endVars>>

(* Under connMu: a client closed meanwhile gets the new bundle closed. *)
MayInstall_Always == TRUE
MayInstall == ~closed

RcInstall(p) ==
  /\ At(p, "rcInstall")
  /\ IF MayInstall
       THEN /\ cur' = g[p].hold
            /\ Become(p, [g[p] EXCEPT !.pc = "rcCloseOld", !.hold = cur])
            /\ UNCHANGED <<open, alive, reconnectMu, dialI>>
       ELSE /\ open' = open \ {g[p].hold} /\ alive' = alive \ {g[p].hold}
            /\ reconnectMu' = None /\ dialI' = 0
            /\ Become(p, AfterOpenError(g[p]))
            /\ UNCHANGED cur
  /\ UNCHANGED <<closed, madeB, addrIdx, dohVars, endVars>>

(* old.close("replaced"), after connMu is released. *)
RcCloseOld(p) ==
  /\ At(p, "rcCloseOld")
  /\ open' = open \ {g[p].hold} /\ alive' = alive \ {g[p].hold}
  /\ Become(p, [g[p] EXCEPT !.pc = "rcInval", !.hold = None])
  /\ UNCHANGED <<cur, closed, madeB, addrIdx, dohVars, lockVars, endVars>>

-----------------------------------------------------------------------------
(* The shared DoH connection.                                               *)

(* invalidateDoH(stale) drops the shared connection only if it is still the *)
(* one meant; None means whichever there is.                                *)
Victim(stale) == doh # None /\ (stale = None \/ doh = stale)

DropDoh(drop) ==
  /\ doh'     = IF drop THEN None ELSE doh
  /\ dohOpen' = IF drop THEN dohOpen \ {doh} ELSE dohOpen
  /\ dohUp'   = IF drop THEN dohUp \ {doh} ELSE dohUp
  /\ straggler' = (straggler /\ ~drop)

InvalidateDoH_Noop(stale) == DropDoh(FALSE)
InvalidateDoH(stale) == DropDoh(Victim(stale))

(* reconnect ends by dropping whatever DoH connection is installed now. *)
RcInval(p) ==
  /\ At(p, "rcInval")
  /\ InvalidateDoH(None)
  /\ reconnectMu' = None /\ dialI' = 0
  /\ Become(p, AfterReconnect(g[p]))
  /\ UNCHANGED <<connVars, dohDial, ride, endVars>>

StartLookup(p) ==
  /\ At(p, "idle")
  /\ Become(p, [Idle EXCEPT !.pc = "dohLive", !.op = "lookup"])
  /\ UNCHANGED <<connVars, dohVars, lockVars, endVars>>

(* liveDoH: hand out a connection that is up, retire one that is not. *)
DohLive(p) ==
  /\ At(p, "dohLive")
  /\ IF doh \in dohUp
       THEN /\ Become(p, [g[p] EXCEPT !.pc = "query", !.dconn = doh])
            /\ UNCHANGED <<doh, dohOpen, dohUp, straggler>>
       ELSE /\ DropDoh(doh # None)
            /\ Goto(p, "dohJoin")
  /\ UNCHANGED <<connVars, dohDial, ride, lockVars, endVars>>

(* A dial is in progress: wait for it instead of starting another. *)
MustWait_Never == FALSE
MustWait == dohDial # None

DohJoin(p) ==
  /\ At(p, "dohJoin")
  /\ IF MustWait
       THEN /\ Become(p, [g[p] EXCEPT !.pc = "dohWait", !.waitOn = dohDial])
            /\ UNCHANGED dohDial
       ELSE /\ dohDial' = p
            /\ Become(p, [g[p] EXCEPT !.pc = "open", !.srv = 1])
  /\ UNCHANGED <<connVars, doh, dohOpen, dohUp, ride, straggler, lockVars, endVars>>

(* A waiter whose own context is done stops waiting. *)
DohWaitCancelled(p) ==
  /\ At(p, "dohWait") /\ g[p].ctx
  /\ Become(p, Idle)
  /\ UNCHANGED <<connVars, dohVars, lockVars, endVars>>

(* CONNECT, TLS and HTTP/2 set-up on the stream just opened. *)
DohHandshakeOK(p) ==
  /\ At(p, "dohHandshake") /\ g[p].tried \in alive
  /\ \E d \in {x \in Dohs : ride[x] = None} :
       /\ ride' = [ride EXCEPT ![d] = g[p].tried]
       /\ dohOpen' = dohOpen \cup {d} /\ dohUp' = dohUp \cup {d}
       /\ Become(p, [g[p] EXCEPT !.pc = "dohCheck", !.dconn = d, !.tried = None, !.srv = 0])
  /\ UNCHANGED <<connVars, doh, dohDial, straggler, lockVars, endVars>>

DohHandshakeFails(p) ==
  /\ At(p, "dohHandshake")
  /\ Become(p, AfterOpenError(g[p]))
  /\ UNCHANGED <<connVars, dohVars, lockVars, endVars>>

(* The first isClosed: a client closed during the dial gets d closed. *)
DohCheck_KeepsClosed(p) ==
  /\ At(p, "dohCheck")
  /\ IF closed
       THEN dohOpen' = dohOpen \ {g[p].dconn} /\ dohUp' = dohUp \ {g[p].dconn}
       ELSE UNCHANGED <<dohOpen, dohUp>>
  /\ Goto(p, "dohInstall")
  /\ UNCHANGED <<connVars, doh, dohDial, ride, straggler, lockVars, endVars>>
DohCheck(p) ==
  /\ At(p, "dohCheck")
  /\ IF closed
       THEN /\ dohOpen' = dohOpen \ {g[p].dconn} /\ dohUp' = dohUp \ {g[p].dconn}
            /\ Become(p, [g[p] EXCEPT !.pc = "dohInstall", !.dconn = None])
       ELSE /\ Goto(p, "dohInstall")
            /\ UNCHANGED <<dohOpen, dohUp>>
  /\ UNCHANGED <<connVars, doh, dohDial, ride, straggler, lockVars, endVars>>

(* close(flight.done): waiters return the leader's error, or look again. *)
Woken_Nobody(r, ok) == r
Woken(r, ok) == IF ok THEN [r EXCEPT !.pc = "dohLive", !.waitOn = None] ELSE Idle

(* Under dohMu: install the result and end the flight; close(flight.done)   *)
(* follows at once and touches nothing but the waiters.                     *)
DohInstall(p) ==
  LET ok == g[p].dconn # None
  IN /\ At(p, "dohInstall")
     /\ doh' = IF ok THEN g[p].dconn ELSE doh
     /\ straggler' = (straggler /\ ~ok)
     /\ dohDial' = None
     /\ g' = [q \in Procs |->
                IF q = p THEN IF ok THEN [g[p] EXCEPT !.pc = "dohRecheck"] ELSE Idle
                ELSE IF At(q, "dohWait") /\ g[q].waitOn = p THEN Woken(g[q], ok)
                ELSE g[q]]
     /\ UNCHANGED <<connVars, dohOpen, dohUp, ride, lockVars, endVars>>

(* The second isClosed: Close may have run before the install. *)
DohRecheck(p) ==
  /\ At(p, "dohRecheck")
  /\ IF closed
       THEN InvalidateDoH(g[p].dconn) /\ Become(p, Idle)
       ELSE UNCHANGED <<doh, dohOpen, dohUp, straggler>> /\ Goto(p, "query")
  /\ UNCHANGED <<connVars, dohDial, ride, lockVars, endVars>>

(* The answer dnsQuery returns arrives, which takes a working connection;   *)
(* handing it to the caller later touches nothing shared.  If an IPv4       *)
(* answer came first, the IPv6 question stays behind; on a connection no    *)
(* longer shared it can do no harm and is forgotten here.                   *)
QueryAnswered(p) ==
  /\ At(p, "query")
  /\ g[p].dconn \in dohUp /\ ride[g[p].dconn] \in alive
  /\ straggler' \in {straggler, straggler \/ g[p].dconn = doh}
  /\ Become(p, Idle)
  /\ UNCHANGED <<connVars, doh, dohDial, dohOpen, dohUp, ride, lockVars, endVars>>

(* One question died with the connection, the other had its answer: the     *)
(* connection is retired and the lookup succeeds all the same.              *)
QueryHalfFailed(p) ==
  /\ At(p, "query")
  /\ InvalidateDoH(g[p].dconn)
  /\ Become(p, Idle)
  /\ UNCHANGED <<connVars, dohDial, ride, lockVars, endVars>>

(* NXDOMAIN, a non-200 status, or the query's own deadline: final. *)
QueryRefused(p) ==
  /\ At(p, "query")
  /\ Become(p, Idle)
  /\ UNCHANGED <<connVars, dohVars, lockVars, endVars>>

(* errDoHTransport: retire the connection, by identity, and try once more.  *)
(* resolveDNS gives the lookup two attempts.                                *)
QueryTransport(p) ==
  /\ At(p, "query")
  /\ InvalidateDoH(g[p].dconn)
  /\ IF g[p].failed = None /\ ~g[p].ctx
       THEN Become(p, [Idle EXCEPT !.pc = "dohLive", !.op = "lookup", !.failed = g[p].dconn])
       ELSE Become(p, Idle)
  /\ UNCHANGED <<connVars, dohDial, ride, lockVars, endVars>>

(* A question nobody waits for any more ends, in a transport error or not. *)
StragglerEnds ==
  /\ straggler
  /\ \/ InvalidateDoH(doh)
     \/ straggler' = FALSE /\ UNCHANGED <<doh, dohOpen, dohUp>>
  /\ UNCHANGED <<connVars, dohDial, ride, lockVars, endVars, g>>

-----------------------------------------------------------------------------
(* Close, in its three steps.                                               *)

CloseInval ==
  /\ closer = "off"
  /\ InvalidateDoH(None)
  /\ closer' = "set"
  /\ UNCHANGED <<connVars, dohDial, ride, lockVars, closeHold, g>>

CloseSet ==
  /\ closer = "set"
  /\ closed' = TRUE /\ closeHold' = cur /\ cur' = None
  /\ closer' = "bundle"
  /\ UNCHANGED <<open, alive, madeB, addrIdx, dohVars, lockVars, g>>

CloseBundle ==
  /\ closer = "bundle"
  /\ open' = open \ {closeHold} /\ alive' = alive \ {closeHold}
  /\ closeHold' = None /\ closer' = "done"
  /\ UNCHANGED <<cur, closed, madeB, addrIdx, dohVars, lockVars, g>>

-----------------------------------------------------------------------------
(* What goroutine p does by itself once it is running. *)
Step(p) ==
  \/ Open(p) \/ OpenStreamOK(p) \/ OpenStreamFails(p)
  \/ Reopen(p) \/ ReopenStream(p)
  \/ RcCheck(p) \/ RcDialOK(p) \/ RcDialFails(p)
  \/ RcSettingsOK(p) \/ RcSettingsFails(p)
  \/ RcInstall(p) \/ RcCloseOld(p) \/ RcInval(p)
  \/ DohLive(p) \/ DohJoin(p) \/ DohWaitCancelled(p)
  \/ DohHandshakeOK(p) \/ DohHandshakeFails(p)
  \/ DohCheck(p) \/ DohInstall(p) \/ DohRecheck(p)
  \/ QueryAnswered(p) \/ QueryHalfFailed(p) \/ QueryRefused(p) \/ QueryTransport(p)

Next ==
  \/ \E p \in Procs : StartTunnel(p) \/ StartLookup(p) \/ RcLock(p) \/ Step(p) \/ CtxDone(p)
  \/ \E b \in Bundles : BundleDies(b)
  \/ \E d \in Dohs : DohBreaks(d)
  \/ StragglerEnds
  \/ CloseInval \/ CloseSet \/ CloseBundle

Spec == Init /\ [][Next]_vars

(* Every blocking call of a running goroutine is bounded by a timeout, and  *)
(* Go schedules runnable goroutines; a Go mutex hands itself to a waiter    *)
(* that has starved, which is strong fairness for taking reconnectMu.       *)
Fairness ==
  /\ \A p \in Procs : WF_vars(Step(p)) /\ SF_vars(RcLock(p))
  /\ WF_vars(CloseSet) /\ WF_vars(CloseBundle)

FairSpec == Spec /\ Fairness

-----------------------------------------------------------------------------
(* Properties.                                                              *)

TypeOK ==
  /\ cur \in Bundles \cup {None} /\ closed \in BOOLEAN
  /\ open \subseteq madeB /\ alive \subseteq open /\ madeB \subseteq Bundles
  /\ reconnectMu \in Procs \cup {None}
  /\ addrIdx \in 0..(NAddrs - 1) /\ dialI \in 0..(NAddrs - 1)
  /\ doh \in Dohs \cup {None} /\ dohDial \in Procs \cup {None}
  /\ dohOpen \subseteq Dohs /\ dohUp \subseteq dohOpen /\ straggler \in BOOLEAN
  /\ ride \in [Dohs -> Bundles \cup {None}]
  /\ g \in [Procs -> Goroutine]
  /\ closer \in {"off", "set", "bundle", "done"} /\ closeHold \in Bundles \cup {None}

(* Labels at which a goroutine is inside reconnect with the mutex held. *)
InReconnect == {"rcCheck", "rcDial", "rcSettings", "rcInstall", "rcCloseOld", "rcInval"}

(* Labels between becoming the leader of the DoH dial and ending it. *)
Dialing(p) ==
  /\ g[p].op = "lookup"
  /\ g[p].pc \in InReconnect \cup {"open", "openStream", "rcLock", "reopen", "reopenStream",
                                   "dohHandshake", "dohCheck", "dohInstall"}

(* No connBundle is ever leaked: each one built and not closed is the       *)
(* current one of an open client, or is in the hands of the one reconnect   *)
(* or of Close, which will close or install it (connBundle.close and its    *)
(* five callers).                                                           *)
BundleOwned ==
  \A b \in open :
    \/ b = cur /\ ~closed
    \/ b = closeHold
    \/ reconnectMu # None /\ g[reconnectMu].hold = b

(* Bundles that the one reconnect or Close has taken out of circulation. *)
InHand == {b \in Bundles : b = closeHold \/ (reconnectMu # None /\ g[reconnectMu].hold = b)}

Holder == INSTANCE ConnHolder WITH Conns <- Bundles, current <- cur, hands <- InHand

(* The client implements a holder of one connection: reconnect and Close    *)
(* between them dial one bundle at a time, hand out only an open one,       *)
(* publish none after Close, and close each bundle they take out of         *)
(* circulation (connBundle.close and its five callers).                     *)
HoldsOneConnection == Holder!Spec

(* Once Close has taken the connection no reconnect brings one back         *)
(* (the closed test in reconnect, masque.go 417-422).                       *)
ClosedStaysClosed == closed => cur = None

(* reconnect never throws away a healthy connection its caller has not      *)
(* itself failed on: when it installs a replacement, the one it replaces is *)
(* dead or is the stale one it was called for.                              *)
NoHealthyReplaced ==
  [][\A p \in Procs :
       At(p, "rcInstall") /\ g'[p].pc = "rcCloseOld" =>
         cur \notin alive \/ cur = g[p].tried]_vars

(* The part of p in the dial of the shared DoH connection. *)
DohRole(p) == IF Dialing(p) THEN "lead" ELSE IF At(p, "dohWait") THEN "wait" ELSE "out"

Flight == INSTANCE SingleFlight
            WITH Keys <- {"doh"}, role <- [k \in {"doh"} |-> [p \in Procs |-> DohRole(p)]]

(* dohConnection implements a single flight: one leader at a time, whose    *)
(* end of the dial, good or bad, releases every waiter in the same step;    *)
(* nobody joins a flight that is over (dohDial, masque.go 920-993).         *)
DohIsSingleFlight == Flight!Spec

(* The second attempt of a lookup never runs on the connection the first    *)
(* one failed on ("the second attempt dials a fresh one", masque.go 809).   *)
RetryIsFresh ==
  \A p \in Procs : At(p, "query") /\ g[p].failed # None => g[p].dconn # g[p].failed

(* The shared DoH connection is never one this client has closed itself. *)
SharedDohOpen == doh # None => doh \in dohOpen

(* Every request for a stream and every lookup returns, whatever dies       *)
(* meanwhile: no waiter is forgotten and no lock is kept.                   *)
CallsReturn == \A p \in Procs : ~At(p, "idle") ~> At(p, "idle")

-----------------------------------------------------------------------------
(* What the comments of the code promise and the code does not do.          *)

(* "a cold-start burst still yields a single connection" (masque.go 920):   *)
(* each open DoH connection is the shared one or its dialler still has it.  *)
NoDohOrphan ==
  \A d \in dohOpen :
    d = doh \/ \E p \in Procs : g[p].dconn = d /\ g[p].pc \in {"dohCheck", "dohInstall"}
=============================================================================
