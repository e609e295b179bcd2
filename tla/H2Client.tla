------------------------------ MODULE H2Client ------------------------------
(***************************************************************************)
(* The HTTP/2 back end of warp-go (tunnel/h2.go): a supervisor that keeps  *)
(* one CONNECT-IP connection to the edge alive, and the goroutines that    *)
(* move IP packets between it and a userspace network stack.               *)
(*                                                                         *)
(*   maintain      starts the pumps of a bundle, waits for it to fail,     *)
(*                 retires it and dials the next one                       *)
(*   inboundPump   edge to network stack, one per bundle                   *)
(*   keepalive     HTTP/2 PING, one per bundle                             *)
(*   outboundPump  network stack to edge, one for the client's lifetime    *)
(*   Close         any time, once                                          *)
(*                                                                         *)
(* A critical section of connMu is one step.  The network stack (tunDev)   *)
(* is external: Read blocks until the stack sends a packet; Write hands it *)
(* one, and the stack may answer inside the call (an ICMP echo reply, a    *)
(* TCP reset), which cannot finish before that answer is Read.  SyncReply  *)
(* says whether it ever does.                                              *)
(***************************************************************************)
EXTENDS Naturals

CONSTANTS
  Bundles,   \* identities of h2Bundles; reused once nothing refers to them
  NAddrs,    \* len(edgeAddrs)
  SyncReply, \* the network stack may answer a packet inside tunDev.Write
  None       \* nil

ASSUME AddrsAssumption == NAddrs \in Nat \ {0}
ASSUME StackAssumption == SyncReply \in BOOLEAN
ASSUME NilAssumption   == None \notin Bundles

VARIABLES
  current, closed,       \* H2Client.current and closed, guarded by connMu
  cancelled,             \* c.ctx is done
  tunClosed,             \* tunDev.Close has run
  open,                  \* bundles built and not yet closed (b.done not closed)
  broken,                \* bundles whose link to the edge no longer works
  failed,                \* bundles whose failed channel has received its error
  erred,                 \* history: bundles one of whose own operations has failed
  inb, ka,               \* inboundPump and keepalive of each bundle
  mpc, mb, dialI, addrIdx, \* maintain: program counter, bundle, dial loop; addrIdx
  opc, ob, changed,      \* outboundPump: program counter, bundle, and whether the
                         \* connChanged channel it waits on has been closed
  closer, closeHold      \* progress of Close and the bundle it has taken

connVars == <<current, closed, cancelled, tunClosed, closer, closeHold>>
linkVars == <<open, broken, failed, erred>>
pumpVars == <<inb, ka>>
mVars    == <<mpc, mb, dialI, addrIdx>>
outVars  == <<opc, ob, changed>>
vars     == <<connVars, linkVars, pumpVars, mVars, outVars>>

(* NewH2ClientContext: the first bundle is installed; outboundPump and      *)
(* maintain are about to run.                                               *)
Init ==
  /\ current \in Bundles /\ closed = FALSE /\ cancelled = FALSE /\ tunClosed = FALSE
  /\ open = {current} /\ broken = {} /\ failed = {} /\ erred = {}
  /\ inb = [b \in Bundles |-> "off"] /\ ka = [b \in Bundles |-> "off"]
  /\ mpc = "spawn" /\ mb = current /\ dialI = 0 /\ addrIdx \in 0..(NAddrs - 1)
  /\ opc = "read" /\ ob = None /\ changed = FALSE
  /\ closer = "off" /\ closeHold = None

-----------------------------------------------------------------------------
(* The connection still carries packets: nobody closed it, the link works   *)
(* and the client's lifetime context, which its request is attached to, is  *)
(* not done.                                                                *)
Usable(b) == b \in open /\ b \notin broken /\ ~cancelled

(* h2Bundle.fail: the first error goes to this bundle's own channel. *)
Fail_Supervised(b) == failed' = failed \cup {mb}
Fail(b) == failed' = failed \cup {b}

(* A read, a write or a PING of bundle b has returned an error: because the *)
(* link is gone, or on a working one, for a packet either end refuses or a  *)
(* PING answered too late.                                                  *)
Errs(b) == erred' = erred \cup {b}

(* close(connChanged) and a new channel: wakes outboundPump if it waits. *)
SignalChanged == changed' = (opc = "select")

(* The edge or the network ends a connection, or stops answering. *)
LinkBreaks(b) ==
  /\ b \in open \ broken
  /\ broken' = broken \cup {b}
  /\ UNCHANGED <<connVars, open, failed, erred, pumpVars, mVars, outVars>>

-----------------------------------------------------------------------------
(* maintain.                                                                *)

MSpawn ==
  /\ mpc = "spawn"
  /\ inb' = [inb EXCEPT ![mb] = "read"] /\ ka' = [ka EXCEPT ![mb] = "tick"]
  /\ mpc' = "run"
  /\ UNCHANGED <<connVars, linkVars, mb, dialI, addrIdx, outVars>>

MFailure ==
  /\ mpc = "run" /\ (cancelled \/ mb \in failed)
  /\ mpc' = "clear"
  /\ UNCHANGED <<connVars, linkVars, pumpVars, mb, dialI, addrIdx, outVars>>

(* clearCurrent, unless Close has taken the bundle already. *)
MClear ==
  /\ mpc = "clear"
  /\ IF current = mb THEN current' = None /\ SignalChanged
                     ELSE UNCHANGED <<current, changed>>
  /\ mpc' = "close"
  /\ UNCHANGED <<closed, cancelled, tunClosed, closer, closeHold, linkVars, pumpVars,
                 mb, dialI, addrIdx, opc, ob>>

MClose ==
  /\ mpc = "close"
  /\ open' = open \ {mb}
  /\ mpc' = "join"
  /\ UNCHANGED <<connVars, broken, failed, erred, pumpVars, mb, dialI, addrIdx, outVars>>

(* bundleWG.Wait, then the check of c.ctx. *)
PumpsDone_IgnoresInbound(b) == ka[b] = "off"
PumpsDone(b) == inb[b] = "off" /\ ka[b] = "off"

MJoin ==
  /\ mpc = "join" /\ PumpsDone(mb)
  /\ mpc' = IF cancelled THEN "exit" ELSE "backoff"
  /\ UNCHANGED <<connVars, linkVars, pumpVars, mb, dialI, addrIdx, outVars>>

MBackoff ==
  /\ mpc = "backoff"
  /\ \/ cancelled /\ mpc' = "exit" /\ UNCHANGED dialI
     \/ mpc' = "dial" /\ dialI' = 0          \* h2ReconnectDelay has passed
  /\ UNCHANGED <<connVars, linkVars, pumpVars, mb, addrIdx, outVars>>

(* A bundle identity nothing refers to any more. *)
Fresh(b) == b \notin open /\ b # ob /\ b # closeHold /\ b # current /\ PumpsDone(b)

(* dialAddr went through TCP, TLS, HTTP/2 and CONNECT-IP. *)
MDialOK ==
  /\ mpc = "dial"
  /\ \E b \in Bundles :
       /\ Fresh(b)
       /\ open' = open \cup {b} /\ broken' = broken \ {b}
       /\ failed' = failed \ {b} /\ erred' = erred \ {b}
       /\ mb' = b
  /\ addrIdx' = (addrIdx + dialI) % NAddrs
  /\ mpc' = "set"
  /\ UNCHANGED <<connVars, pumpVars, dialI, outVars>>

(* An address failed; dialAddr has closed all it had built.  After the last *)
(* address maintain sleeps again; a cancelled client gives up.              *)
MDialFails_Retries ==
  /\ mpc = "dial"
  /\ IF dialI + 1 < NAddrs
       THEN dialI' = dialI + 1 /\ UNCHANGED mpc
       ELSE mpc' = "backoff" /\ UNCHANGED dialI
  /\ UNCHANGED <<connVars, linkVars, pumpVars, mb, addrIdx, outVars>>
MDialFails ==
  /\ mpc = "dial"
  /\ \/ cancelled /\ mpc' = "exit" /\ UNCHANGED dialI
     \/ /\ ~cancelled
        /\ IF dialI + 1 < NAddrs
             THEN dialI' = dialI + 1 /\ UNCHANGED mpc
             ELSE mpc' = "backoff" /\ UNCHANGED dialI
  /\ UNCHANGED <<connVars, linkVars, pumpVars, mb, addrIdx, outVars>>

(* setCurrent, or newBundle.close and return on a client that is closing. *)
MaySet_Always == TRUE
MaySet == ~closed /\ ~cancelled

MSet_Leaks ==
  /\ mpc = "set"
  /\ IF MaySet
       THEN current' = mb /\ SignalChanged /\ mpc' = "spawn"
       ELSE mpc' = "exit" /\ UNCHANGED <<current, changed>>
  /\ UNCHANGED <<closed, cancelled, tunClosed, closer, closeHold, linkVars, pumpVars,
                 mb, dialI, addrIdx, opc, ob>>
MSet_Silent ==
  /\ mpc = "set"
  /\ IF MaySet
       THEN current' = mb /\ mpc' = "spawn" /\ UNCHANGED open
       ELSE open' = open \ {mb} /\ mpc' = "exit" /\ UNCHANGED current
  /\ UNCHANGED <<closed, cancelled, tunClosed, closer, closeHold, broken, failed, erred, pumpVars,
                 mb, dialI, addrIdx, outVars>>
MSet ==
  /\ mpc = "set"
  /\ IF MaySet
       THEN current' = mb /\ SignalChanged /\ mpc' = "spawn" /\ UNCHANGED open
       ELSE open' = open \ {mb} /\ mpc' = "exit" /\ UNCHANGED <<current, changed>>
  /\ UNCHANGED <<closed, cancelled, tunClosed, closer, closeHold, broken, failed, erred, pumpVars,
                 mb, dialI, addrIdx, opc, ob>>

-----------------------------------------------------------------------------
(* inboundPump of bundle b.                                                 *)

InboundTo(b, label) == inb' = [inb EXCEPT ![b] = label]

InRead(b) ==
  /\ inb[b] = "read" /\ Usable(b)
  /\ InboundTo(b, "write")
  /\ UNCHANGED <<connVars, linkVars, ka, mVars, outVars>>

(* A read error on a bundle already closed is not a failure.  On a link     *)
(* that has merely gone silent the read may also never return.              *)
InReadFails(b) ==
  /\ inb[b] = "read"
  /\ InboundTo(b, "off") /\ Errs(b)
  /\ IF b \in open THEN Fail(b) ELSE UNCHANGED failed
  /\ UNCHANGED <<connVars, open, broken, ka, mVars, outVars>>

(* tunDev.Write accepts the packet; an answer inside the call makes it wait *)
(* for outboundPump.                                                        *)
InWrite(b) ==
  /\ inb[b] = "write" /\ ~tunClosed
  /\ \/ InboundTo(b, "read")
     \/ SyncReply /\ InboundTo(b, "blocked")
  /\ UNCHANGED <<connVars, linkVars, ka, mVars, outVars>>

(* tunDev.Write refuses a packet, one that is neither IPv4 nor IPv6, or has *)
(* been closed.  Either fails the bundle, unless the client is closing.     *)
InWriteFails(b) ==
  /\ inb[b] = "write" \/ (inb[b] = "blocked" /\ tunClosed)
  /\ InboundTo(b, "off") /\ Errs(b)
  /\ IF cancelled THEN UNCHANGED failed ELSE Fail(b)
  /\ UNCHANGED <<connVars, open, broken, ka, mVars, outVars>>

-----------------------------------------------------------------------------
(* keepalive of bundle b.                                                   *)

KaTick(b) ==
  /\ ka[b] = "tick"
  /\ ka' = [ka EXCEPT ![b] = "ping"]
  /\ UNCHANGED <<connVars, linkVars, inb, mVars, outVars>>

KaStop(b) ==
  /\ ka[b] = "tick" /\ (b \notin open \/ cancelled)
  /\ ka' = [ka EXCEPT ![b] = "off"]
  /\ UNCHANGED <<connVars, linkVars, inb, mVars, outVars>>

KaPing_Silent(b) ==
  /\ ka[b] = "ping"
  /\ \/ Usable(b) /\ ka' = [ka EXCEPT ![b] = "tick"] /\ UNCHANGED erred
     \/ ka' = [ka EXCEPT ![b] = "off"] /\ Errs(b)
  /\ UNCHANGED <<connVars, open, broken, failed, inb, mVars, outVars>>
KaPing(b) ==
  /\ ka[b] = "ping"
  /\ \/ Usable(b) /\ ka' = [ka EXCEPT ![b] = "tick"] /\ UNCHANGED <<failed, erred>>
     \/ ka' = [ka EXCEPT ![b] = "off"] /\ Errs(b) /\ Fail(b)
  /\ UNCHANGED <<connVars, open, broken, inb, mVars, outVars>>

-----------------------------------------------------------------------------
(* outboundPump.                                                            *)

(* tunDev.Read returns a packet some connection of the stack has sent. *)
OutRead ==
  /\ opc = "read" /\ ~tunClosed
  /\ opc' = "wait"
  /\ UNCHANGED <<connVars, linkVars, pumpVars, mVars, ob, changed>>

(* The packet is the answer a Write of b's inboundPump is waiting to hand   *)
(* over.                                                                    *)
OutReadReply(b) ==
  /\ opc = "read" /\ ~tunClosed /\ inb[b] = "blocked"
  /\ opc' = "wait"
  /\ InboundTo(b, "read")
  /\ UNCHANGED <<connVars, linkVars, ka, mVars, ob, changed>>

OutReadFails ==
  /\ opc = "read" /\ tunClosed
  /\ opc' = "exit"
  /\ UNCHANGED <<connVars, linkVars, pumpVars, mVars, ob, changed>>

(* One pass of waitCurrent under connMu. *)
OutWait ==
  /\ opc = "wait"
  /\ \/ closed /\ opc' = "exit" /\ UNCHANGED ob
     \/ ~closed /\ current # None /\ opc' = "send" /\ ob' = current
     \/ ~closed /\ current = None /\ opc' = "select" /\ UNCHANGED ob
  /\ UNCHANGED <<connVars, linkVars, pumpVars, mVars, changed>>

(* The select of waitCurrent. *)
OutSelect ==
  /\ opc = "select"
  /\ \/ cancelled /\ opc' = "exit"
     \/ changed /\ opc' = "wait"
  /\ changed' = FALSE
  /\ UNCHANGED <<connVars, linkVars, pumpVars, mVars, ob>>

(* WritePacketBuffer; an ICMP message it hands back goes into the stack,    *)
(* which does not answer one.                                               *)
OutSendOK ==
  /\ opc = "send" /\ ob \in open /\ ~cancelled
  /\ opc' = "read" /\ ob' = None
  /\ UNCHANGED <<connVars, linkVars, pumpVars, mVars, changed>>

(* Any error, of the link or of the packet alone, fails the bundle it was   *)
(* written to, which need not be the current one any more.                  *)
OutSendFails ==
  /\ opc = "send"
  /\ Errs(ob) /\ Fail(ob)
  /\ opc' = "read" /\ ob' = None
  /\ UNCHANGED <<connVars, open, broken, pumpVars, mVars, changed>>

-----------------------------------------------------------------------------
(* Close, in its steps.                                                     *)

CloseLock ==
  /\ closer = "off"
  /\ closed' = TRUE /\ closeHold' = current /\ current' = None /\ SignalChanged
  /\ closer' = "cancel"
  /\ UNCHANGED <<cancelled, tunClosed, linkVars, pumpVars, mVars, opc, ob>>

CloseCancel ==
  /\ closer = "cancel"
  /\ cancelled' = TRUE /\ closer' = "bundle"
  /\ UNCHANGED <<current, closed, tunClosed, closeHold, linkVars, pumpVars, mVars, outVars>>

CloseBundle ==
  /\ closer = "bundle"
  /\ open' = open \ {closeHold} /\ closeHold' = None /\ closer' = "tun"
  /\ UNCHANGED <<current, closed, cancelled, tunClosed, broken, failed, erred, pumpVars, mVars, outVars>>

CloseTun ==
  /\ closer = "tun"
  /\ tunClosed' = TRUE /\ closer' = "wait"
  /\ UNCHANGED <<current, closed, cancelled, closeHold, linkVars, pumpVars, mVars, outVars>>

(* wg.Wait: outboundPump and maintain. *)
CloseWait ==
  /\ closer = "wait" /\ opc = "exit" /\ mpc = "exit"
  /\ closer' = "done"
  /\ UNCHANGED <<current, closed, cancelled, tunClosed, closeHold, linkVars, pumpVars, mVars, outVars>>

-----------------------------------------------------------------------------
Maintain == MSpawn \/ MFailure \/ MClear \/ MClose \/ MJoin \/ MBackoff
            \/ MDialOK \/ MDialFails \/ MSet
Inbound(b) == InRead(b) \/ InReadFails(b) \/ InWrite(b) \/ InWriteFails(b)
Keepalive(b) == KaTick(b) \/ KaStop(b) \/ KaPing(b)
Outbound == OutRead \/ OutReadFails \/ OutWait \/ OutSelect \/ OutSendOK \/ OutSendFails
Close == CloseLock \/ CloseCancel \/ CloseBundle \/ CloseTun \/ CloseWait

(* Close has returned: nothing is left to run. *)
Finished == closer = "done" /\ UNCHANGED vars

Next ==
  \/ Maintain \/ Outbound \/ Close \/ Finished
  \/ \E b \in Bundles : LinkBreaks(b) \/ Inbound(b) \/ Keepalive(b) \/ OutReadReply(b)

Spec == Init /\ [][Next]_vars

(* Go runs every runnable goroutine; the ticker, the reconnect delay and    *)
(* every timeout fire; a sender waiting on a Go channel is served in its    *)
(* turn.  Nothing is assumed of the network: packets need not arrive, dials *)
(* need not succeed, and a read or a write on a silent link need not return *)
(* before the bundle is closed or the client's context ends.                *)
Torn(b) == b \notin open \/ cancelled

Fairness ==
  /\ WF_vars(Maintain)
  /\ WF_vars(OutReadFails \/ OutWait \/ OutSelect)
  /\ WF_vars(Usable(ob) /\ (OutSendOK \/ OutSendFails)) /\ WF_vars(Torn(ob) /\ OutSendFails)
  /\ WF_vars(closer # "off" /\ Close)
  /\ \A b \in Bundles :
       /\ WF_vars(Torn(b) /\ InReadFails(b)) /\ WF_vars(InWrite(b) \/ InWriteFails(b))
       /\ WF_vars(Keepalive(b)) /\ SF_vars(OutReadReply(b))

FairSpec == Spec /\ Fairness

-----------------------------------------------------------------------------
(* Properties.                                                              *)

TypeOK ==
  /\ current \in Bundles \cup {None} /\ closed \in BOOLEAN
  /\ cancelled \in BOOLEAN /\ tunClosed \in BOOLEAN
  /\ open \subseteq Bundles /\ broken \subseteq Bundles /\ failed \subseteq Bundles
  /\ erred \subseteq Bundles
  /\ inb \in [Bundles -> {"off", "read", "write", "blocked"}]
  /\ ka \in [Bundles -> {"off", "tick", "ping"}]
  /\ mpc \in {"spawn", "run", "clear", "close", "join", "backoff", "dial", "set", "exit"}
  /\ mb \in Bundles /\ dialI \in 0..(NAddrs - 1) /\ addrIdx \in 0..(NAddrs - 1)
  /\ opc \in {"read", "wait", "select", "send", "exit"}
  /\ ob \in Bundles \cup {None} /\ changed \in BOOLEAN
  /\ closer \in {"off", "cancel", "bundle", "tun", "wait", "done"}
  /\ closeHold \in Bundles \cup {None}

(* waitCurrent never hands out a bundle that close has already torn down:   *)
(* maintain and Close both unpublish a bundle before they close it, and a   *)
(* closed client publishes none, however late a redial succeeds.            *)
CurrentIsOpen == current # None => current \in open /\ ~closed

(* Bundles that are open and not handed out: maintain or Close has them. *)
InHand == open \cap ({closeHold} \cup IF mpc \in {"set", "close"} THEN {mb} ELSE {})

Holder == INSTANCE ConnHolder WITH Conns <- Bundles, hands <- InHand

(* The client implements a holder of one connection: maintain and Close     *)
(* between them withdraw a bundle before they close it, dial one at a time, *)
(* publish none after Close and leave none open (setCurrent, clearCurrent,  *)
(* Close).                                                                  *)
HoldsOneConnection == Holder!Spec

(* One set of pumps at a time feeds the network stack: those of the bundle  *)
(* maintain is supervising (bundleWG).                                      *)
OnePumpSet ==
  \A b \in Bundles : (inb[b] # "off" \/ ka[b] # "off") => b = mb /\ mpc \in {"run", "clear", "close", "join"}

(* outboundPump never sleeps on a channel that will not be closed although  *)
(* a bundle is there or the client has closed: it captured connChanged in   *)
(* the section that found no bundle.                                        *)
NoLostWakeup == opc = "select" /\ ~changed => current = None /\ ~closed

(* When Close returns nothing of the client runs and nothing is open. *)
QuietAfterClose ==
  closer = "done" => /\ open = {}
                     /\ \A b \in Bundles : inb[b] = "off" /\ ka[b] = "off"

(* maintain gives the current bundle up only for an error of its own, or    *)
(* for Close: a read, a write or a PING of that very connection failed      *)
(* since it was dialled.  A late error of a replaced bundle (outboundPump   *)
(* writing to the one it fetched before) never reaches its successor.       *)
HealthyIsKept ==
  [][current # None /\ current' # current => current \in erred \/ closed']_vars

(* The three goroutines wait for one another: inboundPump in tunDev.Write   *)
(* for outboundPump, which waits for a bundle that maintain will dial once  *)
(* inboundPump is done.                                                     *)
PumpsParked == <>[](mpc = "join" /\ inb[mb] = "blocked" /\ opc = "select")

(* The bundle maintain supervises no longer works, or an operation on it    *)
(* has failed.                                                              *)
Lost == mpc = "run" /\ mb \in broken \cup erred

(* A connection that stops working is redialled, whoever notices first:     *)
(* inboundPump, outboundPump or the PING; and so is one that works but has  *)
(* failed one packet.  The pumps parking one another is the one way to miss *)
(* it.                                                                      *)
RedialsUnlessParked == PumpsParked \/ (Lost ~> (mpc = "dial" \/ closed))

(* Close returns, from whatever state of the pumps: tunDev.Close frees a    *)
(* parked Write.                                                            *)
CloseReturns == closer = "cancel" ~> closer = "done"

-----------------------------------------------------------------------------
(* What the documentation promises and the code does not do.                *)

(* A failed read, write or PING closes the bundle "and redials after one    *)
(* second" (docs/warp-masque-reverse-engineering.md 400), always.           *)
Redials == Lost ~> (mpc = "dial" \/ closed)
=============================================================================
