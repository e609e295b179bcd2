------------------------------- MODULE Proxy -------------------------------
(***************************************************************************)
(* The life of a proxy process from a loaded registration on: the second   *)
(* half of main (main.go) with its goroutines.                             *)
(*                                                                         *)
(*   main       chooses a transport, listens, accepts, returns             *)
(*   closer     waits for the signal, cancels ctx, closes the listener     *)
(*   test       the self-test, a client of the proxy's own listener        *)
(*   conn[c]    one HandleSOCKS5 per accepted connection                   *)
(*                                                                         *)
(* A handler is what main sees of it: it runs, and it ends.  TunnelRelay   *)
(* and H2Socks say how.  Back-off is counted in milliseconds.              *)
(***************************************************************************)
EXTENDS Naturals

CONSTANTS
  Clients,       \* connections of clients
  Transports,    \* values of -transport
  SelfTest,      \* -self-test
  FirstBackoff,  \* the wait after one failed accept
  MaxBackoff,    \* maxAcceptBackoff
  Attempts,      \* attempts of the self-test
  None           \* nil

ASSUME BackoffAssumption   == FirstBackoff \in Nat \ {0} /\ MaxBackoff \in Nat /\ FirstBackoff <= MaxBackoff
ASSUME AttemptsAssumption  == Attempts \in Nat \ {0}
ASSUME TransportAssumption == Transports \subseteq {"auto", "h3", "h2"}
ASSUME SelfTestAssumption  == SelfTest \in BOOLEAN /\ "self" \notin Clients
ASSUME NilAssumption       == None \notin {"h3", "h2"}

VARIABLES
  main,           \* where main is
  transport,      \* *transport
  failed,         \* back ends that could not be set up
  backend,        \* proxyClient: None, "h3", "h2"
  backendOpen,    \* it has not been closed
  listener,       \* ln: "none", "open", "closed"
  acceptBackoff,
  ctxDone,
  sigCh,          \* a signal is in the channel
  signalled,      \* a signal has been sent to the process
  closer,         \* "off", "wait", "cancelled", "done"
  test, attempt,  \* the self-test
  conn            \* "off", "queued" in the backlog, "served", "over"

startVars == <<transport, failed, backend>>
testVars  == <<test, attempt>>
vars == <<main, startVars, backendOpen, listener, acceptBackoff, ctxDone, sigCh, signalled,
          closer, testVars, conn>>

Conns == Clients \cup {"self"}

Init ==
  /\ main = "connect" /\ transport \in Transports
  /\ failed = {} /\ backend = None /\ backendOpen = FALSE
  /\ listener = "none" /\ acceptBackoff = 0 /\ ctxDone = FALSE
  /\ sigCh = FALSE /\ signalled = FALSE /\ closer = "off"
  /\ test = "off" /\ attempt = 0 /\ conn = [c \in Conns |-> "off"]

(* A process that has returned from main, called log.Fatal, or been killed. *)
Exited == main \in {"returned", "fatal", "killed"}

-----------------------------------------------------------------------------
(* Start-up.                                                                *)

Choices == IF transport = "auto" THEN {"h3", "h2"} ELSE {transport}

(* The back end to set up next: "auto" turns to h2 only after h3. *)
NextChoice == IF "h3" \in Choices \ failed THEN "h3" ELSE "h2"

ConnectOK ==
  /\ main = "connect"
  /\ backend' = NextChoice /\ backendOpen' = TRUE /\ main' = "listen"
  /\ UNCHANGED <<transport, failed, listener, acceptBackoff, ctxDone, sigCh, signalled, closer, testVars, conn>>

(* The back end and its budget: 10 s for h3 under "auto", 30 s for h2. *)
ConnectFails ==
  /\ main = "connect"
  /\ failed' = failed \cup {NextChoice}
  /\ main' = IF Choices \subseteq failed' THEN "fatal" ELSE "connect"
  /\ UNCHANGED <<transport, backend, backendOpen, listener, acceptBackoff, ctxDone, sigCh, signalled,
                 closer, testVars, conn>>

Listen ==
  /\ main = "listen"
  /\ \/ listener' = "open" /\ main' = "notify"
     \/ main' = "fatal" /\ UNCHANGED listener
  /\ UNCHANGED <<startVars, backendOpen, acceptBackoff, ctxDone, sigCh, signalled, closer, testVars, conn>>

(* signal.Notify: from here on a signal no longer kills the process. *)
Notify ==
  /\ main = "notify" /\ main' = "start"
  /\ UNCHANGED <<startVars, backendOpen, listener, acceptBackoff, ctxDone, sigCh, signalled, closer,
                 testVars, conn>>

(* The self-test and the closer start. *)
Start ==
  /\ main = "start" /\ main' = "accept" /\ closer' = "wait"
  /\ IF SelfTest
       THEN test' = "run" /\ attempt' = 1 /\ conn' = [conn EXCEPT !["self"] = "queued"]
       ELSE UNCHANGED <<testVars, conn>>
  /\ UNCHANGED <<startVars, backendOpen, listener, acceptBackoff, ctxDone, sigCh, signalled>>

-----------------------------------------------------------------------------
(* The accept loop.                                                         *)

Accept(c) ==
  /\ main = "accept" /\ listener = "open" /\ conn[c] = "queued"
  /\ conn' = [conn EXCEPT ![c] = "served"] /\ acceptBackoff' = 0
  /\ UNCHANGED <<main, startVars, backendOpen, listener, ctxDone, sigCh, signalled, closer, testVars>>

(* Accept returns an error: no file descriptor, a client that vanished; or  *)
(* net.ErrClosed.  No deadline is set on ln, so it never times out.         *)
AcceptFails ==
  /\ main = "accept"
  /\ main' \in IF listener = "open" THEN {"transient"} ELSE {"errClosed"}
  /\ UNCHANGED <<startVars, backendOpen, listener, acceptBackoff, ctxDone, sigCh, signalled, closer,
                 testVars, conn>>

(* Which errors end the loop. *)
EndsLoop_Any == TRUE
EndsLoop == ctxDone \/ main = "errClosed"

NextBackoff ==
  IF acceptBackoff = 0 THEN FirstBackoff
  ELSE IF acceptBackoff * 2 > MaxBackoff THEN MaxBackoff ELSE acceptBackoff * 2

HandleError ==
  /\ main \in {"transient", "errClosed"}
  /\ IF EndsLoop THEN main' = "unwind" /\ UNCHANGED acceptBackoff
                 ELSE main' = "backoff" /\ acceptBackoff' = NextBackoff
  /\ UNCHANGED <<startVars, backendOpen, listener, ctxDone, sigCh, signalled, closer, testVars, conn>>

BackoffEnds_CtxOnly ==
  /\ main = "backoff" /\ ctxDone
  /\ main' = "unwind"
  /\ UNCHANGED <<startVars, backendOpen, listener, acceptBackoff, ctxDone, sigCh, signalled, closer,
                 testVars, conn>>
BackoffEnds ==
  /\ main = "backoff"
  /\ main' \in {"accept"} \cup (IF ctxDone THEN {"unwind"} ELSE {})
  /\ UNCHANGED <<startVars, backendOpen, listener, acceptBackoff, ctxDone, sigCh, signalled, closer,
                 testVars, conn>>

(* ln.Close: what is still in the backlog is reset. *)
CloseListener ==
  /\ listener' = "closed"
  /\ conn' = [c \in Conns |-> IF conn[c] = "queued" THEN "over" ELSE conn[c]]

(* The deferred calls, last first: cancel, ln.Close, proxyClient.Close.     *)
(* Handlers are not waited for.                                             *)
Unwind_BackendFirst ==
  /\ \/ /\ main = "unwind" /\ main' = "unwindLn" /\ backendOpen' = FALSE
        /\ UNCHANGED <<listener, ctxDone, conn>>
     \/ /\ main = "unwindLn" /\ main' = "unwindBackend" /\ CloseListener
        /\ UNCHANGED <<backendOpen, ctxDone>>
     \/ /\ main = "unwindBackend" /\ main' = "returned" /\ ctxDone' = TRUE
        /\ UNCHANGED <<backendOpen, listener, conn>>
  /\ UNCHANGED <<startVars, acceptBackoff, sigCh, signalled, closer, testVars>>
Unwind ==
  /\ \/ /\ main = "unwind" /\ main' = "unwindLn" /\ ctxDone' = TRUE
        /\ UNCHANGED <<backendOpen, listener, conn>>
     \/ /\ main = "unwindLn" /\ main' = "unwindBackend" /\ CloseListener
        /\ UNCHANGED <<backendOpen, ctxDone>>
     \/ /\ main = "unwindBackend" /\ main' = "returned" /\ backendOpen' = FALSE
        /\ UNCHANGED <<listener, ctxDone, conn>>
  /\ UNCHANGED <<startVars, acceptBackoff, sigCh, signalled, closer, testVars>>

-----------------------------------------------------------------------------
(* Signals.                                                                 *)

Signal ==
  /\ ~Exited /\ signalled' = TRUE
  /\ IF main \in {"connect", "listen", "notify"}
       THEN main' = "killed" /\ UNCHANGED sigCh
       ELSE sigCh' = TRUE /\ UNCHANGED main
  /\ UNCHANGED <<startVars, backendOpen, listener, acceptBackoff, ctxDone, closer, testVars, conn>>

(* The closer: cancel, then ln.Close, "unblock Accept". *)
CloserCancels ==
  /\ ~Exited /\ closer = "wait" /\ sigCh
  /\ sigCh' = FALSE /\ ctxDone' = TRUE /\ closer' = "cancelled"
  /\ UNCHANGED <<main, startVars, backendOpen, listener, acceptBackoff, signalled, testVars, conn>>

CloserCloses_Not ==
  /\ ~Exited /\ closer = "cancelled" /\ closer' = "done"
  /\ UNCHANGED <<main, startVars, backendOpen, listener, acceptBackoff, ctxDone, sigCh, signalled, testVars, conn>>
CloserCloses ==
  /\ ~Exited /\ closer = "cancelled" /\ closer' = "done"
  /\ CloseListener
  /\ UNCHANGED <<main, startVars, backendOpen, acceptBackoff, ctxDone, sigCh, signalled, testVars>>

-----------------------------------------------------------------------------
(* Clients and handlers.                                                    *)

Connect(c) ==
  /\ ~Exited /\ listener = "open" /\ conn[c] = "off"
  /\ conn' = [conn EXCEPT ![c] = "queued"]
  /\ UNCHANGED <<main, startVars, backendOpen, listener, acceptBackoff, ctxDone, sigCh, signalled, closer, testVars>>

HandlerEnds(c) ==
  /\ ~Exited /\ conn[c] = "served"
  /\ conn' = [conn EXCEPT ![c] = "over"]
  /\ UNCHANGED <<main, startVars, backendOpen, listener, acceptBackoff, ctxDone, sigCh, signalled, closer, testVars>>

-----------------------------------------------------------------------------
(* The self-test.                                                           *)

(* An attempt succeeds only through a handler, and fails within 30 s. *)
TestAttempt ==
  /\ ~Exited /\ test = "run"
  /\ \/ conn["self"] = "served" /\ test' = "passed"
     \/ test' = "pause"
  /\ UNCHANGED <<main, startVars, backendOpen, listener, acceptBackoff, ctxDone, sigCh, signalled,
                 closer, attempt, conn>>

(* The pause, also after the last attempt, then the next one: a connection  *)
(* of its own, refused once the listener is closed.                         *)
TestPause ==
  /\ ~Exited /\ test = "pause"
  /\ \/ ctxDone /\ test' = "stopped" /\ UNCHANGED <<attempt, conn>>
     \/ attempt = Attempts /\ test' = "failed" /\ UNCHANGED <<attempt, conn>>
     \/ /\ attempt < Attempts /\ attempt' = attempt + 1 /\ test' = "run"
        /\ conn' = [conn EXCEPT !["self"] = IF listener = "open" THEN "queued" ELSE "over"]
  /\ UNCHANGED <<main, startVars, backendOpen, listener, acceptBackoff, ctxDone, sigCh, signalled, closer>>

-----------------------------------------------------------------------------
MainStep == \/ ConnectOK \/ ConnectFails \/ Listen \/ Notify \/ Start
            \/ (\E c \in Conns : Accept(c)) \/ AcceptFails \/ HandleError \/ BackoffEnds \/ Unwind

Finished == Exited /\ UNCHANGED vars

Next ==
  \/ MainStep \/ Signal \/ CloserCancels \/ CloserCloses
  \/ (\E c \in Clients : Connect(c)) \/ (\E c \in Conns : HandlerEnds(c))
  \/ TestAttempt \/ TestPause \/ Finished

Spec == Init /\ [][Next]_vars

(* Every step of start-up has its time limit; timers fire and goroutines    *)
(* run; Accept returns at once from a closed listener, and its errors are   *)
(* transient: a connection that waits is accepted sooner or later.  Nothing *)
(* is assumed of clients, handlers or signals.                              *)
Fairness ==
  /\ WF_vars(ConnectOK \/ ConnectFails) /\ WF_vars(Listen \/ Notify \/ Start)
  /\ WF_vars(AcceptFails /\ listener = "closed")
  /\ \A c \in Conns : SF_vars(Accept(c))
  /\ WF_vars(HandleError \/ BackoffEnds) /\ WF_vars(Unwind)
  /\ WF_vars(CloserCancels) /\ WF_vars(CloserCloses)
  /\ WF_vars(TestAttempt) /\ WF_vars(TestPause)

FairSpec == Spec /\ Fairness

-----------------------------------------------------------------------------
(* Properties.                                                              *)

(* Among it the range of the wait: at least 5 ms, at most maxAcceptBackoff. *)
TypeOK ==
  /\ main \in {"connect", "listen", "notify", "start", "accept", "transient", "errClosed", "backoff",
               "unwind", "unwindLn", "unwindBackend", "returned", "fatal", "killed"}
  /\ transport \in Transports /\ failed \subseteq {"h3", "h2"} /\ backend \in {None, "h3", "h2"}
  /\ backendOpen \in BOOLEAN /\ listener \in {"none", "open", "closed"}
  /\ acceptBackoff \in {0} \cup (FirstBackoff..MaxBackoff)
  /\ ctxDone \in BOOLEAN /\ sigCh \in BOOLEAN /\ signalled \in BOOLEAN
  /\ closer \in {"off", "wait", "cancelled", "done"}
  /\ test \in {"off", "run", "pause", "passed", "failed", "stopped"} /\ attempt \in 0..Attempts
  /\ conn \in [Conns -> {"off", "queued", "served", "over"}]

(* "backing off and continuing keeps the proxy alive" (main.go 453-456):    *)
(* once it listens, only a signal ends the process, so that no accept error *)
(* takes it down; the line that ends the loop for a listener "gone and not  *)
(* a shutdown we initiated" (468) is never reached without one.             *)
ServesUntilSignal ==
  main \in {"errClosed", "unwind", "unwindLn", "unwindBackend", "returned"} => signalled

(* The order of a shutdown: handlers are told before their listener goes,   *)
(* and the back end goes last, whichever of main and the closer gets there  *)
(* first, so that no connection is accepted for a back end that is closed.  *)
OrderlyShutdown ==
  /\ listener = "closed" => ctxDone
  /\ backend # None /\ ~backendOpen => listener = "closed"

(* A connection in the backlog is accepted, through any run of accept       *)
(* errors, unless the process is told to stop.                              *)
PendingServed == \A c \in Conns : conn[c] = "queued" ~> (conn[c] # "queued" \/ signalled)

(* A signal ends the process, also one that arrives between Notify and the  *)
(* start of the closer, in a back-off, or twice.                            *)
SignalEnds == signalled ~> Exited
=============================================================================
