----------------------------- MODULE ProxyProofs -----------------------------
(***************************************************************************)
(* Proofs about Proxy, for any number of clients, any back-off limits and  *)
(* any number of self-test attempts.                                       *)
(***************************************************************************)
EXTENDS Proxy, TLAPS

(* How a shutdown spreads: from the signal to the context, from there to    *)
(* the listener, and from the accept loop to the deferred calls.            *)
StopInv ==
  /\ sigCh \/ ctxDone => signalled
  /\ listener = "closed" \/ closer \in {"cancelled", "done"} => ctxDone
  /\ main = "errClosed" => listener = "closed"
  /\ main \in {"unwind", "unwindLn", "unwindBackend", "returned"} => ctxDone
  /\ main \in {"unwindBackend", "returned"} => listener = "closed"

(* What start-up has put in place by the time main gets on. *)
StartInv ==
  /\ main = "connect" => backend = None
  /\ main \in {"connect", "listen", "notify", "start"} => closer = "off"
  /\ main \in {"connect", "listen"} => listener = "none"
  /\ main \notin {"connect", "listen", "fatal", "killed"} => listener # "none"
  /\ backend # None /\ ~backendOpen => listener = "closed"

Inv == TypeOK /\ StopInv /\ StartInv

(* The back end tried next is one of the two. *)
LEMMA ChoiceType == NextChoice \in {"h3", "h2"}
BY DEF NextChoice

(* Doubling and capping stay in range (main.go 473-480). *)
LEMMA BackoffType ==
  ASSUME TypeOK
  PROVE  NextBackoff \in FirstBackoff..MaxBackoff
<1>1. acceptBackoff \in Nat /\ (acceptBackoff = 0 \/ acceptBackoff >= FirstBackoff)
  BY BackoffAssumption DEF TypeOK
<1> QED BY <1>1, BackoffAssumption DEF NextBackoff

(* A process that has loaded its registration satisfies the invariant. *)
LEMMA InitInv == Init => Inv
<1> SUFFICES ASSUME Init PROVE Inv OBVIOUS
<1>1. TypeOK
  <2>1. main = "connect" /\ listener = "none" /\ closer = "off" /\ test = "off" BY DEF Init
  <2>2. conn \in [Conns -> {"off", "queued", "served", "over"}] BY DEF Init
  <2>3. transport \in Transports /\ failed \subseteq {"h3", "h2"} /\ backend \in {None, "h3", "h2"}
    BY DEF Init
  <2>4. backendOpen \in BOOLEAN /\ ctxDone \in BOOLEAN /\ sigCh \in BOOLEAN /\ signalled \in BOOLEAN
    BY DEF Init
  <2>5. attempt \in 0..Attempts /\ acceptBackoff \in {0} \cup (FirstBackoff..MaxBackoff)
    BY BackoffAssumption, AttemptsAssumption DEF Init
  <2> QED BY <2>1, <2>2, <2>3, <2>4, <2>5 DEF TypeOK
<1>2. StopInv BY DEF Init, StopInv
<1>3. StartInv BY DEF Init, StartInv
<1> QED BY <1>1, <1>2, <1>3 DEF Inv

-----------------------------------------------------------------------------
(* One step per action.                                                     *)

(* From the first dial to the start of the goroutines. *)
LEMMA StartUpInv ==
  ASSUME Inv, ConnectOK \/ ConnectFails \/ Listen \/ Notify \/ Start
  PROVE  Inv'
<1> USE DEF Inv
<1>1. CASE ConnectOK
  BY <1>1, ChoiceType, NilAssumption DEF ConnectOK, testVars, TypeOK, StopInv, StartInv
<1>2. CASE ConnectFails
  BY <1>2, ChoiceType DEF ConnectFails, testVars, TypeOK, StopInv, StartInv
<1>3. CASE Listen
  <2>1. TypeOK' BY <1>3 DEF Listen, startVars, testVars, TypeOK
  <2>2. StopInv' BY <1>3 DEF Listen, startVars, testVars, TypeOK, StopInv
  <2>3. StartInv' BY <1>3 DEF Listen, startVars, testVars, TypeOK, StartInv
  <2> QED BY <2>1, <2>2, <2>3
<1>4. CASE Notify BY <1>4 DEF Notify, startVars, testVars, TypeOK, StopInv, StartInv
<1>5. CASE Start
  <2>1. attempt' \in 0..Attempts /\ conn' \in [Conns -> {"off", "queued", "served", "over"}]
        /\ test' \in {"off", "run", "pause", "passed", "failed", "stopped"}
    BY <1>5, AttemptsAssumption, SelfTestAssumption DEF Start, testVars, TypeOK
  <2> QED BY <1>5, <2>1 DEF Start, startVars, TypeOK, StopInv, StartInv
<1> QED BY <1>1, <1>2, <1>3, <1>4, <1>5

(* Closing the listener resets its backlog and nothing else. *)
LEMMA CloseListenerType ==
  ASSUME TypeOK, CloseListener
  PROVE  listener' = "closed" /\ conn' \in [Conns -> {"off", "queued", "served", "over"}]
BY DEF TypeOK, CloseListener

(* The accept loop. *)
LEMMA LoopInv ==
  ASSUME Inv, (\E c \in Conns : Accept(c)) \/ AcceptFails \/ HandleError \/ BackoffEnds
  PROVE  Inv'
<1> USE DEF Inv
<1>1. ASSUME NEW c \in Conns, Accept(c) PROVE Inv'
  BY <1>1 DEF Accept, startVars, testVars, TypeOK, StopInv, StartInv
<1>2. CASE AcceptFails
  BY <1>2 DEF AcceptFails, startVars, testVars, TypeOK, StopInv, StartInv
<1>3. CASE HandleError
  <2>1. EndsLoop => ctxDone BY DEF EndsLoop, StopInv
  <2>2. acceptBackoff' \in {0} \cup (FirstBackoff..MaxBackoff)
    BY <1>3, BackoffType DEF HandleError, TypeOK
  <2> QED BY <1>3, <2>1, <2>2 DEF HandleError, startVars, testVars, TypeOK, StopInv, StartInv
<1>4. CASE BackoffEnds
  BY <1>4 DEF BackoffEnds, startVars, testVars, TypeOK, StopInv, StartInv
<1> QED BY <1>1, <1>2, <1>3, <1>4

(* The deferred calls. *)
LEMMA UnwindInv ==
  ASSUME Inv, Unwind
  PROVE  Inv'
<1> USE DEF Inv
<1>1. CASE main = "unwind"
  BY <1>1 DEF Unwind, startVars, testVars, TypeOK, StopInv, StartInv
<1>2. CASE main = "unwindLn"
  <2>1. CloseListener BY <1>2 DEF Unwind
  <2> QED BY <1>2, <2>1, CloseListenerType DEF Unwind, startVars, testVars, TypeOK, StopInv, StartInv
<1>3. CASE main = "unwindBackend"
  BY <1>3 DEF Unwind, startVars, testVars, TypeOK, StopInv, StartInv
<1> QED BY <1>1, <1>2, <1>3 DEF Unwind

(* The signal and the goroutine that waits for it. *)
LEMMA SignalInv ==
  ASSUME Inv, Signal \/ CloserCancels \/ CloserCloses
  PROVE  Inv'
<1> USE DEF Inv
<1>1. CASE Signal
  <2>1. TypeOK'
    <3>1. sigCh' \in BOOLEAN /\ signalled' \in BOOLEAN /\ ctxDone' \in BOOLEAN
      BY <1>1 DEF Signal, Exited, startVars, testVars, TypeOK
    <3> QED BY <1>1, <3>1 DEF Signal, Exited, startVars, testVars, TypeOK
  <2>2. StopInv' BY <1>1 DEF Signal, Exited, startVars, testVars, TypeOK, StopInv
  <2>3. StartInv' BY <1>1 DEF Signal, Exited, startVars, testVars, TypeOK, StartInv
  <2> QED BY <2>1, <2>2, <2>3
<1>2. CASE CloserCancels
  <2>1. TypeOK'
    <3>1. sigCh' \in BOOLEAN /\ signalled' \in BOOLEAN /\ ctxDone' \in BOOLEAN
      BY <1>2 DEF CloserCancels, Exited, startVars, testVars, TypeOK
    <3> QED BY <1>2, <3>1 DEF CloserCancels, Exited, startVars, testVars, TypeOK
  <2>2. StopInv' BY <1>2 DEF CloserCancels, Exited, startVars, testVars, TypeOK, StopInv
  <2>3. StartInv' BY <1>2 DEF CloserCancels, Exited, startVars, testVars, TypeOK, StartInv
  <2> QED BY <2>1, <2>2, <2>3
<1>3. CASE CloserCloses
  BY <1>3, CloseListenerType DEF CloserCloses, startVars, testVars, TypeOK, StopInv, StartInv
<1> QED BY <1>1, <1>2, <1>3

(* Clients, handlers and the self-test. *)
LEMMA ClientInv ==
  ASSUME Inv, (\E c \in Conns : Connect(c) \/ HandlerEnds(c)) \/ TestAttempt \/ TestPause
  PROVE  Inv'
<1> USE DEF Inv
<1>1. ASSUME NEW c \in Conns, Connect(c) \/ HandlerEnds(c) PROVE Inv'
  <2>1. TypeOK'
    <3>1. conn' \in [Conns -> {"off", "queued", "served", "over"}] BY <1>1 DEF Connect, HandlerEnds, TypeOK
    <3>2. CASE Connect(c) BY <3>1, <3>2 DEF Connect, startVars, testVars, TypeOK
    <3>3. CASE HandlerEnds(c) BY <3>1, <3>3 DEF HandlerEnds, startVars, testVars, TypeOK
    <3> QED BY <1>1, <3>2, <3>3
  <2> QED BY <1>1, <2>1 DEF Connect, HandlerEnds, startVars, testVars, StopInv, StartInv
<1>2. CASE TestAttempt BY <1>2 DEF TestAttempt, startVars, TypeOK, StopInv, StartInv
<1>3. CASE TestPause
  <2>1. attempt' \in 0..Attempts /\ conn' \in [Conns -> {"off", "queued", "served", "over"}]
    BY <1>3, AttemptsAssumption DEF TestPause, TypeOK
  <2> QED BY <1>3, <2>1 DEF TestPause, startVars, TypeOK, StopInv, StartInv
<1> QED BY <1>1, <1>2, <1>3

(* Every step keeps the invariant. *)
LEMMA NextInv == Inv /\ [Next]_vars => Inv'
<1> SUFFICES ASSUME Inv, [Next]_vars PROVE Inv' OBVIOUS
<1>1. CASE UNCHANGED vars
  BY <1>1 DEF vars, startVars, testVars, Inv, TypeOK, StopInv, StartInv
<1>2. ASSUME NEW c \in Clients, Connect(c) PROVE Inv' BY <1>2, ClientInv DEF Conns
<1> QED BY <1>1, <1>2, StartUpInv, LoopInv, UnwindInv, SignalInv, ClientInv DEF Next, MainStep, Finished

-----------------------------------------------------------------------------
(* Every variable keeps its type; the accept back-off stays between its     *)
(* first value and maxAcceptBackoff (main.go 473-480), and the self-test    *)
(* makes no attempt too many.                                               *)
THEOREM TypeCorrect == Spec => []TypeOK
<1>1. Inv => TypeOK BY DEF Inv
<1> QED BY InitInv, NextInv, <1>1, PTL DEF Spec

(* Once it listens, only a signal ends the process: no accept error does    *)
(* (main.go 453-488).                                                       *)
THEOREM OnlySignalsStop == Spec => []ServesUntilSignal
<1>1. Inv => ServesUntilSignal BY DEF Inv, StopInv, ServesUntilSignal
<1> QED BY InitInv, NextInv, <1>1, PTL DEF Spec

(* Context, listener, back end: they go in this order, whether main or the  *)
(* closer gets there first (main.go 432-446 and the deferred calls).        *)
THEOREM ShutdownIsOrderly == Spec => []OrderlyShutdown
<1>1. Inv => OrderlyShutdown BY DEF Inv, StopInv, StartInv, OrderlyShutdown
<1> QED BY InitInv, NextInv, <1>1, PTL DEF Spec

-----------------------------------------------------------------------------
(* The transport that serves is the one that was asked for: -transport h3   *)
(* or h2 never falls back, auto turns to h2 only when h3 could not be set   *)
(* up, and start-up does not go on without a choice that has not failed.    *)
(* From then until main returns the back end stays open, and nothing is     *)
(* served before there is one (main.go 364-396).                            *)
ServesAsAsked ==
  /\ failed \subseteq Choices
  /\ main = "connect" => ~(Choices \subseteq failed)
  /\ backend # None => backend \in Choices \ failed
  /\ backend = "h2" /\ transport = "auto" => failed = {"h3"}
  /\ main \in {"listen", "notify", "start", "accept", "transient", "errClosed", "backoff",
               "unwind", "unwindLn", "unwindBackend"} => backend # None /\ backendOpen
  /\ main \in {"connect", "listen", "notify"} => \A c \in Conns : conn[c] # "served"

(* The back end tried next is one of those left. *)
LEMMA NextChoiceLeft ==
  ASSUME TypeOK, ~(Choices \subseteq failed)
  PROVE  NextChoice \in Choices \ failed
BY TransportAssumption DEF NextChoice, Choices, TypeOK

(* Every step keeps it. *)
LEMMA NextAsked == Inv /\ ServesAsAsked /\ [Next]_vars => ServesAsAsked'
<1> SUFFICES ASSUME Inv, ServesAsAsked, [Next]_vars PROVE ServesAsAsked' OBVIOUS
<1> USE DEF startVars, testVars
<1>1. TypeOK /\ StartInv BY DEF Inv
<1>2. CASE ConnectOK
  <2>1. NextChoice \in Choices \ failed BY <1>1, <1>2, NextChoiceLeft DEF ConnectOK, ServesAsAsked
  <2>2. NextChoice = "h2" /\ transport = "auto" => failed = {"h3"}
    BY <1>1, <2>1 DEF NextChoice, Choices, TypeOK
  <2>3. NextChoice # None BY <2>1, ChoiceType, NilAssumption
  <2> QED BY <1>2, <2>1, <2>2, <2>3 DEF ConnectOK, ServesAsAsked, Choices
<1>3. CASE ConnectFails
  <2>1. NextChoice \in Choices \ failed BY <1>1, <1>3, NextChoiceLeft DEF ConnectFails, ServesAsAsked
  <2>2. backend = None BY <1>1, <1>3 DEF ConnectFails, StartInv
  <2>3. backend # "h2" BY <2>2, NilAssumption
  <2>4. Choices' = Choices BY <1>3 DEF ConnectFails, Choices
  <2> QED BY <1>3, <2>1, <2>2, <2>3, <2>4 DEF ConnectFails, ServesAsAsked
<1>4. CASE ~ConnectOK /\ ~ConnectFails
  <2>1. UNCHANGED <<transport, failed, backend>> /\ (main' = "connect" => main = "connect")
    BY <1>4 DEF Next, MainStep, Listen, Notify, Start, Accept, AcceptFails, HandleError, BackoffEnds, Unwind,
                Signal, CloserCancels, CloserCloses, Connect, HandlerEnds, TestAttempt, TestPause, Finished, vars
  <2>2. main' \in {"listen", "notify", "start", "accept", "transient", "errClosed", "backoff",
                   "unwind", "unwindLn", "unwindBackend"} => main \in {"listen", "notify", "start", "accept",
                   "transient", "errClosed", "backoff", "unwind", "unwindLn", "unwindBackend"}
                   /\ backendOpen' = backendOpen
    BY <1>1, <1>4 DEF Next, MainStep, Listen, Notify, Start, Accept, AcceptFails, HandleError, BackoffEnds,
                Unwind, Signal, CloserCancels, CloserCloses, Connect, HandlerEnds, TestAttempt, TestPause,
                Finished, vars, TypeOK
  <2>3. ASSUME main' \in {"connect", "listen", "notify"}, NEW c \in Conns PROVE conn'[c] # "served"
    <3>1. main \in {"connect", "listen", "notify"}
      BY <1>4, <2>3 DEF Next, MainStep, Listen, Notify, Start, Accept, AcceptFails, HandleError, BackoffEnds,
                Unwind, Signal, CloserCancels, CloserCloses, Connect, HandlerEnds, TestAttempt, TestPause,
                Finished, vars
    <3>2. conn[c] # "served" BY <3>1 DEF ServesAsAsked
    <3>3. conn \in [Conns -> {"off", "queued", "served", "over"}] BY <1>1 DEF TypeOK
    <3> QED BY <1>4, <3>1, <3>2, <3>3
         DEF Next, MainStep, Listen, Notify, Start, Accept, AcceptFails, HandleError, BackoffEnds, Unwind,
             Signal, CloserCancels, CloserCloses, CloseListener, Connect, HandlerEnds, TestAttempt, TestPause,
             Finished, vars, Conns
  <2>4. Choices' = Choices BY <2>1 DEF Choices
  <2> QED BY <2>1, <2>2, <2>3, <2>4 DEF ServesAsAsked
<1> QED BY <1>2, <1>3, <1>4

(* The proxy serves over the transport that was asked for, and over none    *)
(* that failed.                                                             *)
THEOREM ServesTheTransportAsked == Spec => []ServesAsAsked
<1>1. Init => ServesAsAsked
  <2> SUFFICES ASSUME Init PROVE ServesAsAsked OBVIOUS
  <2>1. Choices # {} /\ failed = {} /\ backend = None BY DEF Init, Choices
  <2>2. backend # "h2" BY <2>1, NilAssumption
  <2> QED BY <2>1, <2>2 DEF Init, ServesAsAsked
<1> QED BY <1>1, InitInv, NextInv, NextAsked, PTL DEF Spec
=============================================================================
