--------------------------- MODULE H2ClientProofs ---------------------------
(***************************************************************************)
(* Proofs about H2Client, for any number of bundle identities and edge     *)
(* addresses, whether or not the network stack answers inside Write.       *)
(***************************************************************************)
EXTENDS H2Client, TLAPS

(* How far Close has got, and what it has done by then. *)
CloseInv ==
  /\ closed <=> closer # "off"
  /\ cancelled <=> closer \in {"bundle", "tun", "wait", "done"}
  /\ tunClosed <=> closer \in {"wait", "done"}
  /\ closed => current = None
  /\ closer = "done" => mpc = "exit"

(* The only bundle that can be open is the one maintain has in hand; it is  *)
(* published only while its pumps may run.                                  *)
BundleInv ==
  /\ open \subseteq {mb}
  /\ mpc \in {"join", "backoff", "dial", "exit"} => open = {}
  /\ mpc = "set" => mb \in open /\ mb # closeHold
  /\ current # None => current = mb /\ current \in open /\ mpc \in {"spawn", "run", "clear"}

(* The error in a bundle's failed channel is the outcome of an operation on *)
(* that bundle, since it was dialled; maintain gives up no other.           *)
FailInv ==
  /\ failed \subseteq erred
  /\ mpc = "clear" => cancelled \/ mb \in failed
  /\ opc = "send" => ob # None

Inv == TypeOK /\ CloseInv /\ BundleInv /\ OnePumpSet /\ NoLostWakeup /\ FailInv

(* A client just connected satisfies the invariant. *)
LEMMA InitInv == Init => Inv
<1> SUFFICES ASSUME Init PROVE Inv OBVIOUS
<1>1. TypeOK
  <2>1. closed \in BOOLEAN /\ cancelled \in BOOLEAN /\ tunClosed \in BOOLEAN /\ changed \in BOOLEAN
    BY DEF Init
  <2>2. dialI \in 0..(NAddrs - 1) /\ addrIdx \in 0..(NAddrs - 1) BY AddrsAssumption DEF Init
  <2> QED BY <2>1, <2>2 DEF Init, TypeOK
<1>2. CloseInv /\ BundleInv /\ OnePumpSet /\ NoLostWakeup /\ FailInv
  BY NilAssumption DEF Init, CloseInv, BundleInv, OnePumpSet, NoLostWakeup, FailInv
<1> QED BY <1>1, <1>2 DEF Inv

-----------------------------------------------------------------------------
(* maintain, from the pumps of a bundle to its end. *)
LEMMA SuperviseInv ==
  ASSUME Inv, MSpawn \/ MFailure \/ MClear \/ MClose \/ MJoin
  PROVE  Inv'
<1> USE DEF Inv, connVars, linkVars, pumpVars, outVars
<1>1. CASE MSpawn
  <2>1. /\ inb' \in [Bundles -> {"off", "read", "write", "blocked"}]
        /\ ka' \in [Bundles -> {"off", "tick", "ping"}]
    BY <1>1 DEF MSpawn, TypeOK
  <2>2. TypeOK' BY <1>1, <2>1 DEF MSpawn, TypeOK
  <2>3. CloseInv' /\ BundleInv' BY <1>1 DEF MSpawn, CloseInv, BundleInv
  <2>4. OnePumpSet' BY <1>1 DEF MSpawn, OnePumpSet, TypeOK
  <2>5. NoLostWakeup' /\ FailInv' BY <1>1 DEF MSpawn, NoLostWakeup, FailInv
  <2> QED BY <2>2, <2>3, <2>4, <2>5
<1>2. CASE MFailure
  <2>1. TypeOK' BY <1>2 DEF MFailure, TypeOK
  <2>2. CloseInv' /\ BundleInv' BY <1>2 DEF MFailure, CloseInv, BundleInv
  <2>3. OnePumpSet' BY <1>2 DEF MFailure, OnePumpSet
  <2>4. NoLostWakeup' /\ FailInv' BY <1>2 DEF MFailure, NoLostWakeup, FailInv
  <2> QED BY <2>1, <2>2, <2>3, <2>4
<1>3. CASE MClear
  <2>1. current' = None /\ changed' \in BOOLEAN
    BY <1>3 DEF MClear, SignalChanged, BundleInv, TypeOK
  <2>2. TypeOK' BY <1>3, <2>1 DEF MClear, TypeOK
  <2>3. CloseInv' /\ BundleInv' BY <1>3, <2>1 DEF MClear, CloseInv, BundleInv
  <2>4. OnePumpSet' BY <1>3 DEF MClear, OnePumpSet
  <2>5. NoLostWakeup' BY <1>3, <2>1 DEF MClear, SignalChanged, NoLostWakeup, TypeOK
  <2>6. FailInv' BY <1>3 DEF MClear, FailInv
  <2> QED BY <2>2, <2>3, <2>4, <2>5, <2>6
<1>4. CASE MClose
  <2>1. TypeOK' BY <1>4 DEF MClose, TypeOK
  <2>2. CloseInv' /\ BundleInv' BY <1>4 DEF MClose, CloseInv, BundleInv
  <2>3. OnePumpSet' BY <1>4 DEF MClose, OnePumpSet
  <2>4. NoLostWakeup' /\ FailInv' BY <1>4 DEF MClose, NoLostWakeup, FailInv
  <2> QED BY <2>1, <2>2, <2>3, <2>4
<1>5. CASE MJoin
  <2>1. mpc' \in {"exit", "backoff"} BY <1>5 DEF MJoin
  <2>2. TypeOK' BY <1>5, <2>1 DEF MJoin, TypeOK
  <2>3. CloseInv' /\ BundleInv' BY <1>5, <2>1 DEF MJoin, CloseInv, BundleInv
  <2>4. OnePumpSet' BY <1>5 DEF MJoin, PumpsDone, OnePumpSet
  <2>5. NoLostWakeup' /\ FailInv' BY <1>5, <2>1 DEF MJoin, NoLostWakeup, FailInv
  <2> QED BY <2>2, <2>3, <2>4, <2>5
<1> QED BY <1>1, <1>2, <1>3, <1>4, <1>5

(* maintain, from one bundle to the next. *)
LEMMA RedialInv ==
  ASSUME Inv, MBackoff \/ MDialOK \/ MDialFails \/ MSet
  PROVE  Inv'
<1> USE DEF Inv, connVars, linkVars, pumpVars, outVars
<1>1. CASE MBackoff \/ MDialFails
  <2>1. mpc \in {"backoff", "dial"} /\ mpc' \in {"backoff", "dial", "exit"} /\ dialI' \in 0..(NAddrs - 1)
        /\ UNCHANGED <<connVars, linkVars, pumpVars, mb, addrIdx, outVars>>
    BY <1>1, AddrsAssumption DEF MBackoff, MDialFails, TypeOK
  <2>2. TypeOK' BY <2>1 DEF TypeOK
  <2>3. CloseInv' /\ BundleInv' BY <2>1 DEF CloseInv, BundleInv
  <2>4. OnePumpSet' BY <2>1 DEF OnePumpSet
  <2>5. NoLostWakeup' /\ FailInv' BY <2>1 DEF NoLostWakeup, FailInv
  <2> QED BY <2>2, <2>3, <2>4, <2>5
<1>2. CASE MDialOK
  <2>1. PICK b \in Bundles : /\ Fresh(b) /\ mb' = b
                             /\ open' = open \cup {b} /\ broken' = broken \ {b}
                             /\ failed' = failed \ {b} /\ erred' = erred \ {b}
    BY <1>2 DEF MDialOK
  <2>2. addrIdx' \in 0..(NAddrs - 1)
    <3>1. addrIdx' = (addrIdx + dialI) % NAddrs /\ addrIdx + dialI \in Nat
      BY <1>2, AddrsAssumption DEF MDialOK, TypeOK
    <3> QED BY <3>1, AddrsAssumption
  <2>3. TypeOK' BY <1>2, <2>1, <2>2 DEF MDialOK, TypeOK
  <2>4. CloseInv' BY <1>2 DEF MDialOK, CloseInv
  <2>5. BundleInv' BY <1>2, <2>1 DEF MDialOK, Fresh, BundleInv
  <2>6. OnePumpSet' BY <1>2 DEF MDialOK, OnePumpSet
  <2>7. NoLostWakeup' BY <1>2 DEF MDialOK, NoLostWakeup
  <2>8. FailInv' BY <1>2, <2>1 DEF MDialOK, FailInv
  <2> QED BY <2>3, <2>4, <2>5, <2>6, <2>7, <2>8
<1>3. CASE MSet
  <2>1. current = None BY <1>3 DEF MSet, BundleInv
  <2>2. CASE MaySet
    <3>1. current' = mb /\ SignalChanged /\ mpc' = "spawn" /\ UNCHANGED open BY <1>3, <2>2 DEF MSet
    <3>2. changed' \in BOOLEAN BY <3>1 DEF SignalChanged
    <3>3. TypeOK' BY <1>3, <3>1, <3>2 DEF MSet, TypeOK
    <3>4. CloseInv' /\ BundleInv' BY <1>3, <2>2, <3>1, NilAssumption DEF MSet, MaySet, CloseInv, BundleInv
    <3>5. OnePumpSet' BY <1>3, <3>1 DEF MSet, OnePumpSet
    <3>6. NoLostWakeup' BY <1>3, <3>1 DEF MSet, SignalChanged, NoLostWakeup
    <3>7. FailInv' BY <1>3, <3>1 DEF MSet, FailInv
    <3> QED BY <3>3, <3>4, <3>5, <3>6, <3>7
  <2>3. CASE ~MaySet
    <3>1. open' = open \ {mb} /\ mpc' = "exit" /\ UNCHANGED <<current, changed>> BY <1>3, <2>3 DEF MSet
    <3>2. TypeOK' BY <1>3, <3>1 DEF MSet, TypeOK
    <3>3. CloseInv' /\ BundleInv' BY <1>3, <2>1, <3>1 DEF MSet, CloseInv, BundleInv
    <3>4. OnePumpSet' BY <1>3, <3>1 DEF MSet, OnePumpSet
    <3>5. NoLostWakeup' /\ FailInv' BY <1>3, <3>1 DEF MSet, NoLostWakeup, FailInv
    <3> QED BY <3>2, <3>3, <3>4, <3>5
  <2> QED BY <2>2, <2>3
<1> QED BY <1>1, <1>2, <1>3

-----------------------------------------------------------------------------
(* A pump of b that runs moves or ends; if it reports an error, it is one   *)
(* of b's own operations.                                                   *)
LEMMA PumpInv ==
  ASSUME Inv, NEW b \in Bundles, inb[b] # "off" \/ ka[b] # "off",
         inb' \in [Bundles -> {"off", "read", "write", "blocked"}],
         ka' \in [Bundles -> {"off", "tick", "ping"}],
         \A c \in Bundles \ {b} : inb'[c] = inb[c] /\ ka'[c] = ka[c],
         failed' \in {failed, failed \cup {b}}, erred' \in {erred, erred \cup {b}},
         failed' = failed \/ b \in erred',
         opc' = opc \/ (opc = "read" /\ opc' = "wait"),
         UNCHANGED <<connVars, open, broken, mVars, ob, changed>>
  PROVE  Inv'
<1> USE DEF Inv, connVars, mVars
<1>1. TypeOK' BY DEF TypeOK
<1>2. CloseInv' /\ BundleInv' BY DEF CloseInv, BundleInv
<1>3. OnePumpSet' BY DEF OnePumpSet
<1>4. NoLostWakeup' BY DEF NoLostWakeup
<1>5. FailInv' BY DEF FailInv
<1> QED BY <1>1, <1>2, <1>3, <1>4, <1>5

(* inboundPump, keepalive and the answer a Write hands over. *)
LEMMA PumpsInv ==
  ASSUME Inv, NEW b \in Bundles, Inbound(b) \/ Keepalive(b) \/ OutReadReply(b)
  PROVE  Inv'
<1> USE DEF linkVars, outVars
<1>1. inb \in [Bundles -> {"off", "read", "write", "blocked"}] /\ ka \in [Bundles -> {"off", "tick", "ping"}]
  BY DEF Inv, TypeOK
<1>3. CASE InRead(b) BY <1>1, <1>3, PumpInv DEF InRead, InboundTo
<1>4. CASE InReadFails(b) BY <1>1, <1>4, PumpInv DEF InReadFails, InboundTo, Fail, Errs
<1>5. CASE InWrite(b) BY <1>1, <1>5, PumpInv DEF InWrite, InboundTo
<1>6. CASE InWriteFails(b) BY <1>1, <1>6, PumpInv DEF InWriteFails, InboundTo, Fail, Errs
<1>7. CASE KaTick(b) BY <1>1, <1>7, PumpInv DEF KaTick
<1>8. CASE KaStop(b) BY <1>1, <1>8, PumpInv DEF KaStop
<1>9. CASE KaPing(b) BY <1>1, <1>9, PumpInv DEF KaPing, Fail, Errs
<1>10. CASE OutReadReply(b) BY <1>1, <1>10, PumpInv DEF OutReadReply, InboundTo
<1> QED BY <1>3, <1>4, <1>5, <1>6, <1>7, <1>8, <1>9, <1>10 DEF Inbound, Keepalive

(* outboundPump. *)
LEMMA OutboundInv ==
  ASSUME Inv, Outbound
  PROVE  Inv'
<1> USE DEF Inv, connVars, linkVars, pumpVars, mVars
<1>1. UNCHANGED <<connVars, open, broken, pumpVars, mVars>>
  BY DEF Outbound, OutRead, OutReadFails, OutWait, OutSelect, OutSendOK, OutSendFails
<1>2. CASE OutSelect
  <2>0. changed' \in BOOLEAN /\ opc' \in {"exit", "wait"} BY <1>2 DEF OutSelect
  <2>1. TypeOK' BY <1>1, <1>2, <2>0 DEF OutSelect, TypeOK
  <2>2. CloseInv' /\ BundleInv' BY <1>1 DEF CloseInv, BundleInv
  <2>3. OnePumpSet' BY <1>1 DEF OnePumpSet
  <2>4. NoLostWakeup' /\ FailInv' BY <1>1, <1>2 DEF OutSelect, NoLostWakeup, FailInv
  <2> QED BY <2>1, <2>2, <2>3, <2>4
<1>3. CASE OutSendFails
  <2>1. ob \in Bundles BY <1>3 DEF OutSendFails, FailInv, TypeOK
  <2>2. failed' = failed \cup {ob} /\ erred' = erred \cup {ob} BY <1>3 DEF OutSendFails, Fail, Errs
  <2>3. TypeOK' BY <1>1, <1>3, <2>1, <2>2 DEF OutSendFails, TypeOK
  <2>4. CloseInv' /\ BundleInv' BY <1>1 DEF CloseInv, BundleInv
  <2>5. OnePumpSet' BY <1>1 DEF OnePumpSet
  <2>6. NoLostWakeup' /\ FailInv' BY <1>1, <1>3, <2>2 DEF OutSendFails, NoLostWakeup, FailInv
  <2> QED BY <2>3, <2>4, <2>5, <2>6
<1>4. CASE OutRead \/ OutReadFails \/ OutWait \/ OutSendOK
  <2>1. UNCHANGED <<failed, erred, changed>> /\ ob' \in {ob, current, None}
        /\ opc' \in {"read", "wait", "select", "send", "exit"}
        /\ (opc' = "select" => current = None /\ ~closed) /\ (opc' = "send" => ob' # None)
    BY <1>4 DEF OutRead, OutReadFails, OutWait, OutSendOK
  <2>2. TypeOK' BY <1>1, <2>1 DEF TypeOK
  <2>3. CloseInv' /\ BundleInv' BY <1>1 DEF CloseInv, BundleInv
  <2>4. OnePumpSet' BY <1>1 DEF OnePumpSet
  <2>5. NoLostWakeup' /\ FailInv' BY <1>1, <2>1 DEF NoLostWakeup, FailInv
  <2> QED BY <2>2, <2>3, <2>4, <2>5
<1> QED BY <1>2, <1>3, <1>4 DEF Outbound

(* Close. *)
LEMMA CloseStepInv ==
  ASSUME Inv, Close
  PROVE  Inv'
<1> USE DEF Inv, linkVars, pumpVars, mVars, outVars
<1>1. CASE CloseLock
  <2>1. changed' \in BOOLEAN /\ closed' \in BOOLEAN BY <1>1 DEF CloseLock, SignalChanged
  <2>2. TypeOK' BY <1>1, <2>1 DEF CloseLock, TypeOK
  <2>3. mb # None BY NilAssumption DEF TypeOK
  <2>4. CloseInv' /\ BundleInv' BY <1>1, <2>3 DEF CloseLock, CloseInv, BundleInv
  <2>7. OnePumpSet' BY <1>1 DEF CloseLock, OnePumpSet
  <2>5. NoLostWakeup' BY <1>1 DEF CloseLock, SignalChanged, NoLostWakeup
  <2>6. FailInv' BY <1>1 DEF CloseLock, FailInv
  <2> QED BY <2>2, <2>4, <2>5, <2>6, <2>7
<1>2. CASE CloseCancel
  <2>1. TypeOK' BY <1>2 DEF CloseCancel, TypeOK
  <2>2. CloseInv' /\ BundleInv' BY <1>2 DEF CloseCancel, CloseInv, BundleInv
  <2>3. OnePumpSet' BY <1>2 DEF CloseCancel, OnePumpSet
  <2>4. NoLostWakeup' /\ FailInv' BY <1>2 DEF CloseCancel, NoLostWakeup, FailInv
  <2> QED BY <2>1, <2>2, <2>3, <2>4
<1>3. CASE CloseBundle
  <2>1. TypeOK' BY <1>3 DEF CloseBundle, TypeOK
  <2>2. closed BY <1>3 DEF CloseBundle, CloseInv
  <2>3. CloseInv' BY <1>3 DEF CloseBundle, CloseInv
  <2>4. mb # None BY NilAssumption DEF TypeOK
  <2>5. BundleInv' BY <1>3, <2>2, <2>4 DEF CloseBundle, CloseInv, BundleInv
  <2>6. OnePumpSet' BY <1>3 DEF CloseBundle, OnePumpSet
  <2>7. NoLostWakeup' /\ FailInv' BY <1>3 DEF CloseBundle, NoLostWakeup, FailInv
  <2> QED BY <2>1, <2>3, <2>5, <2>6, <2>7
<1>4. CASE CloseTun \/ CloseWait
  <2>1. TypeOK' BY <1>4 DEF CloseTun, CloseWait, TypeOK
  <2>2. CloseInv' /\ BundleInv' BY <1>4 DEF CloseTun, CloseWait, CloseInv, BundleInv
  <2>3. OnePumpSet' BY <1>4 DEF CloseTun, CloseWait, OnePumpSet
  <2>4. NoLostWakeup' /\ FailInv' BY <1>4 DEF CloseTun, CloseWait, NoLostWakeup, FailInv
  <2> QED BY <2>1, <2>2, <2>3, <2>4
<1> QED BY <1>1, <1>2, <1>3, <1>4 DEF Close

(* Every step of the client keeps the invariant. *)
LEMMA NextInv == Inv /\ [Next]_vars => Inv'
<1> SUFFICES ASSUME Inv, [Next]_vars PROVE Inv' OBVIOUS
<1>1. CASE Maintain BY <1>1, SuperviseInv, RedialInv DEF Maintain
<1>2. CASE Outbound BY <1>2, OutboundInv
<1>3. CASE Close BY <1>3, CloseStepInv
<1>4. CASE UNCHANGED vars
  <2> USE <1>4 DEF Inv, vars, connVars, linkVars, pumpVars, mVars, outVars
  <2>1. TypeOK' BY DEF TypeOK
  <2>2. CloseInv' /\ BundleInv' BY DEF CloseInv, BundleInv
  <2>3. OnePumpSet' BY DEF OnePumpSet
  <2>4. NoLostWakeup' /\ FailInv' BY DEF NoLostWakeup, FailInv
  <2> QED BY <2>1, <2>2, <2>3, <2>4
<1>5. ASSUME NEW b \in Bundles, LinkBreaks(b) PROVE Inv'
  <2> USE <1>5 DEF LinkBreaks, Inv, connVars, pumpVars, mVars, outVars
  <2>1. TypeOK' BY DEF TypeOK
  <2>2. CloseInv' /\ BundleInv' BY DEF CloseInv, BundleInv
  <2>3. OnePumpSet' BY DEF OnePumpSet
  <2>4. NoLostWakeup' /\ FailInv' BY DEF NoLostWakeup, FailInv
  <2> QED BY <2>1, <2>2, <2>3, <2>4
<1>6. ASSUME NEW b \in Bundles, Inbound(b) \/ Keepalive(b) \/ OutReadReply(b) PROVE Inv'
  BY <1>6, PumpsInv
<1> QED BY <1>1, <1>2, <1>3, <1>4, <1>5, <1>6 DEF Next, Finished

(* The invariant holds in every state of every behaviour. *)
LEMMA Invariance == Spec => []Inv
  BY InitInv, NextInv, PTL DEF Spec

-----------------------------------------------------------------------------
(* Every variable of the client keeps its type (the fields of H2Client and  *)
(* the goroutines of h2.go).                                                *)
THEOREM TypeCorrect == Spec => []TypeOK
<1>1. Inv => TypeOK BY DEF Inv
<1> QED BY <1>1, Invariance, PTL

(* The bundle waitCurrent hands to outboundPump is one nobody has closed:   *)
(* clearCurrent and Close take it away first.                               *)
THEOREM CurrentIsAlwaysOpen == Spec => []CurrentIsOpen
<1>1. Inv => CurrentIsOpen BY DEF Inv, CloseInv, BundleInv, CurrentIsOpen
<1> QED BY <1>1, Invariance, PTL

(* maintain joins the pumps of a bundle before it dials the next: at most   *)
(* one set runs, and it is the set of maintain's bundle.                    *)
THEOREM OnePumpSetRuns == Spec => []OnePumpSet
<1>1. Inv => OnePumpSet BY DEF Inv
<1> QED BY <1>1, Invariance, PTL

(* waitCurrent never sleeps through the close of connChanged. *)
THEOREM NoWakeupLost == Spec => []NoLostWakeup
<1>1. Inv => NoLostWakeup BY DEF Inv
<1> QED BY <1>1, Invariance, PTL

(* When Close returns no pump runs and no bundle is open, wherever maintain *)
(* was when it was closed.                                                  *)
THEOREM NothingLeftAfterClose == Spec => []QuietAfterClose
<1>1. Inv => QuietAfterClose BY DEF Inv, CloseInv, BundleInv, OnePumpSet, QuietAfterClose
<1> QED BY <1>1, Invariance, PTL

(* maintain retires the current bundle only for an error of that bundle or  *)
(* because the client closes: no error of another bundle reaches it.        *)
THEOREM HealthyKept == Spec => HealthyIsKept
<1> DEFINE Kept == current # None /\ current' # current => current \in erred \/ closed'
<1>1. ASSUME Inv, [Next]_vars PROVE [Kept]_vars
  <2> SUFFICES ASSUME current # None, current' # current PROVE current \in erred \/ closed'
    OBVIOUS
  <2> USE DEF Inv
  <2>1. MClear \/ MSet \/ CloseLock
    BY <1>1 DEF Next, Maintain, Outbound, Close, Finished, Inbound, Keepalive, MSpawn, MFailure, MClose,
      MJoin, MBackoff, MDialOK, MDialFails, InRead, InReadFails, InWrite, InWriteFails, KaTick, KaStop,
      KaPing, OutReadReply, OutRead, OutReadFails, OutWait, OutSelect, OutSendOK, OutSendFails,
      CloseCancel, CloseBundle, CloseTun, CloseWait, LinkBreaks, vars, connVars
  <2>2. CASE MClear BY <1>1, <2>2 DEF MClear, linkVars, FailInv, BundleInv, CloseInv
  <2>3. CASE MSet BY <1>1, <2>3 DEF MSet, BundleInv
  <2>4. CASE CloseLock BY <2>4 DEF CloseLock
  <2> QED BY <2>1, <2>2, <2>3, <2>4
<1>2. [Kept]_vars => [current # None /\ current' # current => current \in erred \/ closed']_vars OBVIOUS
<1> QED BY <1>1, <1>2, Invariance, PTL DEF Spec, HealthyIsKept

-----------------------------------------------------------------------------
(* Who owns the bundle of a client.                                         *)

(* While its pumps may run, a bundle is published, or Close has taken it;   *)
(* Close takes it once, and maintain leaves for no other reason.            *)
OwnerInv ==
  /\ mpc \in {"spawn", "run", "clear"} => current = mb \/ (closed /\ open \subseteq {closeHold})
  /\ ~closed => closeHold = None
  /\ mpc = "exit" => closed

(* A step of maintain keeps the owner known. *)
LEMMA MaintainOwner ==
  ASSUME Inv, OwnerInv, Maintain
  PROVE  OwnerInv'
<1> USE DEF OwnerInv, connVars, linkVars
<1>1. UNCHANGED <<closed, closeHold>> /\ (cancelled => closed)
  BY DEF Maintain, MSpawn, MFailure, MClear, MClose, MJoin, MBackoff, MDialOK, MDialFails, MSet, Inv, CloseInv
<1>2. CASE MSpawn \/ MFailure BY <1>2 DEF MSpawn, MFailure
<1>3. CASE MClear \/ MClose BY <1>1, <1>3 DEF MClear, MClose
<1>4. CASE MJoin \/ MBackoff \/ MDialFails BY <1>1, <1>4 DEF MJoin, MBackoff, MDialFails
<1>5. CASE MDialOK BY <1>1, <1>5 DEF MDialOK
<1>6. CASE MSet BY <1>1, <1>6 DEF MSet, MaySet
<1> QED BY <1>2, <1>3, <1>4, <1>5, <1>6 DEF Maintain

(* A step of Close keeps the owner known. *)
LEMMA CloseOwner ==
  ASSUME Inv, OwnerInv, Close
  PROVE  OwnerInv'
<1> USE DEF OwnerInv, Inv, linkVars, mVars
<1>1. CASE CloseLock BY <1>1 DEF CloseLock, CloseInv, BundleInv
<1>2. CASE CloseBundle BY <1>2 DEF CloseBundle, CloseInv
<1>3. CASE CloseCancel \/ CloseTun \/ CloseWait BY <1>3 DEF CloseCancel, CloseTun, CloseWait
<1> QED BY <1>1, <1>2, <1>3 DEF Close

(* The pumps, outboundPump and the network change nothing a holder sees. *)
LEMMA PumpsFrame ==
  ASSUME \/ Outbound \/ Finished \/ UNCHANGED vars
         \/ \E b \in Bundles : LinkBreaks(b) \/ Inbound(b) \/ Keepalive(b) \/ OutReadReply(b)
  PROVE  UNCHANGED <<current, closed, closeHold, open, mpc, mb>>
BY DEF Outbound, Inbound, Keepalive, Finished, OutRead, OutReadFails, OutWait, OutSelect, OutSendOK,
       OutSendFails, LinkBreaks, InRead, InReadFails, InWrite, InWriteFails, KaTick, KaStop, KaPing,
       OutReadReply, vars, connVars, linkVars, mVars

(* Every step keeps the owner known. *)
LEMMA NextOwner == Inv /\ OwnerInv /\ [Next]_vars => OwnerInv'
<1> SUFFICES ASSUME Inv, OwnerInv, [Next]_vars PROVE OwnerInv' OBVIOUS
<1>1. CASE Maintain BY <1>1, MaintainOwner
<1>2. CASE Close BY <1>2, CloseOwner
<1>3. CASE UNCHANGED <<current, closed, closeHold, open, mpc, mb>> BY <1>3 DEF OwnerInv
<1> QED BY <1>1, <1>2, <1>3, PumpsFrame DEF Next

(* The owner of the bundle is always known. *)
LEMMA OwnerAlways == Spec => [](Inv /\ OwnerInv)
<1>1. Init => OwnerInv BY DEF Init, OwnerInv
<1> QED BY <1>1, InitInv, NextInv, NextOwner, PTL DEF Spec

(* What ConnHolder sees of the client. *)
HolderView == <<current, closed, InHand, open>>

(* Retiring a bundle and publishing its successor are steps of a holder. *)
LEMMA MaintainHolds ==
  ASSUME Inv, OwnerInv, Maintain
  PROVE  Holder!Next \/ UNCHANGED HolderView
<1> USE DEF Inv, OwnerInv, HolderView, connVars, linkVars
<1>1. mb \in Bundles /\ open \subseteq {mb} /\ None \notin Bundles /\ current \in {mb, None}
  BY NilAssumption DEF TypeOK, BundleInv
<1>2. CASE MSpawn \/ MFailure \/ MJoin \/ MBackoff \/ MDialFails
  <2>1. mpc \notin {"set", "close"} /\ mpc' \notin {"set", "close"}
        /\ UNCHANGED <<current, closed, closeHold, open, mb>>
    BY <1>2 DEF MSpawn, MFailure, MJoin, MBackoff, MDialFails
  <2> QED BY <2>1 DEF InHand
<1>3. CASE MClear
  <2>1. mpc = "clear" /\ mpc' = "close" /\ UNCHANGED <<closed, closeHold, open, mb>> BY <1>3 DEF MClear
  <2>2. InHand' = open BY <1>1, <2>1 DEF InHand
  <2>3. CASE current = mb
    <3>1. current' = None /\ open = {mb} BY <1>1, <1>3, <2>3 DEF MClear, BundleInv
    <3>2. InHand \cup ({current} \ {None}) = {mb} BY <1>1, <2>3, <3>1 DEF InHand
    <3>3. Holder!Withdraw BY <1>1, <2>1, <2>2, <2>3, <3>1, <3>2 DEF Holder!Withdraw, Holder!Withdrawn
    <3> QED BY <3>3 DEF Holder!Next
  <2>4. CASE current # mb
    <3>1. current' = current /\ open \subseteq {closeHold} BY <1>3, <2>1, <2>4 DEF MClear
    <3>2. InHand = open BY <2>1, <3>1 DEF InHand
    <3> QED BY <2>1, <2>2, <3>1, <3>2
  <2> QED BY <2>3, <2>4
<1>4. CASE MClose
  <2>1. mpc = "close" /\ open' = {} /\ UNCHANGED <<current, closed>> BY <1>1, <1>4 DEF MClose
  <2>2. InHand = open /\ InHand' = {} BY <1>1, <2>1 DEF InHand
  <2>3. CASE open = {} BY <2>1, <2>2, <2>3
  <2>4. CASE open = {mb}
    <3>1. Holder!Discard(mb) BY <2>1, <2>2, <2>4 DEF Holder!Discard
    <3> QED BY <1>1, <3>1 DEF Holder!Next
  <2> QED BY <1>1, <2>3, <2>4
<1>5. CASE MDialOK
  <2>1. PICK b \in Bundles : Fresh(b) /\ mb' = b /\ open' = open \cup {b} BY <1>5 DEF MDialOK
  <2>2. mpc' = "set" /\ open = {} /\ UNCHANGED <<current, closed, closeHold>>
    BY <1>5 DEF MDialOK, BundleInv
  <2>3. InHand = {} /\ InHand' = {b} BY <2>1, <2>2 DEF InHand
  <2>4. Holder!Dial(b) BY <2>1, <2>2, <2>3 DEF Holder!Dial
  <2> QED BY <2>4 DEF Holder!Next
<1>6. CASE MSet
  <2>1. mpc = "set" /\ current = None /\ open = {mb} /\ mb # closeHold /\ UNCHANGED <<closed, closeHold, mb>>
    BY <1>1, <1>6 DEF MSet, BundleInv
  <2>2. InHand = {mb} BY <2>1 DEF InHand
  <2>3. CASE MaySet
    <3>1. current' = mb /\ mpc' = "spawn" /\ open' = open /\ ~closed BY <1>6, <2>3 DEF MSet, MaySet
    <3>2. InHand' = {} BY <2>1, <3>1 DEF InHand
    <3>3. Holder!Publish(mb) BY <2>1, <2>2, <3>1, <3>2 DEF Holder!Publish, Holder!Withdrawn
    <3> QED BY <1>1, <3>3 DEF Holder!Next
  <2>4. CASE ~MaySet
    <3>1. open' = {} /\ current' = current BY <1>6, <2>1, <2>4 DEF MSet
    <3>2. InHand' = {} BY <3>1 DEF InHand
    <3>3. Holder!Discard(mb) BY <2>1, <2>2, <3>1, <3>2 DEF Holder!Discard
    <3> QED BY <1>1, <3>3 DEF Holder!Next
  <2> QED BY <2>3, <2>4
<1> QED BY <1>2, <1>3, <1>4, <1>5, <1>6 DEF Maintain

(* Close takes the bundle and closes it, as a holder does. *)
LEMMA CloseHolds ==
  ASSUME Inv, OwnerInv, Close
  PROVE  Holder!Next \/ UNCHANGED HolderView
<1> USE DEF Inv, OwnerInv, HolderView, linkVars, mVars
<1>1. open \subseteq Bundles /\ None \notin Bundles /\ closeHold \in Bundles \cup {None}
  BY NilAssumption DEF TypeOK
<1>2. CASE CloseLock
  <2>1. /\ ~closed /\ closed' = TRUE /\ closeHold = None /\ closeHold' = current /\ current' = None
        /\ UNCHANGED <<open, mpc, mb>>
    BY <1>2 DEF CloseLock, CloseInv
  <2>2. current # None => current \in open BY DEF BundleInv
  <2>3. InHand' = InHand \cup ({current} \ {None}) BY <1>1, <2>1, <2>2 DEF InHand
  <2>4. Holder!Shut BY <2>1, <2>3 DEF Holder!Shut, Holder!Withdrawn
  <2> QED BY <2>4 DEF Holder!Next
<1>3. CASE CloseBundle
  <2>1. /\ open' = open \ {closeHold} /\ closeHold' = None
        /\ UNCHANGED <<current, closed, mpc, mb>>
    BY <1>3 DEF CloseBundle
  <2>2. InHand' = InHand \ {closeHold} BY <1>1, <2>1 DEF InHand
  <2>3. CASE closeHold \in open
    <3>1. Holder!Discard(closeHold) BY <2>1, <2>2, <2>3 DEF Holder!Discard, InHand
    <3> QED BY <1>1, <2>3, <3>1 DEF Holder!Next
  <2>4. CASE closeHold \notin open BY <2>1, <2>2, <2>4 DEF InHand
  <2> QED BY <2>3, <2>4
<1>4. CASE CloseCancel \/ CloseTun \/ CloseWait
  BY <1>4 DEF CloseCancel, CloseTun, CloseWait, InHand
<1> QED BY <1>2, <1>3, <1>4 DEF Close

(* The HTTP/2 client implements ConnHolder: one connection handed out, each *)
(* other open one owed to maintain or Close, none handed out once Close has *)
(* run (setCurrent, clearCurrent, Close).                                   *)
THEOREM HoldsOne == Spec => HoldsOneConnection
<1>1. Init => Holder!Init
  BY NilAssumption DEF Init, Holder!Init, InHand
<1>2. Inv /\ OwnerInv /\ [Next]_vars => [Holder!Next]_(<<current, closed, InHand, open>>)
  <2> SUFFICES ASSUME Inv, OwnerInv, [Next]_vars PROVE Holder!Next \/ UNCHANGED HolderView
    BY DEF HolderView
  <2>1. CASE UNCHANGED <<current, closed, closeHold, open, mpc, mb>> BY <2>1 DEF HolderView, InHand
  <2> QED BY <2>1, MaintainHolds, CloseHolds, PumpsFrame DEF Next
<1> QED BY <1>1, <1>2, OwnerAlways, PTL DEF Spec, HoldsOneConnection, Holder!Spec, Holder!vars

(* Whom the goroutines of an open client wait for.                          *)

(* outboundPump asleep in waitCurrent is waiting for maintain, which is on  *)
(* its way to publish a bundle: closing the old one, joining its pumps, or  *)
(* dialling.                                                                *)
AwaitsMaintain ==
  opc = "select" /\ ~changed => mpc \in {"close", "join", "backoff", "dial", "set"}

(* maintain asleep in bundleWG.Wait is waiting for pumps of a bundle it has *)
(* closed, whose reads have failed and whose PING has been told to stop.    *)
JoinsClosed == mpc = "join" => mb \notin open

(* Nobody sleeps waiting for somebody who has gone: outboundPump for        *)
(* maintain, maintain for the pumps of a closed bundle.                     *)
THEOREM NobodyAwaitsTheGone == Spec => [](AwaitsMaintain /\ JoinsClosed)
<1>1. Inv /\ OwnerInv => AwaitsMaintain
  <2> SUFFICES ASSUME Inv, OwnerInv, opc = "select", ~changed
               PROVE  mpc \in {"close", "join", "backoff", "dial", "set"}
    BY DEF AwaitsMaintain
  <2>1. current = None /\ ~closed /\ mb # None BY NilAssumption DEF Inv, NoLostWakeup, TypeOK
  <2>2. mpc \notin {"spawn", "run", "clear", "exit"} BY <2>1 DEF OwnerInv
  <2> QED BY <2>2 DEF Inv, TypeOK
<1>2. Inv => JoinsClosed BY DEF Inv, BundleInv, JoinsClosed
<1> QED BY <1>1, <1>2, OwnerAlways, PTL
=============================================================================
