------------------------ MODULE UdpAssociationProofs ------------------------
(***************************************************************************)
(* Proofs about UdpAssociation, for any set of remote sockets (one in      *)
(* HTTP/3, one per address family in HTTP/2), any senders and any idle     *)
(* time.                                                                   *)
(***************************************************************************)
EXTENDS UdpAssociation, TLAPS

(* Nothing runs before the reply; then all sockets are there. *)
SetupInv ==
  /\ pc \in {"bind", "reply"} => Joined /\ watcher = "off" /\ control = "off" /\ ~stop
  /\ pc = "reply" => sockets = Sockets

(* Sockets go only with stop, a goroutine ends only with stop, and whoever  *)
(* outlives the handler finds that stop has been called.                    *)
StopInv ==
  /\ pc = "relay" /\ ~stop => sockets = Sockets
  /\ pc = "relay" /\ up = "off" => stop
  /\ pc = "done" /\ (control = "read" \/ watcher = "wait") => stop

(* conn is closed under an association only for ctx. *)
ConnInv == pc # "done" => connOpen \/ ctxDone

Inv == TypeOK /\ SetupInv /\ StopInv /\ ConnInv /\ EndsClean /\ ServesOnePeer

(* An association that has not begun satisfies the invariant. *)
LEMMA InitInv == Init => Inv
<1> SUFFICES ASSUME Init PROVE Inv OBVIOUS
<1>1. TypeOK
  <2>1. left \in [Sockets -> 0..IdleTicks] /\ quiet \in 0..IdleTicks BY IdleAssumption DEF Init
  <2>2. stop \in BOOLEAN /\ ctxDone \in BOOLEAN /\ hungUp \in BOOLEAN /\ connOpen \in BOOLEAN BY DEF Init
  <2> QED BY <2>1, <2>2 DEF Init, TypeOK, PartsOK
<1>2. SetupInv /\ StopInv /\ ConnInv /\ EndsClean /\ ServesOnePeer
  BY DEF Init, SetupInv, StopInv, ConnInv, EndsClean, ServesOnePeer, Joined
<1> QED BY <1>1, <1>2 DEF Inv

(* Shutdown: what stop closes. *)
LEMMA ShutdownType ==
  ASSUME TypeOK, Shutdown
  PROVE  stop' = TRUE /\ sockets' \subseteq sockets /\ sockets' \subseteq Sockets
BY DEF TypeOK, PartsOK, Shutdown

(* A new read deadline is in range. *)
LEMMA RearmType ==
  ASSUME TypeOK, NEW s \in Sockets, Rearm(s)
  PROVE  left' \in [Sockets -> 0..IdleTicks]
BY IdleAssumption DEF TypeOK, PartsOK, Rearm

-----------------------------------------------------------------------------
(* The client hangs up, the process stops, conn is closed, time passes. *)
LEMMA WorldInv ==
  ASSUME Inv, HangUp \/ Cancel \/ CloseConn \/ Tick
  PROVE  Inv'
<1> USE DEF Inv, taskVars, worldVars, timeVars
<1>1. CASE HangUp
  <2>1. TypeOK' BY <1>1 DEF HangUp, TypeOK, PartsOK
  <2> QED BY <1>1, <2>1 DEF HangUp, SetupInv, StopInv, ConnInv, EndsClean, ServesOnePeer, Joined
<1>2. CASE Cancel
  <2>1. TypeOK' BY <1>2 DEF Cancel, TypeOK, PartsOK
  <2> QED BY <1>2, <2>1 DEF Cancel, SetupInv, StopInv, ConnInv, EndsClean, ServesOnePeer, Joined
<1>3. CASE CloseConn
  <2>1. TypeOK' BY <1>3 DEF CloseConn, TypeOK, PartsOK
  <2> QED BY <1>3, <2>1 DEF CloseConn, SetupInv, StopInv, ConnInv, EndsClean, ServesOnePeer, Joined
<1>4. CASE Tick
  <2>1. left' \in [Sockets -> 0..IdleTicks] /\ quiet' \in 0..IdleTicks
    BY <1>4, IdleAssumption DEF Tick, TypeOK, PartsOK
  <2>2. TypeOK' BY <1>4, <2>1 DEF Tick, TypeOK, PartsOK
  <2> QED BY <1>4, <2>2 DEF Tick, SetupInv, StopInv, ConnInv, EndsClean, ServesOnePeer, Joined
<1> QED BY <1>1, <1>2, <1>3, <1>4

(* The handler: sockets, reply, join. *)
LEMMA HandlerInv ==
  ASSUME Inv, Bind \/ Reply \/ Join
  PROVE  Inv'
<1> USE DEF Inv, taskVars, worldVars, timeVars
<1>1. CASE Bind
  <2>1. sockets' \subseteq Sockets /\ pc' \in {"bind", "reply", "done"} /\ connOpen' \in BOOLEAN
    BY <1>1 DEF Bind, Return, TypeOK, PartsOK, Sockets
  <2>2. TypeOK' BY <1>1, <2>1 DEF Bind, TypeOK, PartsOK
  <2>3. SetupInv' /\ StopInv' BY <1>1, <2>1 DEF Bind, Return, SetupInv, StopInv, Joined
  <2>4. ConnInv' /\ EndsClean' /\ ServesOnePeer'
    BY <1>1 DEF Bind, Return, SetupInv, ConnInv, EndsClean, ServesOnePeer, Joined
  <2> QED BY <2>2, <2>3, <2>4
<1>2. CASE Reply
  <2>1. down' \in [Remotes -> {"off", "read", "write"}] /\ connOpen' \in BOOLEAN /\ pc' \in {"relay", "done"}
    BY <1>2 DEF Reply, Return, TypeOK, PartsOK
  <2>2. TypeOK' BY <1>2, <2>1 DEF Reply, Return, TypeOK, PartsOK
  <2>3. SetupInv' /\ StopInv' BY <1>2, <2>1 DEF Reply, Return, SetupInv, StopInv, Joined
  <2>4. ConnInv' /\ EndsClean' /\ ServesOnePeer'
    BY <1>2 DEF Reply, Return, SetupInv, ConnInv, EndsClean, ServesOnePeer, Joined
  <2> QED BY <2>2, <2>3, <2>4
<1>3. CASE Join
  <2>1. TypeOK' BY <1>3 DEF Join, Return, TypeOK, PartsOK
  <2>2. SetupInv' /\ StopInv' BY <1>3 DEF Join, Return, SetupInv, StopInv, Joined
  <2>3. ConnInv' /\ EndsClean' /\ ServesOnePeer'
    BY <1>3 DEF Join, Return, ConnInv, EndsClean, ServesOnePeer, Joined
  <2> QED BY <2>1, <2>2, <2>3
<1> QED BY <1>1, <1>2, <1>3

(* clientToRemote. *)
LEMMA UpInv ==
  ASSUME Inv, UpRead \/ UpWrite \/ UpEnds
  PROVE  Inv'
<1> USE DEF Inv, worldVars, timeVars
<1>1. up # "off" BY DEF UpRead, UpWrite, UpEnds
<1>2. pc = "relay" BY <1>1 DEF SetupInv, EndsClean, TypeOK, Joined
<1>3. "client" \in Sockets BY DEF Sockets
<1>4. CASE UpRead
  <2>1. PICK src \in Addrs :
          /\ clientAddr' = IF clientAddr = None THEN src ELSE clientAddr
          /\ \/ up' = "read" /\ UNCHANGED served
             \/ IsPeer(src) /\ up' = "resolve" /\ served' = served \cup {src}
    BY <1>4 DEF UpRead
  <2>2. left' \in [Sockets -> 0..IdleTicks] /\ quiet' \in 0..IdleTicks
    BY <1>3, <1>4, RearmType, IdleAssumption DEF UpRead
  <2>3. clientAddr' \in Addrs \cup {None} /\ served' \subseteq Addrs /\ up' \in {"read", "resolve"}
    BY <2>1 DEF TypeOK, PartsOK
  <2>4. TypeOK' BY <1>4, <2>2, <2>3 DEF UpRead, TypeOK, PartsOK
  <2>5. SetupInv' /\ StopInv' /\ ConnInv' /\ EndsClean'
    BY <1>2, <1>4, <2>3 DEF UpRead, SetupInv, StopInv, ConnInv, EndsClean
  <2>6. ServesOnePeer'
    <3>1. CASE clientAddr = None
      <4>1. served = {} BY <3>1, NilAssumption DEF ServesOnePeer, TypeOK, PartsOK, Addrs
      <4> QED BY <2>1, <3>1, <4>1 DEF ServesOnePeer
    <3>2. CASE clientAddr # None BY <2>1, <3>2 DEF ServesOnePeer, IsPeer, Matches
    <3> QED BY <3>1, <3>2
  <2> QED BY <2>4, <2>5, <2>6
<1>5. CASE UpWrite
  <2>1. left' \in [Sockets -> 0..IdleTicks] BY <1>3, <1>5, RearmType DEF UpWrite
  <2>2. TypeOK' BY <1>5, <2>1 DEF UpWrite, TypeOK, PartsOK
  <2> QED BY <1>2, <1>5, <2>2 DEF UpWrite, SetupInv, StopInv, ConnInv, EndsClean, ServesOnePeer
<1>6. CASE UpEnds
  <2>1. stop' = TRUE /\ sockets' \subseteq Sockets BY <1>6, ShutdownType DEF UpEnds
  <2>2. TypeOK' BY <1>6, <2>1 DEF UpEnds, TypeOK, PartsOK
  <2> QED BY <1>2, <1>6, <2>1, <2>2 DEF UpEnds, SetupInv, StopInv, ConnInv, EndsClean, ServesOnePeer
<1> QED BY <1>4, <1>5, <1>6

(* remoteToClient. *)
LEMMA DownInv ==
  ASSUME Inv, NEW r \in Remotes, DownRead(r) \/ DownWrite(r) \/ DownWriteFails(r) \/ DownEnds(r)
  PROVE  Inv'
<1> USE DEF Inv, worldVars, timeVars
<1>1. down[r] # "off" BY DEF DownRead, DownWrite, DownWriteFails, DownEnds
<1>2. pc = "relay" BY <1>1 DEF SetupInv, EndsClean, TypeOK, Joined
<1>3. r \in Sockets BY DEF Sockets
<1>4. CASE DownRead(r) \/ DownWrite(r)
  <2>1. left' \in [Sockets -> 0..IdleTicks] /\ quiet' \in 0..IdleTicks
    BY <1>3, <1>4, RearmType, IdleAssumption DEF DownRead, DownWrite, TypeOK, PartsOK
  <2>2. down' \in [Remotes -> {"off", "read", "write"}] BY <1>4 DEF DownRead, DownWrite, TypeOK, PartsOK
  <2>3. TypeOK' BY <1>4, <2>1, <2>2 DEF DownRead, DownWrite, TypeOK, PartsOK
  <2>4. SetupInv' /\ StopInv' /\ ConnInv' /\ EndsClean' /\ ServesOnePeer'
    BY <1>2, <1>4 DEF DownRead, DownWrite, SetupInv, StopInv, ConnInv, EndsClean, ServesOnePeer
  <2> QED BY <2>3, <2>4
<1>5. CASE DownWriteFails(r) \/ DownEnds(r)
  <2>1. stop' = TRUE /\ sockets' \subseteq Sockets BY <1>5, ShutdownType DEF DownWriteFails, DownEnds
  <2>2. down' \in [Remotes -> {"off", "read", "write"}] BY <1>5 DEF DownWriteFails, DownEnds, TypeOK, PartsOK
  <2>3. TypeOK' BY <1>5, <2>1, <2>2 DEF DownWriteFails, DownEnds, TypeOK, PartsOK
  <2>4. SetupInv' /\ StopInv' /\ ConnInv' /\ EndsClean' /\ ServesOnePeer'
    BY <1>2, <1>5, <2>1 DEF DownWriteFails, DownEnds, SetupInv, StopInv, ConnInv, EndsClean, ServesOnePeer
  <2> QED BY <2>3, <2>4
<1> QED BY <1>4, <1>5

(* The two goroutines that only end the association. *)
LEMMA EnderInv ==
  ASSUME Inv, Watch \/ ControlEnds
  PROVE  Inv'
<1> USE DEF Inv, worldVars, timeVars
<1>1. stop' = TRUE /\ sockets' \subseteq sockets /\ sockets' \subseteq Sockets
      /\ UNCHANGED <<pc, up, down, connOpen, ctxDone, clientAddr, served>>
  BY ShutdownType DEF Watch, ControlEnds
<1>2. pc \notin {"bind", "reply"} BY DEF Watch, ControlEnds, SetupInv
<1>3. TypeOK'
  <2>1. CASE Watch BY <1>1, <2>1 DEF Watch, TypeOK, PartsOK
  <2>2. CASE ControlEnds BY <1>1, <2>2 DEF ControlEnds, TypeOK, PartsOK
  <2> QED BY <2>1, <2>2
<1>4. SetupInv' /\ StopInv' BY <1>1, <1>2 DEF SetupInv, StopInv
<1>5. ConnInv' /\ EndsClean' /\ ServesOnePeer' BY <1>1 DEF ConnInv, EndsClean, ServesOnePeer
<1> QED BY <1>3, <1>4, <1>5

(* Every step keeps the invariant. *)
LEMMA NextInv == Inv /\ [Next]_vars => Inv'
<1> SUFFICES ASSUME Inv, [Next]_vars PROVE Inv' OBVIOUS
<1>1. CASE UNCHANGED vars
  <2>1. TypeOK' BY <1>1 DEF vars, taskVars, worldVars, timeVars, Inv, TypeOK, PartsOK
  <2> QED BY <1>1, <2>1 DEF vars, taskVars, worldVars, timeVars, Inv, SetupInv, StopInv, ConnInv,
          EndsClean, ServesOnePeer, Joined
<1> QED BY <1>1, WorldInv, HandlerInv, UpInv, DownInv, EnderInv DEF Next, Finished

-----------------------------------------------------------------------------
(* Every variable keeps its type. *)
THEOREM TypeCorrect == Spec => []TypeOK
<1>1. Inv => TypeOK BY DEF Inv
<1> QED BY InitInv, NextInv, <1>1, PTL DEF Spec

(* A handler that has returned has left no socket and no relay goroutine    *)
(* behind, whichever of its sockets it failed to open (udp.go 57-88,        *)
(* h2_udp.go 35-92).                                                        *)
THEOREM AssociationEndsClean == Spec => []EndsClean
<1>1. Inv => EndsClean BY DEF Inv
<1> QED BY InitInv, NextInv, <1>1, PTL DEF Spec

(* Datagrams are passed on for one source address only (udp.go 155-170). *)
THEOREM OnePeerServed == Spec => []ServesOnePeer
<1>1. Inv => ServesOnePeer BY DEF Inv
<1> QED BY InitInv, NextInv, <1>1, PTL DEF Spec

(* No target and no datagram of a client ends an association. *)
THEOREM StopsForACause == Spec => StopHasCause
<1> DEFINE Cause == ~stop /\ stop' => \/ ctxDone \/ hungUp
                                      \/ \E s \in Sockets : left[s] = 0
                                      \/ \E r \in Remotes : down[r] = "write" /\ down'[r] = "off"
<1>1. Inv /\ [Next]_vars => [Cause]_vars
  <2> SUFFICES ASSUME Inv, Next, ~stop, stop' PROVE Cause OBVIOUS
  <2> USE DEF Inv, taskVars
  <2>1. CASE UpEnds
    <3>1. pc = "relay" BY <2>1 DEF UpEnds, SetupInv, EndsClean, TypeOK, Joined
    <3> QED BY <2>1, <3>1 DEF UpEnds, ReadFails, StopInv, Sockets
  <2>2. ASSUME NEW r \in Remotes, DownEnds(r) PROVE Cause
    <3>1. pc = "relay" BY <2>2 DEF DownEnds, SetupInv, EndsClean, TypeOK, Joined
    <3> QED BY <2>2, <3>1 DEF DownEnds, ReadFails, StopInv, Sockets
  <2>3. ASSUME NEW r \in Remotes, DownWriteFails(r) PROVE Cause
    BY <2>3 DEF DownWriteFails, TypeOK, PartsOK
  <2>4. CASE Watch BY <2>4 DEF Watch
  <2>5. CASE ControlEnds
    <3>1. pc = "relay" BY <2>5 DEF ControlEnds, SetupInv, StopInv, TypeOK
    <3> QED BY <2>5, <3>1 DEF ControlEnds, ConnInv
  <2>6. ASSUME NEW r \in Remotes, DownRead(r) \/ DownWrite(r) PROVE FALSE BY <2>6 DEF DownRead, DownWrite
  <2> QED BY <2>1, <2>2, <2>3, <2>4, <2>5, <2>6
          DEF Next, HangUp, Cancel, CloseConn, Tick, Bind, Reply, Join, UpRead, UpWrite, Finished, vars
<1> QED BY InitInv, NextInv, <1>1, PTL DEF Spec, StopHasCause

-----------------------------------------------------------------------------
(* The goroutines of an association end together: once one of them has      *)
(* ended, shutdown has run and has closed every socket, so that each of the *)
(* others finds what it waits for.  After the handler has returned, the     *)
(* watcher finds stop and the reader of the control connection finds conn   *)
(* closed (udp.go 95-131, h2_udp.go 112-154).                                *)
EndsTogether ==
  /\ stop => sockets = {}
  /\ pc = "relay" /\ (\/ up = "off" \/ watcher = "off" \/ control = "off"
                      \/ \E r \in Remotes : down[r] = "off") => stop
  /\ pc = "done" => ~connOpen /\ (watcher = "wait" => stop)

(* A goroutine that leaves calls shutdown first. *)
LEMMA LeavesTogether ==
  ASSUME Inv, EndsTogether, Shutdown, pc' = pc, connOpen' = connOpen
  PROVE  EndsTogether'
<1>1. stop' = TRUE /\ sockets' = {} BY DEF Shutdown, EndsTogether
<1> QED BY <1>1 DEF EndsTogether

(* Every step keeps it. *)
LEMMA NextTogether == Inv /\ EndsTogether /\ [Next]_vars => EndsTogether'
<1> SUFFICES ASSUME Inv, EndsTogether, [Next]_vars PROVE EndsTogether' OBVIOUS
<1> USE DEF taskVars, worldVars, timeVars
<1>1. CASE HangUp \/ Cancel \/ CloseConn \/ Tick
  BY <1>1 DEF HangUp, Cancel, CloseConn, Tick, EndsTogether, Inv, TypeOK, PartsOK
<1>2. CASE Bind BY <1>2 DEF Bind, Return, EndsTogether, Inv, SetupInv, Joined
<1>3. CASE Reply BY <1>3 DEF Reply, Return, EndsTogether, Inv, SetupInv, Joined
<1>4. CASE Join BY <1>4 DEF Join, Joined, Return, EndsTogether
<1>5. CASE UpRead \/ UpWrite
  <2>1. UNCHANGED <<pc, sockets, stop, connOpen, down, watcher, control>> /\ up' # "off" /\ up # "off"
    BY <1>5 DEF UpRead, UpWrite
  <2> QED BY <2>1 DEF EndsTogether
<1>6. ASSUME NEW r \in Remotes, DownRead(r) \/ DownWrite(r) PROVE EndsTogether'
  <2>1. /\ UNCHANGED <<pc, sockets, stop, connOpen, up, watcher, control>>
        /\ \A s \in Remotes : down'[s] = "off" => down[s] = "off"
    BY <1>6 DEF DownRead, DownWrite, Inv, TypeOK, PartsOK
  <2> QED BY <2>1 DEF EndsTogether
<1>7. CASE UpEnds \/ Watch \/ ControlEnds
  BY <1>7, LeavesTogether DEF UpEnds, Watch, ControlEnds
<1>8. ASSUME NEW r \in Remotes, DownWriteFails(r) \/ DownEnds(r) PROVE EndsTogether'
  BY <1>8, LeavesTogether DEF DownWriteFails, DownEnds
<1>9. CASE Finished \/ UNCHANGED vars BY <1>9 DEF Finished, vars, EndsTogether
<1> QED BY <1>1, <1>2, <1>3, <1>4, <1>5, <1>6, <1>7, <1>8, <1>9 DEF Next

(* No goroutine of an association waits for something that never comes once *)
(* another has left, for any number of remote sockets.                      *)
THEOREM NobodyStaysBehind == Spec => []EndsTogether
<1>1. Init => EndsTogether BY DEF Init, EndsTogether
<1> QED BY <1>1, InitInv, NextInv, NextTogether, PTL DEF Spec
=============================================================================
