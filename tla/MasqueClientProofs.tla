------------------------ MODULE MasqueClientProofs ------------------------
(***************************************************************************)
(* Machine-checked proofs about MasqueClient, for every number of          *)
(* goroutines, connections, edge addresses and DoH servers.                *)
(***************************************************************************)
EXTENDS MasqueClient, TLAPS

(* The locals of an idle goroutine are well typed. *)
LEMMA IdleType == Idle \in Goroutine
BY CountAssumption DEF CountAssumption, Goroutine, Idle, Labels

(* What AfterOpenError and its siblings hand back is a goroutine state. *)
LEMMA LocalsType ==
  ASSUME NEW r \in Goroutine
  PROVE  /\ Idle \in Goroutine
         /\ AfterOpenError(r) \in Goroutine
         /\ AfterOpen(r) \in Goroutine
         /\ AfterReconnect(r) \in Goroutine
         /\ \A ok \in BOOLEAN : Woken(r, ok) \in Goroutine
<1>1. Idle \in Goroutine
  BY IdleType
<1>2. AfterOpenError(r) \in Goroutine
  <2>1. /\ 0 \in 0..NServers
        /\ r.srv < NServers => r.srv + 1 \in 0..NServers
    <3>1. r.srv \in 0..NServers
      BY DEF Goroutine
    <3> QED BY <3>1, CountAssumption DEF CountAssumption
  <2>2. r.srv < NServers =>
          [r EXCEPT !.pc = "open", !.srv = @ + 1, !.tried = None, !.hold = None] \in Goroutine
    BY <2>1, Zenon DEF Goroutine, Labels
  <2>3. [r EXCEPT !.pc = "dohInstall", !.srv = 0, !.tried = None, !.hold = None] \in Goroutine
    BY <2>1, Zenon DEF Goroutine, Labels
  <2> QED BY <1>1, <2>2, <2>3 DEF AfterOpenError
<1>3. AfterOpen(r) \in Goroutine
  BY <1>1 DEF Goroutine, AfterOpen, Labels
<1>4. AfterReconnect(r) \in Goroutine
  BY DEF Goroutine, AfterReconnect, Labels
<1>5. \A ok \in BOOLEAN : Woken(r, ok) \in Goroutine
  BY <1>1 DEF Goroutine, Woken, Labels
<1> QED BY <1>1, <1>2, <1>3, <1>4, <1>5

(* Writing one goroutine's state keeps g well typed. *)
LEMMA BecomeType ==
  ASSUME TypeOK, NEW p \in Procs, NEW r \in Goroutine, Become(p, r)
  PROVE  g' \in [Procs -> Goroutine]
BY DEF TypeOK, Become

(* Moving one program counter keeps g well typed. *)
LEMMA GotoType ==
  ASSUME TypeOK, NEW p \in Procs, NEW l \in Labels, Goto(p, l)
  PROVE  g' \in [Procs -> Goroutine]
BY DEF TypeOK, Goto, Goroutine

(* addrIdx stays a valid index of edgeAddrs. *)
LEMMA ModType ==
  ASSUME NEW a \in Nat
  PROVE  a % NAddrs \in 0..(NAddrs - 1)
BY CountAssumption DEF CountAssumption

(* Every field keeps its type when a goroutine is given new locals. *)
LEMMA UpdateType ==
  ASSUME NEW r \in Goroutine
  PROVE  /\ \A l \in Labels : [r EXCEPT !.pc = l] \in Goroutine
         /\ \A l \in Labels, b \in Bundles \cup {None} : [r EXCEPT !.pc = l, !.tried = b] \in Goroutine
         /\ \A l \in Labels, b \in Bundles \cup {None} : [r EXCEPT !.pc = l, !.hold = b] \in Goroutine
         /\ \A l \in Labels, d \in Dohs \cup {None} : [r EXCEPT !.pc = l, !.dconn = d] \in Goroutine
         /\ \A l \in Labels, q \in Procs \cup {None} : [r EXCEPT !.pc = l, !.waitOn = q] \in Goroutine
         /\ \A l \in Labels : [r EXCEPT !.pc = l, !.srv = 1] \in Goroutine
         /\ \A l \in Labels, d \in Dohs \cup {None} : [r EXCEPT !.pc = l, !.dconn = d, !.tried = None, !.srv = 0] \in Goroutine
         /\ [r EXCEPT !.ctx = TRUE] \in Goroutine
         /\ \A l \in Labels : [Idle EXCEPT !.pc = l, !.op = "tunnel"] \in Goroutine
         /\ \A l \in Labels : [Idle EXCEPT !.pc = l, !.op = "lookup"] \in Goroutine
         /\ \A l \in Labels, d \in Dohs \cup {None} : [Idle EXCEPT !.pc = l, !.op = "lookup", !.failed = d] \in Goroutine
<1>1. Idle \in Goroutine
  BY IdleType
<1>2. 0 \in 0..NServers /\ 1 \in 0..NServers
  BY CountAssumption DEF CountAssumption
<1>3. \A l \in Labels : [r EXCEPT !.pc = l] \in Goroutine
  BY <1>1, <1>2, Zenon DEF Goroutine
<1>4. \A l \in Labels, b \in Bundles \cup {None} : [r EXCEPT !.pc = l, !.tried = b] \in Goroutine
  BY <1>1, <1>2, Zenon DEF Goroutine
<1>5. \A l \in Labels, b \in Bundles \cup {None} : [r EXCEPT !.pc = l, !.hold = b] \in Goroutine
  BY <1>1, <1>2, Zenon DEF Goroutine
<1>6. \A l \in Labels, d \in Dohs \cup {None} : [r EXCEPT !.pc = l, !.dconn = d] \in Goroutine
  BY <1>1, <1>2, Zenon DEF Goroutine
<1>7. \A l \in Labels, q \in Procs \cup {None} : [r EXCEPT !.pc = l, !.waitOn = q] \in Goroutine
  BY <1>1, <1>2, Zenon DEF Goroutine
<1>8. \A l \in Labels : [r EXCEPT !.pc = l, !.srv = 1] \in Goroutine
  BY <1>1, <1>2, Zenon DEF Goroutine
<1>9. \A l \in Labels, d \in Dohs \cup {None} : [r EXCEPT !.pc = l, !.dconn = d, !.tried = None, !.srv = 0] \in Goroutine
  BY <1>1, <1>2, Zenon DEF Goroutine
<1>10. [r EXCEPT !.ctx = TRUE] \in Goroutine
  BY <1>1, <1>2, Zenon DEF Goroutine
<1>11. \A l \in Labels : [Idle EXCEPT !.pc = l, !.op = "tunnel"] \in Goroutine
  BY <1>1, <1>2, Zenon DEF Goroutine
<1>12. \A l \in Labels : [Idle EXCEPT !.pc = l, !.op = "lookup"] \in Goroutine
  BY <1>1, <1>2, Zenon DEF Goroutine
<1>13. \A l \in Labels, d \in Dohs \cup {None} : [Idle EXCEPT !.pc = l, !.op = "lookup", !.failed = d] \in Goroutine
  BY <1>1, <1>2, Zenon DEF Goroutine
<1> QED BY <1>3, <1>4, <1>5, <1>6, <1>7, <1>8, <1>9, <1>10, <1>11, <1>12, <1>13

-----------------------------------------------------------------------------
(* Type correctness.                                                        *)

(* TypeOK without the goroutines. *)
SharedType ==
  /\ cur \in Bundles \cup {None} /\ closed \in BOOLEAN
  /\ open \subseteq madeB /\ alive \subseteq open /\ madeB \subseteq Bundles
  /\ reconnectMu \in Procs \cup {None}
  /\ addrIdx \in 0..(NAddrs - 1) /\ dialI \in 0..(NAddrs - 1)
  /\ doh \in Dohs \cup {None} /\ dohDial \in Procs \cup {None}
  /\ dohOpen \subseteq Dohs /\ dohUp \subseteq dohOpen /\ straggler \in BOOLEAN
  /\ ride \in [Dohs -> Bundles \cup {None}]
  /\ closer \in {"off", "set", "bundle", "done"} /\ closeHold \in Bundles \cup {None}

(* The locals of one goroutine, field by field. *)
LEMMA FieldType ==
  ASSUME TypeOK, NEW p \in Procs
  PROVE  /\ g[p] \in Goroutine
         /\ g[p].pc \in Labels
         /\ g[p].tried \in Bundles \cup {None} /\ g[p].hold \in Bundles \cup {None}
         /\ g[p].dconn \in Dohs \cup {None} /\ g[p].failed \in Dohs \cup {None}
         /\ g[p].srv \in 0..NServers /\ g[p].waitOn \in Procs \cup {None}
         /\ g[p].ctx \in BOOLEAN
BY Zenon DEF TypeOK, Goroutine

(* Every step of a goroutine leaves all goroutines well typed. *)
LEMMA LocalsStep ==
  ASSUME TypeOK, NEW p \in Procs,
         StartTunnel(p) \/ StartLookup(p) \/ RcLock(p) \/ Step(p) \/ CtxDone(p)
  PROVE  g' \in [Procs -> Goroutine]
<1>1. g \in [Procs -> Goroutine] /\ g[p] \in Goroutine
  BY FieldType DEF TypeOK
<1>2. /\ cur \in Bundles \cup {None} /\ doh \in Dohs \cup {None}
      /\ dohDial \in Procs \cup {None} /\ None \in Bundles \cup {None}
      /\ None \in Dohs \cup {None} /\ g[p].dconn \in Dohs \cup {None}
  BY FieldType DEF TypeOK
<1>3. /\ "idle" \in Labels /\ "open" \in Labels /\ "openStream" \in Labels /\ "rcLock" \in Labels
      /\ "rcCheck" \in Labels /\ "rcDial" \in Labels /\ "rcSettings" \in Labels /\ "rcInstall" \in Labels
      /\ "rcCloseOld" \in Labels /\ "rcInval" \in Labels /\ "reopen" \in Labels /\ "reopenStream" \in Labels
      /\ "dohLive" \in Labels /\ "dohJoin" \in Labels /\ "dohWait" \in Labels /\ "dohHandshake" \in Labels
      /\ "dohCheck" \in Labels /\ "dohInstall" \in Labels /\ "dohRecheck" \in Labels /\ "query" \in Labels
  BY DEF Labels
<1>4. /\ \A r \in Goroutine : Become(p, r) => g' \in [Procs -> Goroutine]
      /\ \A l \in Labels : Goto(p, l) => g' \in [Procs -> Goroutine]
  BY BecomeType, GotoType
<1>5. /\ Idle \in Goroutine
      /\ AfterOpenError(g[p]) \in Goroutine
      /\ AfterOpen(g[p]) \in Goroutine
      /\ AfterReconnect(g[p]) \in Goroutine
  BY <1>1, LocalsType
<1>6. /\ \A l \in Labels : [g[p] EXCEPT !.pc = l] \in Goroutine
      /\ \A l \in Labels, b \in Bundles \cup {None} : [g[p] EXCEPT !.pc = l, !.tried = b] \in Goroutine
      /\ \A l \in Labels, b \in Bundles \cup {None} : [g[p] EXCEPT !.pc = l, !.hold = b] \in Goroutine
      /\ \A l \in Labels, d \in Dohs \cup {None} : [g[p] EXCEPT !.pc = l, !.dconn = d] \in Goroutine
      /\ \A l \in Labels, q \in Procs \cup {None} : [g[p] EXCEPT !.pc = l, !.waitOn = q] \in Goroutine
      /\ \A l \in Labels : [g[p] EXCEPT !.pc = l, !.srv = 1] \in Goroutine
      /\ \A l \in Labels, d \in Dohs \cup {None} : [g[p] EXCEPT !.pc = l, !.dconn = d, !.tried = None, !.srv = 0] \in Goroutine
      /\ [g[p] EXCEPT !.ctx = TRUE] \in Goroutine
      /\ \A l \in Labels : [Idle EXCEPT !.pc = l, !.op = "tunnel"] \in Goroutine
      /\ \A l \in Labels : [Idle EXCEPT !.pc = l, !.op = "lookup"] \in Goroutine
      /\ \A l \in Labels, d \in Dohs \cup {None} : [Idle EXCEPT !.pc = l, !.op = "lookup", !.failed = d] \in Goroutine
  BY <1>1, UpdateType
<1>7. CASE StartTunnel(p)
  BY <1>7, <1>2, <1>3, <1>4, <1>5, <1>6, Zenon DEF StartTunnel
<1>8. CASE StartLookup(p)
  BY <1>8, <1>2, <1>3, <1>4, <1>5, <1>6, Zenon DEF StartLookup
<1>9. CASE RcLock(p)
  BY <1>9, <1>2, <1>3, <1>4, <1>5, <1>6, Zenon DEF RcLock
<1>10. CASE CtxDone(p)
  BY <1>10, <1>1, <1>6, Zenon DEF CtxDone
<1>11. CASE Open(p)
  BY <1>11, <1>2, <1>3, <1>4, <1>5, <1>6, Zenon DEF Open
<1>12. CASE OpenStreamOK(p)
  BY <1>12, <1>2, <1>3, <1>4, <1>5, <1>6, Zenon DEF OpenStreamOK
<1>13. CASE OpenStreamFails(p)
  BY <1>13, <1>2, <1>3, <1>4, <1>5, <1>6, Zenon DEF OpenStreamFails
<1>14. CASE Reopen(p)
  BY <1>14, <1>2, <1>3, <1>4, <1>5, <1>6, Zenon DEF Reopen
<1>15. CASE ReopenStream(p)
  BY <1>15, <1>2, <1>3, <1>4, <1>5, <1>6, Zenon DEF ReopenStream
<1>16. CASE RcCheck(p)
  BY <1>16, <1>2, <1>3, <1>4, <1>5, <1>6, Zenon DEF RcCheck
<1>17. CASE RcDialOK(p)
  <2>1. PICK b \in Bundles : Become(p, [g[p] EXCEPT !.pc = "rcSettings", !.hold = b])
    BY <1>17 DEF RcDialOK
  <2> QED BY <2>1, <1>3, <1>4, <1>6, Zenon
<1>18. CASE RcDialFails(p)
  BY <1>18, <1>2, <1>3, <1>4, <1>5, <1>6, Zenon DEF RcDialFails, NextAddr
<1>19. CASE RcSettingsOK(p)
  BY <1>19, <1>2, <1>3, <1>4, <1>5, <1>6, Zenon DEF RcSettingsOK
<1>20. CASE RcSettingsFails(p)
  BY <1>20, <1>2, <1>3, <1>4, <1>5, <1>6, Zenon DEF RcSettingsFails, NextAddr
<1>21. CASE RcInstall(p)
  BY <1>21, <1>2, <1>3, <1>4, <1>5, <1>6, Zenon DEF RcInstall
<1>22. CASE RcCloseOld(p)
  BY <1>22, <1>2, <1>3, <1>4, <1>5, <1>6, Zenon DEF RcCloseOld
<1>23. CASE RcInval(p)
  BY <1>23, <1>2, <1>3, <1>4, <1>5, <1>6, Zenon DEF RcInval
<1>24. CASE DohLive(p)
  BY <1>24, <1>2, <1>3, <1>4, <1>5, <1>6, Zenon DEF DohLive
<1>25. CASE DohJoin(p)
  BY <1>25, <1>2, <1>3, <1>4, <1>5, <1>6, Zenon DEF DohJoin
<1>26. CASE DohWaitCancelled(p)
  BY <1>26, <1>2, <1>3, <1>4, <1>5, <1>6, Zenon DEF DohWaitCancelled
<1>27. CASE DohHandshakeOK(p)
  <2>1. PICK d \in Dohs :
          Become(p, [g[p] EXCEPT !.pc = "dohCheck", !.dconn = d, !.tried = None, !.srv = 0])
    BY <1>27 DEF DohHandshakeOK
  <2> QED BY <2>1, <1>3, <1>4, <1>6, Zenon
<1>28. CASE DohHandshakeFails(p)
  BY <1>28, <1>2, <1>3, <1>4, <1>5, <1>6, Zenon DEF DohHandshakeFails
<1>29. CASE DohCheck(p)
  BY <1>29, <1>2, <1>3, <1>4, <1>5, <1>6, Zenon DEF DohCheck
<1>30. CASE DohInstall(p)
  <2>1. \A q \in Procs : \A ok \in BOOLEAN : Woken(g[q], ok) \in Goroutine
    BY FieldType, LocalsType
  <2>2. [g[p] EXCEPT !.pc = "dohRecheck"] \in Goroutine
    BY <1>3, <1>6
  <2> QED BY <1>30, <1>1, <1>5, <2>1, <2>2 DEF DohInstall
<1>31. CASE DohRecheck(p)
  BY <1>31, <1>2, <1>3, <1>4, <1>5, <1>6, Zenon DEF DohRecheck
<1>32. CASE QueryAnswered(p)
  BY <1>32, <1>2, <1>3, <1>4, <1>5, <1>6, Zenon DEF QueryAnswered
<1>33. CASE QueryHalfFailed(p)
  BY <1>33, <1>2, <1>3, <1>4, <1>5, <1>6, Zenon DEF QueryHalfFailed
<1>34. CASE QueryRefused(p)
  BY <1>34, <1>2, <1>3, <1>4, <1>5, <1>6, Zenon DEF QueryRefused
<1>35. CASE QueryTransport(p)
  BY <1>35, <1>2, <1>3, <1>4, <1>5, <1>6, Zenon DEF QueryTransport
<1> QED BY <1>7, <1>8, <1>9, <1>10, <1>11, <1>12, <1>13, <1>14, <1>15, <1>16, <1>17, <1>18, <1>19, <1>20, <1>21, <1>22, <1>23, <1>24, <1>25, <1>26, <1>27, <1>28, <1>29, <1>30, <1>31, <1>32, <1>33, <1>34, <1>35 DEF Step

(* Every step of a goroutine leaves the shared state well typed. *)
LEMMA SharedStep ==
  ASSUME TypeOK, NEW p \in Procs,
         StartTunnel(p) \/ StartLookup(p) \/ RcLock(p) \/ Step(p) \/ CtxDone(p)
  PROVE  SharedType'
<1>1. SharedType
  BY DEF TypeOK, SharedType
<1>2. /\ g[p].hold \in Bundles \cup {None} /\ g[p].tried \in Bundles \cup {None}
      /\ g[p].dconn \in Dohs \cup {None}
  BY FieldType
<1>3. 0 \in 0..(NAddrs - 1) /\ \A i \in 0..(NAddrs - 1) : i + 1 # NAddrs => i + 1 \in 0..(NAddrs - 1)
  BY CountAssumption DEF CountAssumption
<1>. USE DEF connVars, dohVars, lockVars, endVars
<1>4. CASE \/ StartTunnel(p) \/ StartLookup(p) \/ CtxDone(p) \/ Open(p)
          \/ OpenStreamOK(p) \/ OpenStreamFails(p) \/ Reopen(p) \/ ReopenStream(p)
          \/ DohWaitCancelled(p) \/ DohHandshakeFails(p) \/ QueryRefused(p)
  BY <1>1, <1>4 DEF SharedType, StartTunnel, StartLookup, CtxDone, Open, OpenStreamOK, OpenStreamFails, Reopen, ReopenStream, DohWaitCancelled, DohHandshakeFails, QueryRefused
<1>5. CASE RcLock(p)
  BY <1>1, <1>2, <1>3, <1>5 DEF SharedType, RcLock
<1>6. CASE RcCheck(p)
  BY <1>1, <1>2, <1>3, <1>6 DEF SharedType, RcCheck
<1>7. CASE RcDialOK(p)
  BY <1>1, <1>2, <1>3, <1>7 DEF SharedType, RcDialOK
<1>8. CASE RcDialFails(p)
  BY <1>1, <1>2, <1>3, <1>8 DEF SharedType, RcDialFails, NextAddr
<1>9. CASE RcSettingsOK(p)
  <2>1. addrIdx + dialI \in Nat
    BY <1>1, CountAssumption DEF SharedType, CountAssumption
  <2>2. (addrIdx + dialI) % NAddrs \in 0..(NAddrs - 1)
    BY <2>1, ModType
  <2> QED BY <1>1, <1>9, <2>2 DEF SharedType, RcSettingsOK
<1>10. CASE RcSettingsFails(p)
  BY <1>1, <1>2, <1>3, <1>10 DEF SharedType, RcSettingsFails, NextAddr
<1>11. CASE RcInstall(p)
  BY <1>1, <1>2, <1>3, <1>11 DEF SharedType, RcInstall
<1>12. CASE RcCloseOld(p)
  BY <1>1, <1>2, <1>3, <1>12 DEF SharedType, RcCloseOld
<1>13. CASE RcInval(p)
  BY <1>1, <1>2, <1>3, <1>13 DEF SharedType, RcInval, InvalidateDoH, DropDoh
<1>14. CASE DohLive(p)
  BY <1>1, <1>2, <1>3, <1>14 DEF SharedType, DohLive, DropDoh
<1>15. CASE DohJoin(p)
  BY <1>1, <1>2, <1>3, <1>15 DEF SharedType, DohJoin
<1>16. CASE DohHandshakeOK(p)
  BY <1>1, <1>2, <1>3, <1>16 DEF SharedType, DohHandshakeOK
<1>17. CASE DohCheck(p)
  BY <1>1, <1>2, <1>3, <1>17 DEF SharedType, DohCheck
<1>18. CASE DohInstall(p)
  BY <1>1, <1>2, <1>3, <1>18 DEF SharedType, DohInstall
<1>19. CASE DohRecheck(p)
  BY <1>1, <1>2, <1>3, <1>19 DEF SharedType, DohRecheck, InvalidateDoH, DropDoh
<1>20. CASE QueryAnswered(p)
  BY <1>1, <1>2, <1>3, <1>20 DEF SharedType, QueryAnswered
<1>21. CASE QueryHalfFailed(p)
  BY <1>1, <1>2, <1>3, <1>21 DEF SharedType, QueryHalfFailed, InvalidateDoH, DropDoh
<1>22. CASE QueryTransport(p)
  BY <1>1, <1>2, <1>3, <1>22 DEF SharedType, QueryTransport, InvalidateDoH, DropDoh
<1> QED BY <1>4, <1>5, <1>6, <1>7, <1>8, <1>9, <1>10, <1>11, <1>12, <1>13, <1>14, <1>15, <1>16, <1>17, <1>18, <1>19, <1>20, <1>21, <1>22 DEF Step

(* The environment and Close leave everything well typed. *)
LEMMA OthersType ==
  ASSUME TypeOK,
         \/ \E b \in Bundles : BundleDies(b)
         \/ \E d \in Dohs : DohBreaks(d)
         \/ StragglerEnds \/ CloseInval \/ CloseSet \/ CloseBundle
  PROVE  TypeOK'
<1>. USE DEF TypeOK, connVars, dohVars, lockVars, endVars
<1>1. ASSUME NEW b \in Bundles, BundleDies(b) PROVE TypeOK'
  BY <1>1 DEF BundleDies
<1>2. ASSUME NEW d \in Dohs, DohBreaks(d) PROVE TypeOK'
  BY <1>2 DEF DohBreaks
<1>3. CASE StragglerEnds
  BY <1>3 DEF StragglerEnds, InvalidateDoH, DropDoh
<1>4. CASE CloseInval
  BY <1>4 DEF CloseInval, InvalidateDoH, DropDoh
<1>5. CASE CloseSet
  BY <1>5 DEF CloseSet
<1>6. CASE CloseBundle
  BY <1>6 DEF CloseBundle
<1> QED BY <1>1, <1>2, <1>3, <1>4, <1>5, <1>6

(* The initial state is typed. *)
LEMMA InitType == Init => TypeOK
<1>. SUFFICES ASSUME Init PROVE TypeOK
  OBVIOUS
<1>1. g \in [Procs -> Goroutine]
  BY IdleType DEF Init
<1>2. dialI \in 0..(NAddrs - 1)
  BY CountAssumption DEF Init, CountAssumption
<1> QED BY <1>1, <1>2 DEF Init, TypeOK

(* Every step keeps the types. *)
LEMMA NextType == TypeOK /\ [Next]_vars => TypeOK'
<1>. SUFFICES ASSUME TypeOK, [Next]_vars PROVE TypeOK'
  OBVIOUS
<1>1. ASSUME NEW p \in Procs,
             StartTunnel(p) \/ StartLookup(p) \/ RcLock(p) \/ Step(p) \/ CtxDone(p)
      PROVE  TypeOK'
  BY <1>1, LocalsStep, SharedStep DEF TypeOK, SharedType
<1>2. CASE vars' = vars
  BY <1>2 DEF TypeOK, vars, connVars, dohVars, lockVars, endVars
<1> QED BY <1>1, <1>2, OthersType DEF Next

(* No goroutine, connection, lock or index of the client ever leaves its    *)
(* type; among others addrIdx stays an index of edgeAddrs (dial) and a live *)
(* QUIC connection is one that nobody has closed.                           *)
THEOREM TypeCorrect == Spec => []TypeOK
BY InitType, NextType, PTL DEF Spec

-----------------------------------------------------------------------------
(* What an update of one goroutine does to its locals and to the others.    *)

Locals(p, pc, op, tried, hold, dconn, failed, waitOn) ==
  /\ g'[p].pc = pc /\ g'[p].op = op /\ g'[p].tried = tried /\ g'[p].hold = hold
  /\ g'[p].dconn = dconn /\ g'[p].failed = failed /\ g'[p].waitOn = waitOn
  /\ \A q \in Procs \ {p} : g'[q] = g[q]

(* What an idle goroutine holds: nothing. *)
LEMMA IdleFields ==
  /\ Idle.pc = "idle" /\ Idle.op = "none" /\ Idle.tried = None /\ Idle.hold = None
  /\ Idle.dconn = None /\ Idle.failed = None /\ Idle.waitOn = None
BY DEF Idle

(* The fields of an updated record, one by one. *)
LEMMA UpdateFields ==
  ASSUME TypeOK, NEW p \in Procs
  PROVE  /\ \A l : Become(p, [g[p] EXCEPT !.pc = l]) =>
           Locals(p, l, g[p].op, g[p].tried, g[p].hold, g[p].dconn, g[p].failed, g[p].waitOn)
         /\ \A l, x : Become(p, [g[p] EXCEPT !.pc = l, !.tried = x]) =>
           Locals(p, l, g[p].op, x, g[p].hold, g[p].dconn, g[p].failed, g[p].waitOn)
         /\ \A l, x : Become(p, [g[p] EXCEPT !.pc = l, !.hold = x]) =>
           Locals(p, l, g[p].op, g[p].tried, x, g[p].dconn, g[p].failed, g[p].waitOn)
         /\ \A l, x : Become(p, [g[p] EXCEPT !.pc = l, !.dconn = x]) =>
           Locals(p, l, g[p].op, g[p].tried, g[p].hold, x, g[p].failed, g[p].waitOn)
         /\ \A l, x : Become(p, [g[p] EXCEPT !.pc = l, !.waitOn = x]) =>
           Locals(p, l, g[p].op, g[p].tried, g[p].hold, g[p].dconn, g[p].failed, x)
         /\ \A l : Become(p, [g[p] EXCEPT !.pc = l, !.srv = 1]) =>
           Locals(p, l, g[p].op, g[p].tried, g[p].hold, g[p].dconn, g[p].failed, g[p].waitOn)
         /\ \A l, x : Become(p, [g[p] EXCEPT !.pc = l, !.dconn = x, !.tried = None, !.srv = 0]) =>
           Locals(p, l, g[p].op, None, g[p].hold, x, g[p].failed, g[p].waitOn)
         /\ \A l : Become(p, [Idle EXCEPT !.pc = l, !.op = "tunnel"]) =>
           Locals(p, l, "tunnel", None, None, None, None, None)
         /\ \A l : Become(p, [Idle EXCEPT !.pc = l, !.op = "lookup"]) =>
           Locals(p, l, "lookup", None, None, None, None, None)
         /\ \A l, x : Become(p, [Idle EXCEPT !.pc = l, !.op = "lookup", !.failed = x]) =>
           Locals(p, l, "lookup", None, None, None, x, None)
         /\ Become(p, Idle) =>
           Locals(p, "idle", "none", None, None, None, None, None)
         /\ Become(p, AfterReconnect(g[p])) =>
           Locals(p, "reopen", g[p].op, None, None, g[p].dconn, g[p].failed, g[p].waitOn)
         /\ Become(p, AfterOpenError(g[p])) =>
           \/ g[p].op = "tunnel" /\ Locals(p, "idle", "none", None, None, None, None, None)
           \/ g[p].op # "tunnel" /\ Locals(p, "open", g[p].op, None, None, g[p].dconn, g[p].failed, g[p].waitOn)
           \/ g[p].op # "tunnel" /\ Locals(p, "dohInstall", g[p].op, None, None, g[p].dconn, g[p].failed, g[p].waitOn)
         /\ Become(p, AfterOpen(g[p])) =>
           \/ g[p].op = "tunnel" /\ Locals(p, "idle", "none", None, None, None, None, None)
           \/ g[p].op # "tunnel" /\ Locals(p, "dohHandshake", g[p].op, g[p].tried, g[p].hold, g[p].dconn, g[p].failed, g[p].waitOn)
         /\ \A l : Goto(p, l) => Locals(p, l, g[p].op, g[p].tried, g[p].hold, g[p].dconn, g[p].failed, g[p].waitOn)
<1>1. g \in [Procs -> Goroutine] /\ g[p] \in Goroutine /\ Idle \in Goroutine
  BY FieldType, IdleType DEF TypeOK
<1>2. ASSUME NEW r, Become(p, r) PROVE g'[p] = r /\ \A q \in Procs \ {p} : g'[q] = g[q]
  BY <1>2, Zenon DEF TypeOK, Become
<1>3. ASSUME NEW l, Become(p, [g[p] EXCEPT !.pc = l])
      PROVE  Locals(p, l, g[p].op, g[p].tried, g[p].hold, g[p].dconn, g[p].failed, g[p].waitOn)
  <2>1. g'[p] = [g[p] EXCEPT !.pc = l] /\ \A q \in Procs \ {p} : g'[q] = g[q]
    BY <1>2, <1>3
  <2> QED BY <2>1, <1>1, IdleFields DEF Goroutine, Locals
<1>4. ASSUME NEW l, NEW x, Become(p, [g[p] EXCEPT !.pc = l, !.tried = x])
      PROVE  Locals(p, l, g[p].op, x, g[p].hold, g[p].dconn, g[p].failed, g[p].waitOn)
  <2>1. g'[p] = [g[p] EXCEPT !.pc = l, !.tried = x] /\ \A q \in Procs \ {p} : g'[q] = g[q]
    BY <1>2, <1>4
  <2> QED BY <2>1, <1>1, IdleFields DEF Goroutine, Locals
<1>5. ASSUME NEW l, NEW x, Become(p, [g[p] EXCEPT !.pc = l, !.hold = x])
      PROVE  Locals(p, l, g[p].op, g[p].tried, x, g[p].dconn, g[p].failed, g[p].waitOn)
  <2>1. g'[p] = [g[p] EXCEPT !.pc = l, !.hold = x] /\ \A q \in Procs \ {p} : g'[q] = g[q]
    BY <1>2, <1>5
  <2> QED BY <2>1, <1>1, IdleFields DEF Goroutine, Locals
<1>6. ASSUME NEW l, NEW x, Become(p, [g[p] EXCEPT !.pc = l, !.dconn = x])
      PROVE  Locals(p, l, g[p].op, g[p].tried, g[p].hold, x, g[p].failed, g[p].waitOn)
  <2>1. g'[p] = [g[p] EXCEPT !.pc = l, !.dconn = x] /\ \A q \in Procs \ {p} : g'[q] = g[q]
    BY <1>2, <1>6
  <2> QED BY <2>1, <1>1, IdleFields DEF Goroutine, Locals
<1>7. ASSUME NEW l, NEW x, Become(p, [g[p] EXCEPT !.pc = l, !.waitOn = x])
      PROVE  Locals(p, l, g[p].op, g[p].tried, g[p].hold, g[p].dconn, g[p].failed, x)
  <2>1. g'[p] = [g[p] EXCEPT !.pc = l, !.waitOn = x] /\ \A q \in Procs \ {p} : g'[q] = g[q]
    BY <1>2, <1>7
  <2> QED BY <2>1, <1>1, IdleFields DEF Goroutine, Locals
<1>8. ASSUME NEW l, Become(p, [g[p] EXCEPT !.pc = l, !.srv = 1])
      PROVE  Locals(p, l, g[p].op, g[p].tried, g[p].hold, g[p].dconn, g[p].failed, g[p].waitOn)
  <2>1. g'[p] = [g[p] EXCEPT !.pc = l, !.srv = 1] /\ \A q \in Procs \ {p} : g'[q] = g[q]
    BY <1>2, <1>8
  <2> QED BY <2>1, <1>1, IdleFields DEF Goroutine, Locals
<1>9. ASSUME NEW l, NEW x, Become(p, [g[p] EXCEPT !.pc = l, !.dconn = x, !.tried = None, !.srv = 0])
      PROVE  Locals(p, l, g[p].op, None, g[p].hold, x, g[p].failed, g[p].waitOn)
  <2>1. g'[p] = [g[p] EXCEPT !.pc = l, !.dconn = x, !.tried = None, !.srv = 0] /\ \A q \in Procs \ {p} : g'[q] = g[q]
    BY <1>2, <1>9
  <2> QED BY <2>1, <1>1, IdleFields DEF Goroutine, Locals
<1>10. ASSUME NEW l, Become(p, [Idle EXCEPT !.pc = l, !.op = "tunnel"])
      PROVE  Locals(p, l, "tunnel", None, None, None, None, None)
  <2>1. g'[p] = [Idle EXCEPT !.pc = l, !.op = "tunnel"] /\ \A q \in Procs \ {p} : g'[q] = g[q]
    BY <1>2, <1>10
  <2> QED BY <2>1, <1>1, IdleFields DEF Goroutine, Locals
<1>11. ASSUME NEW l, Become(p, [Idle EXCEPT !.pc = l, !.op = "lookup"])
      PROVE  Locals(p, l, "lookup", None, None, None, None, None)
  <2>1. g'[p] = [Idle EXCEPT !.pc = l, !.op = "lookup"] /\ \A q \in Procs \ {p} : g'[q] = g[q]
    BY <1>2, <1>11
  <2> QED BY <2>1, <1>1, IdleFields DEF Goroutine, Locals
<1>12. ASSUME NEW l, NEW x, Become(p, [Idle EXCEPT !.pc = l, !.op = "lookup", !.failed = x])
      PROVE  Locals(p, l, "lookup", None, None, None, x, None)
  <2>1. g'[p] = [Idle EXCEPT !.pc = l, !.op = "lookup", !.failed = x] /\ \A q \in Procs \ {p} : g'[q] = g[q]
    BY <1>2, <1>12
  <2> QED BY <2>1, <1>1, IdleFields DEF Goroutine, Locals
<1>13. ASSUME Become(p, Idle)
      PROVE  Locals(p, "idle", "none", None, None, None, None, None)
  <2>1. g'[p] = Idle /\ \A q \in Procs \ {p} : g'[q] = g[q]
    BY <1>2, <1>13
  <2> QED BY <2>1, <1>1, IdleFields DEF Goroutine, Locals
<1>14. ASSUME Become(p, AfterReconnect(g[p]))
      PROVE  Locals(p, "reopen", g[p].op, None, None, g[p].dconn, g[p].failed, g[p].waitOn)
  <2>1. g'[p] = AfterReconnect(g[p]) /\ \A q \in Procs \ {p} : g'[q] = g[q]
    BY <1>2, <1>14
  <2> QED BY <2>1, <1>1, IdleFields DEF AfterReconnect, Goroutine, Locals
<1>15. ASSUME Become(p, AfterOpenError(g[p]))
      PROVE  \/ g[p].op = "tunnel" /\ Locals(p, "idle", "none", None, None, None, None, None)
             \/ g[p].op # "tunnel" /\ Locals(p, "open", g[p].op, None, None, g[p].dconn, g[p].failed, g[p].waitOn)
             \/ g[p].op # "tunnel" /\ Locals(p, "dohInstall", g[p].op, None, None, g[p].dconn, g[p].failed, g[p].waitOn)
  <2>1. g'[p] = AfterOpenError(g[p]) /\ \A q \in Procs \ {p} : g'[q] = g[q]
    BY <1>2, <1>15
  <2> QED BY <2>1, <1>1, IdleFields DEF AfterOpenError, Goroutine, Locals
<1>16. ASSUME Become(p, AfterOpen(g[p]))
      PROVE  \/ g[p].op = "tunnel" /\ Locals(p, "idle", "none", None, None, None, None, None)
             \/ g[p].op # "tunnel" /\ Locals(p, "dohHandshake", g[p].op, g[p].tried, g[p].hold, g[p].dconn, g[p].failed, g[p].waitOn)
  <2>1. g'[p] = AfterOpen(g[p]) /\ \A q \in Procs \ {p} : g'[q] = g[q]
    BY <1>2, <1>16
  <2> QED BY <2>1, <1>1, IdleFields DEF AfterOpen, Goroutine, Locals
<1>17. ASSUME NEW l, Goto(p, l)
      PROVE  Locals(p, l, g[p].op, g[p].tried, g[p].hold, g[p].dconn, g[p].failed, g[p].waitOn)
  BY <1>1, <1>17 DEF Goto, Goroutine, Locals
<1> QED BY <1>3, <1>4, <1>5, <1>6, <1>7, <1>8, <1>9, <1>10, <1>11, <1>12, <1>13, <1>14, <1>15, <1>16, <1>17, Zenon

(* The effect of each step on the goroutine that takes it, for the steps    *)
(* whose effect on the shared state does not depend on which it is.         *)
LEMMA StepLocals ==
  ASSUME TypeOK, NEW p \in Procs
  PROVE  /\ StartTunnel(p) =>
              Locals(p, "open", "tunnel", None, None, None, None, None)
         /\ StartLookup(p) =>
              Locals(p, "dohLive", "lookup", None, None, None, None, None)
         /\ Open(p) =>
              \/ Locals(p, "openStream", g[p].op, cur, g[p].hold, g[p].dconn, g[p].failed, g[p].waitOn)
              \/ Locals(p, "rcLock", g[p].op, None, g[p].hold, g[p].dconn, g[p].failed, g[p].waitOn)
         /\ OpenStreamOK(p) =>
              \/ g[p].op = "tunnel" /\ Locals(p, "idle", "none", None, None, None, None, None)
              \/ g[p].op # "tunnel" /\ Locals(p, "dohHandshake", g[p].op, g[p].tried, g[p].hold, g[p].dconn, g[p].failed, g[p].waitOn)
         /\ OpenStreamFails(p) =>
              \/ g[p].op = "tunnel" /\ Locals(p, "idle", "none", None, None, None, None, None)
              \/ g[p].op # "tunnel" /\ Locals(p, "open", g[p].op, None, None, g[p].dconn, g[p].failed, g[p].waitOn)
              \/ g[p].op # "tunnel" /\ Locals(p, "dohInstall", g[p].op, None, None, g[p].dconn, g[p].failed, g[p].waitOn)
              \/ Locals(p, "rcLock", g[p].op, g[p].tried, g[p].hold, g[p].dconn, g[p].failed, g[p].waitOn)
         /\ Reopen(p) =>
              \/ Locals(p, "reopenStream", g[p].op, cur, g[p].hold, g[p].dconn, g[p].failed, g[p].waitOn)
              \/ g[p].op = "tunnel" /\ Locals(p, "idle", "none", None, None, None, None, None)
              \/ g[p].op # "tunnel" /\ Locals(p, "open", g[p].op, None, None, g[p].dconn, g[p].failed, g[p].waitOn)
              \/ g[p].op # "tunnel" /\ Locals(p, "dohInstall", g[p].op, None, None, g[p].dconn, g[p].failed, g[p].waitOn)
         /\ ReopenStream(p) =>
              \/ g[p].op = "tunnel" /\ Locals(p, "idle", "none", None, None, None, None, None)
              \/ g[p].op # "tunnel" /\ Locals(p, "dohHandshake", g[p].op, g[p].tried, g[p].hold, g[p].dconn, g[p].failed, g[p].waitOn)
              \/ g[p].op # "tunnel" /\ Locals(p, "open", g[p].op, None, None, g[p].dconn, g[p].failed, g[p].waitOn)
              \/ g[p].op # "tunnel" /\ Locals(p, "dohInstall", g[p].op, None, None, g[p].dconn, g[p].failed, g[p].waitOn)
         /\ RcLock(p) =>
              Locals(p, "rcCheck", g[p].op, g[p].tried, g[p].hold, g[p].dconn, g[p].failed, g[p].waitOn)
         /\ RcSettingsOK(p) =>
              Locals(p, "rcInstall", g[p].op, g[p].tried, g[p].hold, g[p].dconn, g[p].failed, g[p].waitOn)
         /\ RcCloseOld(p) =>
              Locals(p, "rcInval", g[p].op, g[p].tried, None, g[p].dconn, g[p].failed, g[p].waitOn)
         /\ RcInval(p) =>
              Locals(p, "reopen", g[p].op, None, None, g[p].dconn, g[p].failed, g[p].waitOn)
         /\ DohWaitCancelled(p) =>
              Locals(p, "idle", "none", None, None, None, None, None)
         /\ DohHandshakeFails(p) =>
              \/ g[p].op = "tunnel" /\ Locals(p, "idle", "none", None, None, None, None, None)
              \/ g[p].op # "tunnel" /\ Locals(p, "open", g[p].op, None, None, g[p].dconn, g[p].failed, g[p].waitOn)
              \/ g[p].op # "tunnel" /\ Locals(p, "dohInstall", g[p].op, None, None, g[p].dconn, g[p].failed, g[p].waitOn)
         /\ QueryAnswered(p) =>
              Locals(p, "idle", "none", None, None, None, None, None)
         /\ QueryHalfFailed(p) =>
              Locals(p, "idle", "none", None, None, None, None, None)
         /\ QueryRefused(p) =>
              Locals(p, "idle", "none", None, None, None, None, None)
<1>1. ASSUME StartTunnel(p)
      PROVE  Locals(p, "open", "tunnel", None, None, None, None, None)
  BY <1>1, UpdateFields, Zenon DEF StartTunnel
<1>2. ASSUME StartLookup(p)
      PROVE  Locals(p, "dohLive", "lookup", None, None, None, None, None)
  BY <1>2, UpdateFields, Zenon DEF StartLookup
<1>3. ASSUME Open(p)
      PROVE  \/ Locals(p, "openStream", g[p].op, cur, g[p].hold, g[p].dconn, g[p].failed, g[p].waitOn)
             \/ Locals(p, "rcLock", g[p].op, None, g[p].hold, g[p].dconn, g[p].failed, g[p].waitOn)
  BY <1>3, UpdateFields, Zenon DEF Open
<1>4. ASSUME OpenStreamOK(p)
      PROVE  \/ g[p].op = "tunnel" /\ Locals(p, "idle", "none", None, None, None, None, None)
             \/ g[p].op # "tunnel" /\ Locals(p, "dohHandshake", g[p].op, g[p].tried, g[p].hold, g[p].dconn, g[p].failed, g[p].waitOn)
  BY <1>4, UpdateFields, Zenon DEF OpenStreamOK
<1>5. ASSUME OpenStreamFails(p)
      PROVE  \/ g[p].op = "tunnel" /\ Locals(p, "idle", "none", None, None, None, None, None)
             \/ g[p].op # "tunnel" /\ Locals(p, "open", g[p].op, None, None, g[p].dconn, g[p].failed, g[p].waitOn)
             \/ g[p].op # "tunnel" /\ Locals(p, "dohInstall", g[p].op, None, None, g[p].dconn, g[p].failed, g[p].waitOn)
             \/ Locals(p, "rcLock", g[p].op, g[p].tried, g[p].hold, g[p].dconn, g[p].failed, g[p].waitOn)
  BY <1>5, UpdateFields, Zenon DEF OpenStreamFails
<1>6. ASSUME Reopen(p)
      PROVE  \/ Locals(p, "reopenStream", g[p].op, cur, g[p].hold, g[p].dconn, g[p].failed, g[p].waitOn)
             \/ g[p].op = "tunnel" /\ Locals(p, "idle", "none", None, None, None, None, None)
             \/ g[p].op # "tunnel" /\ Locals(p, "open", g[p].op, None, None, g[p].dconn, g[p].failed, g[p].waitOn)
             \/ g[p].op # "tunnel" /\ Locals(p, "dohInstall", g[p].op, None, None, g[p].dconn, g[p].failed, g[p].waitOn)
  BY <1>6, UpdateFields, Zenon DEF Reopen
<1>7. ASSUME ReopenStream(p)
      PROVE  \/ g[p].op = "tunnel" /\ Locals(p, "idle", "none", None, None, None, None, None)
             \/ g[p].op # "tunnel" /\ Locals(p, "dohHandshake", g[p].op, g[p].tried, g[p].hold, g[p].dconn, g[p].failed, g[p].waitOn)
             \/ g[p].op # "tunnel" /\ Locals(p, "open", g[p].op, None, None, g[p].dconn, g[p].failed, g[p].waitOn)
             \/ g[p].op # "tunnel" /\ Locals(p, "dohInstall", g[p].op, None, None, g[p].dconn, g[p].failed, g[p].waitOn)
  BY <1>7, UpdateFields, Zenon DEF ReopenStream
<1>8. ASSUME RcLock(p)
      PROVE  Locals(p, "rcCheck", g[p].op, g[p].tried, g[p].hold, g[p].dconn, g[p].failed, g[p].waitOn)
  BY <1>8, UpdateFields, Zenon DEF RcLock
<1>9. ASSUME RcSettingsOK(p)
      PROVE  Locals(p, "rcInstall", g[p].op, g[p].tried, g[p].hold, g[p].dconn, g[p].failed, g[p].waitOn)
  BY <1>9, UpdateFields, Zenon DEF RcSettingsOK
<1>10. ASSUME RcCloseOld(p)
      PROVE  Locals(p, "rcInval", g[p].op, g[p].tried, None, g[p].dconn, g[p].failed, g[p].waitOn)
  BY <1>10, UpdateFields, Zenon DEF RcCloseOld
<1>11. ASSUME RcInval(p)
      PROVE  Locals(p, "reopen", g[p].op, None, None, g[p].dconn, g[p].failed, g[p].waitOn)
  BY <1>11, UpdateFields, Zenon DEF RcInval
<1>12. ASSUME DohWaitCancelled(p)
      PROVE  Locals(p, "idle", "none", None, None, None, None, None)
  BY <1>12, UpdateFields, Zenon DEF DohWaitCancelled
<1>13. ASSUME DohHandshakeFails(p)
      PROVE  \/ g[p].op = "tunnel" /\ Locals(p, "idle", "none", None, None, None, None, None)
             \/ g[p].op # "tunnel" /\ Locals(p, "open", g[p].op, None, None, g[p].dconn, g[p].failed, g[p].waitOn)
             \/ g[p].op # "tunnel" /\ Locals(p, "dohInstall", g[p].op, None, None, g[p].dconn, g[p].failed, g[p].waitOn)
  BY <1>13, UpdateFields, Zenon DEF DohHandshakeFails
<1>14. ASSUME QueryAnswered(p)
      PROVE  Locals(p, "idle", "none", None, None, None, None, None)
  BY <1>14, UpdateFields, Zenon DEF QueryAnswered
<1>15. ASSUME QueryHalfFailed(p)
      PROVE  Locals(p, "idle", "none", None, None, None, None, None)
  BY <1>15, UpdateFields, Zenon DEF QueryHalfFailed
<1>16. ASSUME QueryRefused(p)
      PROVE  Locals(p, "idle", "none", None, None, None, None, None)
  BY <1>16, UpdateFields, Zenon DEF QueryRefused
<1> QED BY <1>1, <1>2, <1>3, <1>4, <1>5, <1>6, <1>7, <1>8, <1>9, <1>10, <1>11, <1>12, <1>13, <1>14, <1>15, <1>16, Zenon

-----------------------------------------------------------------------------
(* The connection manager: who owns which bundle.                           *)

(* reconnectMu is held exactly by the goroutine that is inside reconnect. *)
MutexInv ==
  /\ \A p \in Procs : g[p].pc \in InReconnect => reconnectMu = p
  /\ reconnectMu # None => g[reconnectMu].pc \in InReconnect

(* A goroutine holds a bundle only between dialling and closing it. *)
HoldInv ==
  \A p \in Procs :
    /\ g[p].hold # None => g[p].pc \in {"rcSettings", "rcInstall", "rcCloseOld"}
    /\ g[p].hold \in madeB \cup {None}

(* A reconnect under way was right to start: what it will replace is dead   *)
(* or is the connection it was called for.                                  *)
ReplaceInv ==
  \A p \in Procs :
    g[p].pc \in {"rcDial", "rcSettings", "rcInstall"} => cur \notin alive \/ cur = g[p].tried

ReconnectInv ==
  /\ MutexInv /\ HoldInv /\ ReplaceInv
  /\ BundleOwned /\ ClosedStaysClosed
  /\ cur \in madeB \cup {None}
  /\ closeHold # None => closer = "bundle"

(* A step that is no step of reconnect, seen from the connection manager:   *)
(* it leaves the shared state alone and moves no goroutine into, inside or  *)
(* out of reconnect.                                                        *)
Bystander ==
  /\ UNCHANGED <<cur, closed, open, alive, madeB, reconnectMu, closer, closeHold>>
  /\ \A q \in Procs :
       \/ /\ g[q].pc \notin InReconnect /\ g'[q].pc \notin InReconnect
          /\ g'[q].hold \in {None, g[q].hold}
       \/ g'[q].pc = g[q].pc /\ g'[q].hold = g[q].hold /\ g'[q].tried = g[q].tried

(* Everything a goroutine does outside reconnect is a bystander's step. *)
LEMMA OutsideIsBystander ==
  ASSUME TypeOK, NEW p \in Procs,
         \/ StartTunnel(p) \/ StartLookup(p) \/ CtxDone(p)
         \/ Open(p) \/ OpenStreamOK(p) \/ OpenStreamFails(p) \/ Reopen(p) \/ ReopenStream(p)
         \/ DohLive(p) \/ DohJoin(p) \/ DohWaitCancelled(p)
         \/ DohHandshakeOK(p) \/ DohHandshakeFails(p)
         \/ DohCheck(p) \/ DohInstall(p) \/ DohRecheck(p)
         \/ QueryAnswered(p) \/ QueryHalfFailed(p) \/ QueryRefused(p) \/ QueryTransport(p)
  PROVE  Bystander
<1>. DEFINE Quiet == UNCHANGED <<cur, closed, open, alive, madeB, reconnectMu, closer, closeHold>>
            Moves == /\ g'[p].hold \in {None, g[p].hold}
                     /\ \A q \in Procs \ {p} : g'[q] = g[q]
<1>1. /\ g \in [Procs -> Goroutine] /\ g[p] \in Goroutine
      /\ \A q \in Procs : g[q] \in Goroutine
  BY FieldType DEF TypeOK
<1>2. Quiet /\ Moves /\ g[p].pc \notin InReconnect /\ g'[p].pc \notin InReconnect => Bystander
  BY DEF Bystander
<1>. USE DEF At, connVars, lockVars, endVars
<1>3. CASE StartTunnel(p)
  <2>1. g[p].pc = "idle" /\ Quiet
    BY <1>3 DEF StartTunnel
  <2>2. Moves /\ g'[p].pc \in {"open"}
    BY <1>3, StepLocals, Zenon DEF Locals
  <2> QED BY <1>2, <2>1, <2>2 DEF InReconnect
<1>4. CASE StartLookup(p)
  <2>1. g[p].pc = "idle" /\ Quiet
    BY <1>4 DEF StartLookup
  <2>2. Moves /\ g'[p].pc \in {"dohLive"}
    BY <1>4, StepLocals, Zenon DEF Locals
  <2> QED BY <1>2, <2>1, <2>2 DEF InReconnect
<1>5. CASE Open(p)
  <2>1. g[p].pc = "open" /\ Quiet
    BY <1>5 DEF Open
  <2>2. Moves /\ g'[p].pc \in {"openStream", "rcLock"}
    BY <1>5, StepLocals, Zenon DEF Locals
  <2> QED BY <1>2, <2>1, <2>2 DEF InReconnect
<1>6. CASE OpenStreamOK(p)
  <2>1. g[p].pc = "openStream" /\ Quiet
    BY <1>6 DEF OpenStreamOK
  <2>2. Moves /\ g'[p].pc \in {"idle", "dohHandshake"}
    BY <1>6, StepLocals, Zenon DEF Locals
  <2> QED BY <1>2, <2>1, <2>2 DEF InReconnect
<1>7. CASE OpenStreamFails(p)
  <2>1. g[p].pc = "openStream" /\ Quiet
    BY <1>7 DEF OpenStreamFails
  <2>2. Moves /\ g'[p].pc \in {"idle", "open", "dohInstall", "rcLock"}
    BY <1>7, StepLocals, Zenon DEF Locals
  <2> QED BY <1>2, <2>1, <2>2 DEF InReconnect
<1>8. CASE Reopen(p)
  <2>1. g[p].pc = "reopen" /\ Quiet
    BY <1>8 DEF Reopen
  <2>2. Moves /\ g'[p].pc \in {"idle", "open", "dohInstall", "reopenStream"}
    BY <1>8, StepLocals, Zenon DEF Locals
  <2> QED BY <1>2, <2>1, <2>2 DEF InReconnect
<1>9. CASE ReopenStream(p)
  <2>1. g[p].pc = "reopenStream" /\ Quiet
    BY <1>9 DEF ReopenStream
  <2>2. Moves /\ g'[p].pc \in {"idle", "open", "dohInstall", "dohHandshake"}
    BY <1>9, StepLocals, Zenon DEF Locals
  <2> QED BY <1>2, <2>1, <2>2 DEF InReconnect
<1>10. CASE DohLive(p)
  <2>1. g[p].pc = "dohLive" /\ Quiet
    BY <1>10 DEF DohLive
  <2>2. Moves /\ g'[p].pc \in {"query", "dohJoin"}
    BY <1>10, UpdateFields, Zenon DEF DohLive, Locals
  <2> QED BY <1>2, <2>1, <2>2 DEF InReconnect
<1>11. CASE DohJoin(p)
  <2>1. g[p].pc = "dohJoin" /\ Quiet
    BY <1>11 DEF DohJoin
  <2>2. Moves /\ g'[p].pc \in {"dohWait", "open"}
    BY <1>11, UpdateFields, Zenon DEF DohJoin, Locals
  <2> QED BY <1>2, <2>1, <2>2 DEF InReconnect
<1>12. CASE DohWaitCancelled(p)
  <2>1. g[p].pc = "dohWait" /\ Quiet
    BY <1>12 DEF DohWaitCancelled
  <2>2. Moves /\ g'[p].pc \in {"idle"}
    BY <1>12, StepLocals, Zenon DEF Locals
  <2> QED BY <1>2, <2>1, <2>2 DEF InReconnect
<1>13. CASE DohHandshakeOK(p)
  <2>1. g[p].pc = "dohHandshake" /\ Quiet
    BY <1>13 DEF DohHandshakeOK
  <2>2. Moves /\ g'[p].pc \in {"dohCheck"}
    BY <1>13, UpdateFields, Zenon DEF DohHandshakeOK, Locals
  <2> QED BY <1>2, <2>1, <2>2 DEF InReconnect
<1>14. CASE DohHandshakeFails(p)
  <2>1. g[p].pc = "dohHandshake" /\ Quiet
    BY <1>14 DEF DohHandshakeFails
  <2>2. Moves /\ g'[p].pc \in {"idle", "open", "dohInstall"}
    BY <1>14, StepLocals, Zenon DEF Locals
  <2> QED BY <1>2, <2>1, <2>2 DEF InReconnect
<1>15. CASE DohCheck(p)
  <2>1. g[p].pc = "dohCheck" /\ Quiet
    BY <1>15 DEF DohCheck
  <2>2. Moves /\ g'[p].pc \in {"dohInstall"}
    BY <1>15, UpdateFields, Zenon DEF DohCheck, Locals
  <2> QED BY <1>2, <2>1, <2>2 DEF InReconnect
<1>16. CASE DohRecheck(p)
  <2>1. g[p].pc = "dohRecheck" /\ Quiet
    BY <1>16 DEF DohRecheck
  <2>2. Moves /\ g'[p].pc \in {"idle", "query"}
    BY <1>16, UpdateFields, Zenon DEF DohRecheck, Locals
  <2> QED BY <1>2, <2>1, <2>2 DEF InReconnect
<1>17. CASE QueryAnswered(p)
  <2>1. g[p].pc = "query" /\ Quiet
    BY <1>17 DEF QueryAnswered
  <2>2. Moves /\ g'[p].pc \in {"idle"}
    BY <1>17, StepLocals, Zenon DEF Locals
  <2> QED BY <1>2, <2>1, <2>2 DEF InReconnect
<1>18. CASE QueryHalfFailed(p)
  <2>1. g[p].pc = "query" /\ Quiet
    BY <1>18 DEF QueryHalfFailed
  <2>2. Moves /\ g'[p].pc \in {"idle"}
    BY <1>18, StepLocals, Zenon DEF Locals
  <2> QED BY <1>2, <2>1, <2>2 DEF InReconnect
<1>19. CASE QueryRefused(p)
  <2>1. g[p].pc = "query" /\ Quiet
    BY <1>19 DEF QueryRefused
  <2>2. Moves /\ g'[p].pc \in {"idle"}
    BY <1>19, StepLocals, Zenon DEF Locals
  <2> QED BY <1>2, <2>1, <2>2 DEF InReconnect
<1>20. CASE QueryTransport(p)
  <2>1. g[p].pc = "query" /\ Quiet
    BY <1>20 DEF QueryTransport
  <2>2. Moves /\ g'[p].pc \in {"idle", "dohLive"}
    BY <1>20, UpdateFields, Zenon DEF QueryTransport, Locals
  <2> QED BY <1>2, <2>1, <2>2 DEF InReconnect
<1>21. CASE CtxDone(p)
  <2>1. /\ \A q \in Procs : g'[q].pc = g[q].pc /\ g'[q].hold = g[q].hold /\ g'[q].tried = g[q].tried
        /\ Quiet
    BY <1>21, <1>1 DEF CtxDone, Goroutine
  <2> QED BY <2>1 DEF Bystander
<1>22. CASE DohInstall(p)
  <2>1. g[p].pc = "dohInstall" /\ Quiet
    BY <1>22 DEF DohInstall
  <2>2. g'[p].pc \in {"dohRecheck", "idle"} /\ g'[p].hold \in {None, g[p].hold}
    BY <1>22, <1>1, IdleFields DEF DohInstall, Goroutine
  <2>3. ASSUME NEW q \in Procs \ {p}
        PROVE  \/ /\ g[q].pc = "dohWait" /\ g'[q].pc \in {"dohLive", "idle"}
                  /\ g'[q].hold \in {None, g[q].hold}
               \/ g'[q] = g[q]
    BY <1>22, <1>1, IdleFields DEF DohInstall, Woken, Goroutine
  <2> QED BY <2>1, <2>2, <2>3 DEF Bystander, InReconnect
<1> QED BY <1>3, <1>4, <1>5, <1>6, <1>7, <1>8, <1>9, <1>10, <1>11, <1>12, <1>13, <1>14, <1>15, <1>16, <1>17, <1>18, <1>19, <1>20, <1>21, <1>22

(* A bystander's step preserves the invariant of reconnect. *)
LEMMA BystanderPreserves == ASSUME TypeOK, ReconnectInv, Bystander PROVE ReconnectInv'
<1>1. ASSUME NEW q \in Procs
      PROVE  \/ /\ g[q].pc \notin InReconnect /\ g'[q].pc \notin InReconnect
                /\ g[q].hold = None /\ g'[q].hold = None
             \/ g'[q].pc = g[q].pc /\ g'[q].hold = g[q].hold /\ g'[q].tried = g[q].tried
  BY DEF Bystander, ReconnectInv, HoldInv, InReconnect
<1>2. UNCHANGED <<cur, closed, open, alive, madeB, reconnectMu, closer, closeHold>>
  BY DEF Bystander
<1>3. reconnectMu \in Procs \cup {None}
  BY DEF TypeOK
<1>4. MutexInv'
  BY <1>1, <1>2, <1>3 DEF ReconnectInv, MutexInv
<1>5. HoldInv'
  BY <1>1, <1>2 DEF ReconnectInv, HoldInv
<1>6. ReplaceInv'
  BY <1>1, <1>2 DEF ReconnectInv, ReplaceInv, InReconnect
<1>7. BundleOwned'
  BY <1>1, <1>2, <1>3 DEF ReconnectInv, BundleOwned, MutexInv
<1> QED BY <1>2, <1>4, <1>5, <1>6, <1>7 DEF ReconnectInv, ClosedStaysClosed

(* openRequestStream fails: the goroutine is out of reconnect, empty-handed. *)
LEMMA OpenErrorFields ==
  ASSUME TypeOK, NEW p \in Procs, Become(p, AfterOpenError(g[p]))
  PROVE  /\ g'[p].pc \in {"idle", "open", "dohInstall"} /\ g'[p].hold = None
         /\ \A q \in Procs \ {p} : g'[q] = g[q]
<1>1. \/ g[p].op = "tunnel" /\ Locals(p, "idle", "none", None, None, None, None, None)
      \/ Locals(p, "open", g[p].op, None, None, g[p].dconn, g[p].failed, g[p].waitOn)
      \/ Locals(p, "dohInstall", g[p].op, None, None, g[p].dconn, g[p].failed, g[p].waitOn)
  BY UpdateFields, Zenon
<1> QED BY <1>1 DEF Locals

(* Each step of reconnect keeps the ownership of bundles straight. *)
LEMMA ReconnectPreserves ==
  ASSUME TypeOK, ReconnectInv, NEW p \in Procs,
         \/ RcLock(p) \/ RcCheck(p) \/ RcDialOK(p) \/ RcDialFails(p)
         \/ RcSettingsOK(p) \/ RcSettingsFails(p)
         \/ RcInstall(p) \/ RcCloseOld(p) \/ RcInval(p)
  PROVE  ReconnectInv'
<1>1. /\ p # None /\ reconnectMu \in Procs \cup {None} /\ None \notin Procs \cup Bundles
      /\ open \subseteq madeB /\ alive \subseteq open /\ madeB \subseteq Bundles
      /\ cur \in Bundles \cup {None}
  BY NoneAssumption DEF TypeOK, NoneAssumption
<1>2. /\ \A q \in Procs : g[q].pc \in InReconnect => reconnectMu = q
      /\ \A q \in Procs : /\ g[q].hold # None => g[q].pc \in {"rcSettings", "rcInstall", "rcCloseOld"}
                          /\ g[q].hold \in madeB \cup {None}
  BY DEF ReconnectInv, MutexInv, HoldInv
<1>. USE DEF InReconnect, At, connVars, lockVars, endVars
<1>3. CASE RcLock(p)
  <2>1. Locals(p, "rcCheck", g[p].op, g[p].tried, g[p].hold, g[p].dconn, g[p].failed, g[p].waitOn)
    BY <1>3, StepLocals, Zenon
  <2> QED BY <1>3, <1>1, <1>2, <2>1 DEF RcLock, ReconnectInv, MutexInv, HoldInv, ReplaceInv,
                                      BundleOwned, ClosedStaysClosed, Locals
<1>4. CASE RcCheck(p)
  <2>1. \/ AlreadyReconnected(p) /\ reconnectMu' = None /\ Locals(p, "reopen", g[p].op, None, None, g[p].dconn, g[p].failed, g[p].waitOn)
        \/ ~AlreadyReconnected(p) /\ reconnectMu' = reconnectMu /\ Locals(p, "rcDial", g[p].op, g[p].tried, g[p].hold, g[p].dconn, g[p].failed, g[p].waitOn)
    BY <1>4, UpdateFields, Zenon DEF RcCheck
  <2> QED BY <1>4, <1>1, <1>2, <2>1 DEF RcCheck, ReconnectInv, MutexInv, HoldInv, ReplaceInv,
                                      BundleOwned, ClosedStaysClosed, Locals, AlreadyReconnected, HasConnection
<1>5. CASE RcDialOK(p)
  <2>1. PICK x \in Bundles \ madeB :
          /\ open' = open \cup {x} /\ alive' = alive \cup {x} /\ madeB' = madeB \cup {x}
          /\ Locals(p, "rcSettings", g[p].op, g[p].tried, x, g[p].dconn, g[p].failed, g[p].waitOn)
    BY <1>5, UpdateFields, Zenon DEF RcDialOK
  <2>2. g[p].pc = "rcDial" /\ reconnectMu = p /\ g[p].hold = None
    BY <1>5, <1>2 DEF RcDialOK
  <2>3. UNCHANGED <<cur, closed, reconnectMu, closer, closeHold>>
    BY <1>5 DEF RcDialOK
  <2>4. MutexInv'
    BY <1>1, <2>1, <2>2, <2>3 DEF ReconnectInv, MutexInv, Locals
  <2>5. HoldInv'
    BY <1>2, <2>1, <2>3 DEF HoldInv, Locals
  <2>6. ReplaceInv' /\ cur' \in madeB' \cup {None}
    BY <1>1, <2>1, <2>2, <2>3 DEF ReconnectInv, ReplaceInv, Locals
  <2>7. BundleOwned'
    BY <1>1, <2>1, <2>2, <2>3 DEF ReconnectInv, BundleOwned, Locals
  <2> QED BY <2>3, <2>4, <2>5, <2>6, <2>7 DEF ReconnectInv, ClosedStaysClosed
<1>6. CASE RcDialFails(p)
  <2>1. \/ /\ reconnectMu' = None
           /\ g'[p].pc \in {"idle", "open", "dohInstall"} /\ g'[p].hold = None
           /\ \A q \in Procs \ {p} : g'[q] = g[q]
        \/ reconnectMu' = reconnectMu /\ Locals(p, "rcDial", g[p].op, g[p].tried, None, g[p].dconn, g[p].failed, g[p].waitOn)
    BY <1>6, UpdateFields, OpenErrorFields, Zenon DEF RcDialFails, NextAddr
  <2> QED BY <1>6, <1>1, <1>2, <2>1 DEF RcDialFails, ReconnectInv, MutexInv, HoldInv, ReplaceInv,
                                      BundleOwned, ClosedStaysClosed, Locals
<1>7. CASE RcSettingsOK(p)
  <2>1. Locals(p, "rcInstall", g[p].op, g[p].tried, g[p].hold, g[p].dconn, g[p].failed, g[p].waitOn)
    BY <1>7, StepLocals, Zenon
  <2> QED BY <1>7, <1>1, <1>2, <2>1 DEF RcSettingsOK, ReconnectInv, MutexInv, HoldInv, ReplaceInv,
                                      BundleOwned, ClosedStaysClosed, Locals
<1>8. CASE RcSettingsFails(p)
  <2>1. \/ /\ reconnectMu' = None
           /\ g'[p].pc \in {"idle", "open", "dohInstall"} /\ g'[p].hold = None
           /\ \A q \in Procs \ {p} : g'[q] = g[q]
        \/ reconnectMu' = reconnectMu /\ Locals(p, "rcDial", g[p].op, g[p].tried, None, g[p].dconn, g[p].failed, g[p].waitOn)
    BY <1>8, UpdateFields, OpenErrorFields, Zenon DEF RcSettingsFails, NextAddr
  <2> QED BY <1>8, <1>1, <1>2, <2>1 DEF RcSettingsFails, ReconnectInv, MutexInv, HoldInv, ReplaceInv,
                                      BundleOwned, ClosedStaysClosed, Locals
<1>9. CASE RcInstall(p)
  <2>1. \/ /\ ~closed /\ cur' = g[p].hold /\ UNCHANGED <<open, alive, reconnectMu>>
           /\ Locals(p, "rcCloseOld", g[p].op, g[p].tried, cur, g[p].dconn, g[p].failed, g[p].waitOn)
        \/ /\ open' = open \ {g[p].hold} /\ alive' = alive \ {g[p].hold}
           /\ reconnectMu' = None /\ cur' = cur
           /\ g'[p].pc \in {"idle", "open", "dohInstall"} /\ g'[p].hold = None
           /\ \A q \in Procs \ {p} : g'[q] = g[q]
    BY <1>9, UpdateFields, OpenErrorFields, Zenon DEF RcInstall, MayInstall
  <2> QED BY <1>9, <1>1, <1>2, <2>1 DEF RcInstall, ReconnectInv, MutexInv, HoldInv, ReplaceInv,
                                      BundleOwned, ClosedStaysClosed, Locals
<1>10. CASE RcCloseOld(p)
  <2>1. Locals(p, "rcInval", g[p].op, g[p].tried, None, g[p].dconn, g[p].failed, g[p].waitOn)
    BY <1>10, StepLocals, Zenon
  <2> QED BY <1>10, <1>1, <1>2, <2>1 DEF RcCloseOld, ReconnectInv, MutexInv, HoldInv, ReplaceInv,
                                      BundleOwned, ClosedStaysClosed, Locals
<1>11. CASE RcInval(p)
  <2>1. Locals(p, "reopen", g[p].op, None, None, g[p].dconn, g[p].failed, g[p].waitOn)
    BY <1>11, StepLocals, Zenon
  <2> QED BY <1>11, <1>1, <1>2, <2>1 DEF RcInval, ReconnectInv, MutexInv, HoldInv, ReplaceInv,
                                      BundleOwned, ClosedStaysClosed, Locals
<1> QED BY <1>3, <1>4, <1>5, <1>6, <1>7, <1>8, <1>9, <1>10, <1>11

(* Neither do the environment and Close disturb it. *)
LEMMA OthersPreserve ==
  ASSUME TypeOK, ReconnectInv,
         \/ \E b \in Bundles : BundleDies(b)
         \/ \E d \in Dohs : DohBreaks(d)
         \/ StragglerEnds \/ CloseInval \/ CloseSet \/ CloseBundle
  PROVE  ReconnectInv'
<1>1. /\ None \notin Procs \cup Bundles
      /\ open \subseteq madeB /\ alive \subseteq open /\ madeB \subseteq Bundles
  BY NoneAssumption DEF TypeOK, NoneAssumption
<1>. USE DEF ReconnectInv, MutexInv, HoldInv, ReplaceInv, BundleOwned, ClosedStaysClosed,
             connVars, lockVars, endVars
<1>2. ASSUME NEW b \in Bundles, BundleDies(b) PROVE ReconnectInv'
  BY <1>1, <1>2 DEF BundleDies
<1>3. ASSUME NEW d \in Dohs, DohBreaks(d) PROVE ReconnectInv'
  BY <1>1, <1>3 DEF DohBreaks
<1>4. CASE StragglerEnds
  BY <1>1, <1>4 DEF StragglerEnds
<1>5. CASE CloseInval
  BY <1>1, <1>5 DEF CloseInval
<1>6. CASE CloseSet
  BY <1>1, <1>6 DEF CloseSet
<1>7. CASE CloseBundle
  BY <1>1, <1>7 DEF CloseBundle
<1> QED BY <1>2, <1>3, <1>4, <1>5, <1>6, <1>7

(* The invariant of reconnect holds at first. *)
LEMMA InitReconnect == Init => ReconnectInv
BY IdleFields, NoneAssumption
   DEF Init, ReconnectInv, MutexInv, HoldInv, ReplaceInv, BundleOwned, ClosedStaysClosed,
       InReconnect, NoneAssumption

(* Every step preserves the invariant of reconnect. *)
LEMMA NextReconnect == TypeOK /\ ReconnectInv /\ [Next]_vars => ReconnectInv'
<1>. SUFFICES ASSUME TypeOK, ReconnectInv, [Next]_vars PROVE ReconnectInv'
  OBVIOUS
<1>1. ASSUME NEW p \in Procs,
             StartTunnel(p) \/ StartLookup(p) \/ RcLock(p) \/ Step(p) \/ CtxDone(p)
      PROVE  ReconnectInv'
  BY <1>1, OutsideIsBystander, BystanderPreserves, ReconnectPreserves DEF Step
<1>2. CASE vars' = vars
  BY <1>2 DEF vars, connVars, dohVars, lockVars, endVars, ReconnectInv, MutexInv, HoldInv,
              ReplaceInv, BundleOwned, ClosedStaysClosed
<1> QED BY <1>1, <1>2, OthersPreserve DEF Next

(* No QUIC connection is ever leaked, however reconnects, failures and      *)
(* Close interleave.                                                        *)
THEOREM NoBundleLeaks == Spec => []BundleOwned
<1>1. ReconnectInv => BundleOwned
  BY DEF ReconnectInv
<1> QED BY <1>1, InitType, NextType, InitReconnect, NextReconnect, PTL DEF Spec

(* A closed client never gets a connection back. *)
THEOREM CloseIsFinal == Spec => []ClosedStaysClosed
<1>1. ReconnectInv => ClosedStaysClosed
  BY DEF ReconnectInv
<1> QED BY <1>1, InitType, NextType, InitReconnect, NextReconnect, PTL DEF Spec

(* reconnect only ever replaces a dead connection or the one its caller     *)
(* failed on: of N goroutines that saw one connection die, one dials.       *)
THEOREM ReplacesOnlyStale == Spec => NoHealthyReplaced
<1>1. TypeOK /\ ReconnectInv =>
        [\A p \in Procs : At(p, "rcInstall") /\ g'[p].pc = "rcCloseOld" =>
            cur \notin alive \/ cur = g[p].tried]_vars
  BY DEF ReconnectInv, ReplaceInv, At
<1> QED BY <1>1, InitType, NextType, InitReconnect, NextReconnect, PTL DEF Spec, NoHealthyReplaced

-----------------------------------------------------------------------------
(* The shared DoH connection.                                               *)

(* Labels inside openRequestStream, reconnect included. *)
OpenLabels == InReconnect \cup {"open", "openStream", "rcLock", "reopen", "reopenStream"}

(* dohDial names the goroutine that dials, in both directions. *)
LeadInv ==
  /\ \A p \in Procs : Dialing(p) => dohDial = p
  /\ dohDial # None => Dialing(dohDial)

(* Whoever waits, waits for the flight there is. *)
WaitInv == \A p \in Procs : At(p, "dohWait") => g[p].waitOn = dohDial /\ dohDial # None

(* A running goroutine is a tunnel or a lookup; a tunnel only opens. *)
OpInv ==
  \A p \in Procs :
    /\ g[p].pc # "idle" => g[p].op \in {"tunnel", "lookup"}
    /\ g[p].op = "tunnel" => g[p].pc \in OpenLabels

(* Which DoH connections a goroutine knows: one it dials or queries, and    *)
(* the one its first attempt failed on, which is no longer shared.          *)
CarryInv ==
  \A p \in Procs :
    /\ g[p].dconn # None => /\ g[p].pc \in {"dohCheck", "dohInstall", "dohRecheck", "query"}
                             /\ ride[g[p].dconn] # None
    /\ g[p].failed # None => /\ ride[g[p].failed] # None
                              /\ g[p].failed # doh /\ g[p].failed # g[p].dconn

SharedInv == doh # None => doh \in dohOpen /\ ride[doh] # None

(* A connection just dialled is known to nobody but its dialler. *)
FreshInv ==
  \A p \in Procs : g[p].pc \in {"dohCheck", "dohInstall"} /\ g[p].dconn # None =>
    /\ g[p].dconn \in dohOpen /\ g[p].dconn # doh
    /\ \A q \in Procs \ {p} : g[q].dconn # g[p].dconn
    /\ \A q \in Procs : g[q].failed # g[p].dconn

DohInv == LeadInv /\ WaitInv /\ OpInv /\ CarryInv /\ SharedInv /\ FreshInv

(* The shared connection stays, or is dropped and closed (DropDoh). *)
MayDrop == \/ UNCHANGED <<doh, dohOpen>>
           \/ doh' = None /\ dohOpen' = dohOpen \ {doh}

Others(p) == \A q \in Procs \ {p} : g'[q] = g[q]

(* A step of p that neither enters nor ends a flight and learns of no DoH   *)
(* connection p did not know.                                               *)
Moves(p) ==
  /\ UNCHANGED <<dohDial, ride>> /\ MayDrop /\ Others(p)
  /\ Dialing(p)' = Dialing(p)
  /\ g'[p].pc = "dohWait" => g[p].pc = "dohWait" /\ g'[p].waitOn = g[p].waitOn
  /\ g'[p].pc # "idle" => g'[p].op \in {"tunnel", "lookup"}
  /\ g'[p].op = "tunnel" => g'[p].pc \in OpenLabels
  /\ g'[p].dconn # None => /\ g'[p].dconn = g[p].dconn
                            /\ g'[p].pc \in {"dohCheck", "dohInstall", "dohRecheck", "query"}
  /\ g'[p].failed \in {g[p].failed, None}
  /\ g'[p].pc \in {"dohCheck", "dohInstall"} /\ g'[p].dconn # None =>
       g[p].pc \in {"dohCheck", "dohInstall"}

(* Such a step preserves the invariant. *)
LEMMA MovesPreserves ==
  ASSUME TypeOK, DohInv, NEW p \in Procs, Moves(p)
  PROVE  DohInv'
<1>1. /\ None \notin Procs \cup Dohs /\ dohDial \in Procs \cup {None} /\ doh \in Dohs \cup {None}
      /\ dohOpen \subseteq Dohs
  BY NoneAssumption DEF TypeOK, NoneAssumption
<1>2. /\ \A q \in Procs : Dialing(q)' = Dialing(q)
      /\ Others(p) /\ UNCHANGED <<dohDial, ride>> /\ MayDrop
  BY DEF Moves, Others, Dialing
<1>3. LeadInv' BY <1>1, <1>2 DEF DohInv, LeadInv
<1>4. WaitInv' BY <1>1, <1>2 DEF DohInv, WaitInv, Moves, Others, At
<1>5. OpInv' BY DEF DohInv, OpInv, Moves, Others
<1>6. CarryInv'
  <2> SUFFICES ASSUME NEW q \in Procs
      PROVE  /\ g'[q].dconn # None => /\ g'[q].pc \in {"dohCheck", "dohInstall", "dohRecheck", "query"}
                                       /\ ride[g'[q].dconn] # None
             /\ g'[q].failed # None => /\ ride[g'[q].failed] # None
                                        /\ g'[q].failed # doh' /\ g'[q].failed # g'[q].dconn
    BY <1>2 DEF CarryInv
  <2> QED BY <1>2 DEF DohInv, CarryInv, Moves, Others, MayDrop
<1>7. SharedInv' BY <1>2 DEF DohInv, SharedInv, MayDrop
<1>8. FreshInv'
  <2> SUFFICES ASSUME NEW q \in Procs, g'[q].pc \in {"dohCheck", "dohInstall"}, g'[q].dconn # None
      PROVE  /\ g'[q].dconn \in dohOpen' /\ g'[q].dconn # doh'
             /\ \A r \in Procs \ {q} : g'[r].dconn # g'[q].dconn
             /\ \A r \in Procs : g'[r].failed # g'[q].dconn
    BY DEF FreshInv
  <2>1. /\ g[q].pc \in {"dohCheck", "dohInstall"} /\ g'[q].dconn = g[q].dconn
        /\ \A r \in Procs : g'[r].dconn \in {g[r].dconn, None} /\ g'[r].failed \in {g[r].failed, None}
    BY <1>2 DEF Moves, Others
  <2> QED BY <1>2, <2>1 DEF DohInv, FreshInv, MayDrop
<1> QED BY <1>3, <1>4, <1>5, <1>6, <1>7, <1>8 DEF DohInv

(* p stays inside openRequestStream, or comes back from it to the dial.     *)
Works(p) ==
  /\ g[p].pc \in OpenLabels \cup {"dohHandshake"}
  /\ \/ g[p].op = "tunnel" /\ g'[p].pc = "idle" /\ g'[p].op = "none" /\ g'[p].dconn = None /\ g'[p].failed = None
     \/ /\ g'[p].pc \in OpenLabels \/ (g[p].op # "tunnel" /\ g'[p].pc \in {"dohHandshake", "dohInstall"})
        /\ g'[p].op = g[p].op /\ g'[p].dconn = g[p].dconn /\ g'[p].failed = g[p].failed

(* It is a step the flight does not notice. *)
LEMMA WorksMoves ==
  ASSUME TypeOK, DohInv, NEW p \in Procs,
         Works(p), UNCHANGED <<dohDial, ride>>, MayDrop, Others(p)
  PROVE  Moves(p)
<1>1. g[p].op \in {"tunnel", "lookup"} /\ g[p].dconn = None
  BY DEF DohInv, OpInv, CarryInv, Works, OpenLabels, InReconnect
<1>2. Dialing(p)' = Dialing(p) BY <1>1 DEF Works, Dialing, OpenLabels
<1>3. g'[p].pc # "dohWait" /\ g'[p].dconn = None BY <1>1 DEF Works, OpenLabels, InReconnect
<1>4. /\ g'[p].pc # "idle" => g'[p].op \in {"tunnel", "lookup"}
      /\ g'[p].op = "tunnel" => g'[p].pc \in OpenLabels
      /\ g'[p].failed \in {g[p].failed, None}
  BY <1>1 DEF Works
<1> QED BY <1>2, <1>3, <1>4 DEF Moves

(* openRequestStream and reconnect, for a tunnel or inside the DoH dial. *)
LEMMA OpenersMove ==
  ASSUME TypeOK, DohInv, NEW p \in Procs,
         \/ Open(p) \/ OpenStreamOK(p) \/ OpenStreamFails(p) \/ Reopen(p) \/ ReopenStream(p)
         \/ RcLock(p) \/ RcCheck(p) \/ RcDialOK(p) \/ RcDialFails(p) \/ RcSettingsOK(p)
         \/ RcSettingsFails(p) \/ RcInstall(p) \/ RcCloseOld(p) \/ RcInval(p) \/ DohHandshakeFails(p)
  PROVE  Moves(p)
<1> USE DEF At
<1>1. /\ g[p].pc \in OpenLabels \cup {"dohHandshake"} /\ UNCHANGED <<dohDial, ride>> /\ MayDrop
  BY DEF Open, OpenStreamOK, OpenStreamFails, Reopen, ReopenStream, RcLock, RcCheck, RcDialOK, RcDialFails,
         RcSettingsOK, RcSettingsFails, RcInstall, RcCloseOld, RcInval, DohHandshakeFails,
         InvalidateDoH, DropDoh, MayDrop, dohVars, OpenLabels, InReconnect
<1> DEFINE Gone == Locals(p, "idle", "none", None, None, None, None, None)
           To(l, t, h) == Locals(p, l, g[p].op, t, h, g[p].dconn, g[p].failed, g[p].waitOn)
<1>2. \/ g[p].op = "tunnel" /\ Gone
      \/ \E t, h : \E l \in OpenLabels : To(l, t, h)
      \/ g[p].op # "tunnel" /\ \E t, h : \E l \in {"dohHandshake", "dohInstall"} : To(l, t, h)
  <2>1. /\ "open" \in OpenLabels /\ "openStream" \in OpenLabels /\ "rcLock" \in OpenLabels
        /\ "rcCheck" \in OpenLabels /\ "rcDial" \in OpenLabels /\ "rcSettings" \in OpenLabels
        /\ "rcInstall" \in OpenLabels /\ "rcCloseOld" \in OpenLabels /\ "rcInval" \in OpenLabels
        /\ "reopen" \in OpenLabels /\ "reopenStream" \in OpenLabels
    BY DEF OpenLabels, InReconnect
  <2>2. Become(p, AfterOpenError(g[p])) =>
           \/ g[p].op = "tunnel" /\ Gone
           \/ To("open", None, None)
           \/ g[p].op # "tunnel" /\ To("dohInstall", None, None)
    BY UpdateFields, Zenon
  <2>3. CASE RcCheck(p)
    <3>1. To("reopen", None, None) \/ To("rcDial", g[p].tried, g[p].hold)
      BY <2>3, UpdateFields, Zenon DEF RcCheck
    <3> QED BY <2>1, <3>1, Zenon
  <2>4. CASE RcDialOK(p)
    <3>1. PICK b : To("rcSettings", g[p].tried, b) BY <2>4, UpdateFields, Zenon DEF RcDialOK
    <3> QED BY <2>1, <3>1, Zenon
  <2>5. CASE RcDialFails(p) \/ RcSettingsFails(p)
    <3>1. Become(p, AfterOpenError(g[p])) \/ To("rcDial", g[p].tried, None)
      BY <2>5, UpdateFields, Zenon DEF RcDialFails, RcSettingsFails, NextAddr
    <3> QED BY <2>1, <2>2, <3>1, Zenon
  <2>6. CASE RcInstall(p)
    <3>1. Become(p, AfterOpenError(g[p])) \/ To("rcCloseOld", g[p].tried, cur)
      BY <2>6, UpdateFields, Zenon DEF RcInstall
    <3> QED BY <2>1, <2>2, <3>1, Zenon
  <2>7. CASE Open(p)
    <3>1. To("openStream", cur, g[p].hold) \/ To("rcLock", None, g[p].hold) BY <2>7, StepLocals, Zenon
    <3> QED BY <2>1, <3>1, Zenon
  <2>8. CASE OpenStreamOK(p) \/ ReopenStream(p)
    <3>1. \/ g[p].op = "tunnel" /\ Gone
          \/ To("open", None, None)
          \/ g[p].op # "tunnel" /\ (To("dohHandshake", g[p].tried, g[p].hold) \/ To("dohInstall", None, None))
      BY <2>8, StepLocals, Zenon
    <3> QED BY <2>1, <3>1, Zenon
  <2>9. CASE OpenStreamFails(p)
    <3>1. Become(p, AfterOpenError(g[p])) \/ To("rcLock", g[p].tried, g[p].hold)
      BY <2>9, UpdateFields, Zenon DEF OpenStreamFails
    <3> QED BY <2>1, <2>2, <3>1, Zenon
  <2>10. CASE Reopen(p)
    <3>1. Become(p, AfterOpenError(g[p])) \/ To("reopenStream", cur, g[p].hold)
      BY <2>10, UpdateFields, Zenon DEF Reopen
    <3> QED BY <2>1, <2>2, <3>1, Zenon
  <2>11. CASE RcLock(p) \/ RcSettingsOK(p) \/ RcCloseOld(p) \/ RcInval(p)
    <3>1. \/ To("rcCheck", g[p].tried, g[p].hold) \/ To("rcInstall", g[p].tried, g[p].hold)
          \/ To("rcInval", g[p].tried, None) \/ To("reopen", None, None)
      BY <2>11, StepLocals, Zenon
    <3> QED BY <2>1, <3>1, Zenon
  <2>12. CASE DohHandshakeFails(p) BY <2>1, <2>2, <2>12, Zenon DEF DohHandshakeFails
  <2> QED BY <2>3, <2>4, <2>5, <2>6, <2>7, <2>8, <2>9, <2>10, <2>11, <2>12
<1>3. Works(p) /\ Others(p) BY <1>1, <1>2 DEF Works, Others, Locals
<1> QED BY <1>1, <1>3, WorksMoves

(* Calls that begin, end, or only lose their context; the second isClosed. *)
LEMMA CallsMove ==
  ASSUME TypeOK, DohInv, NEW p \in Procs,
         \/ StartTunnel(p) \/ StartLookup(p) \/ CtxDone(p) \/ DohWaitCancelled(p) \/ DohRecheck(p)
         \/ QueryAnswered(p) \/ QueryHalfFailed(p) \/ QueryRefused(p)
  PROVE  Moves(p)
<1> USE DEF At
<1>1. g \in [Procs -> Goroutine] /\ g[p] \in Goroutine BY FieldType DEF TypeOK
<1>2. UNCHANGED <<dohDial, ride>> /\ MayDrop
  BY DEF StartTunnel, StartLookup, CtxDone, DohWaitCancelled, DohRecheck, QueryAnswered, QueryHalfFailed,
         QueryRefused, InvalidateDoH, DropDoh, MayDrop, dohVars
<1>3. CASE CtxDone(p)
  <2>1. g' = [g EXCEPT ![p].ctx = TRUE] BY <1>3 DEF CtxDone
  <2>2. /\ g'[p].pc = g[p].pc /\ g'[p].op = g[p].op /\ g'[p].waitOn = g[p].waitOn
        /\ g'[p].dconn = g[p].dconn /\ g'[p].failed = g[p].failed /\ Others(p)
    BY <1>1, <2>1 DEF Goroutine, Others
  <2> QED BY <1>2, <2>2 DEF Moves, Dialing, DohInv, OpInv, CarryInv
<1>4. CASE StartTunnel(p) \/ StartLookup(p)
  <2>1. \/ Locals(p, "open", "tunnel", None, None, None, None, None)
        \/ Locals(p, "dohLive", "lookup", None, None, None, None, None)
    BY <1>4, StepLocals, Zenon
  <2>2. g[p].pc = "idle" BY <1>4 DEF StartTunnel, StartLookup
  <2> QED BY <1>2, <2>1, <2>2 DEF Moves, Dialing, Locals, Others, OpenLabels, InReconnect
<1>5. CASE DohWaitCancelled(p) \/ QueryAnswered(p) \/ QueryHalfFailed(p) \/ QueryRefused(p)
  <2>1. Locals(p, "idle", "none", None, None, None, None, None) BY <1>5, StepLocals, Zenon
  <2>2. g[p].pc \in {"dohWait", "query"}
    BY <1>5 DEF DohWaitCancelled, QueryAnswered, QueryHalfFailed, QueryRefused
  <2> QED BY <1>2, <2>1, <2>2 DEF Moves, Dialing, Locals, Others, OpenLabels, InReconnect
<1>6. CASE DohRecheck(p)
  <2>1. \/ Locals(p, "idle", "none", None, None, None, None, None)
        \/ Locals(p, "query", g[p].op, g[p].tried, g[p].hold, g[p].dconn, g[p].failed, g[p].waitOn)
    BY <1>6, UpdateFields, Zenon DEF DohRecheck
  <2>2. g[p].pc = "dohRecheck" /\ g[p].op = "lookup"
    BY <1>6 DEF DohRecheck, DohInv, OpInv, OpenLabels, InReconnect
  <2> QED BY <1>2, <2>1, <2>2 DEF Moves, Dialing, Locals, Others, OpenLabels, InReconnect
<1> QED BY <1>3, <1>4, <1>5, <1>6

(* The environment and Close: no goroutine moves. *)
LEMMA EnvironmentPreserves ==
  ASSUME TypeOK, DohInv, UNCHANGED <<g, dohDial, ride>>, MayDrop
  PROVE  DohInv'
<1>1. LeadInv' /\ WaitInv' /\ OpInv' BY DEF DohInv, LeadInv, WaitInv, OpInv, Dialing, At
<1>2. CarryInv' /\ SharedInv' BY DEF DohInv, CarryInv, SharedInv, MayDrop
<1>3. FreshInv' BY DEF DohInv, FreshInv, MayDrop
<1> QED BY <1>1, <1>2, <1>3 DEF DohInv

(* liveDoH hands out the shared connection or sends the caller to the dial. *)
LEMMA LivePreserves ==
  ASSUME TypeOK, DohInv, NEW p \in Procs, DohLive(p)
  PROVE  DohInv' /\ Dialing(p)' = Dialing(p) /\ Others(p) /\ g'[p].pc # "dohWait" /\ g[p].pc = "dohLive"
<1>1. g[p].pc = "dohLive" /\ g[p].op = "lookup" /\ g[p].dconn = None /\ UNCHANGED <<dohDial, ride>>
  BY DEF DohLive, At, DohInv, OpInv, CarryInv, OpenLabels, InReconnect
<1>2. CASE doh \in dohUp
  <2>1. /\ UNCHANGED <<doh, dohOpen>> /\ doh # None
        /\ Locals(p, "query", g[p].op, g[p].tried, g[p].hold, doh, g[p].failed, g[p].waitOn)
    <3>1. Locals(p, "query", g[p].op, g[p].tried, g[p].hold, doh, g[p].failed, g[p].waitOn)
      BY <1>2, UpdateFields, Zenon DEF DohLive
    <3>2. UNCHANGED <<doh, dohOpen>> BY <1>2 DEF DohLive
    <3>3. doh # None BY <1>2, NoneAssumption DEF TypeOK, NoneAssumption
    <3> QED BY <3>1, <3>2, <3>3
  <2>2. /\ g'[p].pc = "query" /\ g'[p].op = "lookup" /\ g'[p].dconn = doh /\ g'[p].failed = g[p].failed
        /\ Others(p)
    BY <1>1, <2>1 DEF Locals, Others
  <2>3. \A q \in Procs : Dialing(q)' = Dialing(q) BY <1>1, <2>2 DEF Others, Dialing, InReconnect
  <2>4. LeadInv' /\ WaitInv'
    BY <1>1, <2>2, <2>3, NoneAssumption DEF DohInv, LeadInv, WaitInv, At, Others, TypeOK, NoneAssumption
  <2>5. OpInv' BY <2>2 DEF DohInv, OpInv, Others
  <2>6. CarryInv' /\ SharedInv' BY <1>1, <2>1, <2>2 DEF DohInv, CarryInv, SharedInv, Others
  <2>7. FreshInv' BY <1>1, <2>1, <2>2 DEF DohInv, FreshInv, Others
  <2> QED BY <1>1, <2>2, <2>3, <2>4, <2>5, <2>6, <2>7 DEF DohInv
<1>3. CASE doh \notin dohUp
  <2>1. Locals(p, "dohJoin", g[p].op, g[p].tried, g[p].hold, g[p].dconn, g[p].failed, g[p].waitOn)
    BY <1>3, UpdateFields, Zenon DEF DohLive
  <2>2. MayDrop BY <1>3 DEF DohLive, DropDoh, MayDrop
  <2>3. Moves(p) BY <1>1, <2>1, <2>2 DEF Moves, Locals, Others, Dialing, InReconnect
  <2> QED BY <1>1, <2>1, <2>3, MovesPreserves DEF Moves, Locals
<1> QED BY <1>2, <1>3

(* Joining: lead a flight where there is none, wait where there is one. *)
LEMMA JoinFields ==
  ASSUME TypeOK, DohInv, NEW p \in Procs, DohJoin(p)
  PROVE  /\ g[p].pc = "dohJoin" /\ Others(p) /\ UNCHANGED <<doh, dohOpen, ride>>
         /\ g'[p].op = "lookup" /\ g'[p].dconn = None /\ g'[p].failed = g[p].failed
         /\ \/ dohDial # None /\ dohDial' = dohDial /\ g'[p].pc = "dohWait" /\ g'[p].waitOn = dohDial
            \/ dohDial = None /\ dohDial' = p /\ g'[p].pc = "open"
<1>1. g[p].pc = "dohJoin" /\ g[p].op = "lookup" /\ g[p].dconn = None /\ UNCHANGED <<doh, dohOpen, ride>>
  BY DEF DohJoin, At, DohInv, OpInv, CarryInv, OpenLabels, InReconnect
<1>2. \/ /\ dohDial # None /\ dohDial' = dohDial
         /\ Locals(p, "dohWait", g[p].op, g[p].tried, g[p].hold, g[p].dconn, g[p].failed, dohDial)
      \/ /\ dohDial = None /\ dohDial' = p
         /\ Locals(p, "open", g[p].op, g[p].tried, g[p].hold, g[p].dconn, g[p].failed, g[p].waitOn)
  BY UpdateFields, Zenon DEF DohJoin, MustWait
<1> QED BY <1>1, <1>2 DEF Locals, Others

(* It preserves the invariant. *)
LEMMA JoinPreserves ==
  ASSUME TypeOK, DohInv, NEW p \in Procs, DohJoin(p)
  PROVE  DohInv'
<1> USE JoinFields
<1>0. p # None BY NoneAssumption DEF NoneAssumption
<1>1. LeadInv'
  <2>1. \A q \in Procs \ {p} : Dialing(q)' = Dialing(q) BY DEF Others, Dialing
  <2>2. ~Dialing(p) /\ (Dialing(p)' <=> g'[p].pc = "open") BY DEF Dialing, InReconnect
  <2>3. dohDial \in Procs \cup {None} /\ None \notin Procs BY NoneAssumption DEF TypeOK, NoneAssumption
  <2>4. CASE dohDial = None
    <3>1. dohDial' = p /\ Dialing(p)' BY <2>2, <2>4
    <3>2. \A q \in Procs \ {p} : ~Dialing(q)' BY <2>1, <2>3, <2>4 DEF DohInv, LeadInv
    <3> QED BY <3>1, <3>2 DEF LeadInv, Dialing
  <2>5. CASE dohDial # None
    <3>1. dohDial' = dohDial /\ ~Dialing(p)' BY <2>2, <2>5
    <3>2. dohDial \in Procs \ {p} /\ Dialing(dohDial) BY <2>2, <2>3, <2>5 DEF DohInv, LeadInv
    <3>3. Dialing(dohDial)' BY <2>1, <3>1, <3>2 DEF Dialing
    <3> QED BY <2>1, <3>1, <3>2, <3>3 DEF DohInv, LeadInv
  <2> QED BY <2>4, <2>5
<1>2. WaitInv' BY <1>0 DEF DohInv, WaitInv, At, Others
<1>3. OpInv' BY DEF DohInv, OpInv, Others, OpenLabels
<1>4. CarryInv' /\ SharedInv' BY DEF DohInv, CarryInv, SharedInv, Others
<1>5. FreshInv' BY DEF DohInv, FreshInv, Others
<1> QED BY <1>1, <1>2, <1>3, <1>4, <1>5 DEF DohInv

(* The dial brings a connection nobody has known. *)
LEMMA HandshakePreserves ==
  ASSUME TypeOK, DohInv, NEW p \in Procs, DohHandshakeOK(p)
  PROVE  DohInv' /\ Dialing(p)' = Dialing(p) /\ Others(p) /\ g'[p].pc = "dohCheck" /\ g[p].pc = "dohHandshake"
<1>1. PICK d \in {x \in Dohs : ride[x] = None} :
        /\ ride' = [ride EXCEPT ![d] = g[p].tried] /\ dohOpen' = dohOpen \cup {d}
        /\ Locals(p, "dohCheck", g[p].op, None, g[p].hold, d, g[p].failed, g[p].waitOn)
  BY UpdateFields, Zenon DEF DohHandshakeOK
<1>2. g[p].pc = "dohHandshake" /\ g[p].op = "lookup" /\ UNCHANGED <<doh, dohDial>>
  BY DEF DohHandshakeOK, At, DohInv, OpInv, OpenLabels, InReconnect
<1>3. g[p].tried # None /\ d # None
  BY NoneAssumption DEF DohHandshakeOK, TypeOK, NoneAssumption
<1>4. /\ g'[p].pc = "dohCheck" /\ g'[p].op = "lookup" /\ g'[p].dconn = d /\ g'[p].failed = g[p].failed
      /\ Others(p)
  BY <1>1, <1>2 DEF Locals, Others
<1>5. /\ \A x \in Dohs : ride[x] # None => ride'[x] # None /\ x # d
      /\ ride'[d] # None
  BY <1>1, <1>3 DEF TypeOK
<1>6. /\ \A q \in Procs : g[q].dconn \in Dohs \cup {None} /\ g[q].failed \in Dohs \cup {None}
      /\ doh \in Dohs \cup {None}
  BY FieldType DEF TypeOK
<1>7. /\ \A q \in Procs : g[q].dconn # d /\ g[q].failed # d
      /\ doh # d
  BY <1>1, <1>3 DEF DohInv, CarryInv, SharedInv
<1>8. \A q \in Procs : Dialing(q)' = Dialing(q) BY <1>2, <1>4 DEF Others, Dialing
<1>9. LeadInv' /\ WaitInv'
  BY <1>2, <1>4, <1>8, NoneAssumption DEF DohInv, LeadInv, WaitInv, At, Others, TypeOK, NoneAssumption
<1>10. OpInv' BY <1>4 DEF DohInv, OpInv, Others
<1>11. CarryInv'
  <2>1. /\ g'[p].dconn # None => ride'[g'[p].dconn] # None
        /\ g'[p].failed # None => /\ ride'[g'[p].failed] # None
                                  /\ g'[p].failed # doh' /\ g'[p].failed # g'[p].dconn
    BY <1>2, <1>4, <1>5, <1>6, <1>7 DEF DohInv, CarryInv
  <2>2. ASSUME NEW q \in Procs \ {p}
        PROVE  /\ g[q].dconn # None => ride'[g[q].dconn] # None
               /\ g[q].failed # None => ride'[g[q].failed] # None
    BY <1>5, <1>6 DEF DohInv, CarryInv
  <2> QED BY <1>2, <1>4, <2>1, <2>2 DEF DohInv, CarryInv, Others
<1>12. SharedInv' BY <1>1, <1>2, <1>5, <1>6 DEF DohInv, SharedInv
<1>13. FreshInv' BY <1>1, <1>2, <1>4, <1>7 DEF DohInv, FreshInv, Others
<1> QED BY <1>2, <1>4, <1>8, <1>9, <1>10, <1>11, <1>12, <1>13 DEF DohInv

(* The first isClosed closes nobody's connection but the dialler's own. *)
LEMMA CheckPreserves ==
  ASSUME TypeOK, DohInv, NEW p \in Procs, DohCheck(p)
  PROVE  DohInv' /\ Dialing(p)' = Dialing(p) /\ Others(p) /\ g'[p].pc = "dohInstall" /\ g[p].pc = "dohCheck"
<1>1. g[p].pc = "dohCheck" /\ g[p].op = "lookup" /\ UNCHANGED <<doh, dohDial, ride>>
  BY DEF DohCheck, At, DohInv, OpInv, OpenLabels, InReconnect
<1>2. \/ /\ dohOpen' = dohOpen \ {g[p].dconn}
         /\ Locals(p, "dohInstall", g[p].op, g[p].tried, g[p].hold, None, g[p].failed, g[p].waitOn)
      \/ /\ dohOpen' = dohOpen
         /\ Locals(p, "dohInstall", g[p].op, g[p].tried, g[p].hold, g[p].dconn, g[p].failed, g[p].waitOn)
  BY UpdateFields, Zenon DEF DohCheck
<1>3. /\ g'[p].pc = "dohInstall" /\ g'[p].op = "lookup" /\ g'[p].failed = g[p].failed /\ Others(p)
      /\ \/ dohOpen' = dohOpen \ {g[p].dconn} /\ g'[p].dconn = None
         \/ dohOpen' = dohOpen /\ g'[p].dconn = g[p].dconn
  BY <1>1, <1>2 DEF Locals, Others
<1>4. \A q \in Procs : Dialing(q)' = Dialing(q) BY <1>1, <1>3 DEF Others, Dialing
<1>5. LeadInv' /\ WaitInv'
  BY <1>1, <1>3, <1>4, NoneAssumption DEF DohInv, LeadInv, WaitInv, At, Others, TypeOK, NoneAssumption
<1>6. OpInv' BY <1>3 DEF DohInv, OpInv, Others
<1>7. CarryInv' BY <1>1, <1>3 DEF DohInv, CarryInv, Others
<1>8. SharedInv'
  <2>1. doh # None => doh # g[p].dconn BY <1>1 DEF DohInv, FreshInv
  <2> QED BY <1>1, <1>3, <2>1 DEF DohInv, SharedInv
<1>9. FreshInv'
  <2>1. ASSUME NEW q \in Procs \ {p}, g[q].pc \in {"dohCheck", "dohInstall"}, g[q].dconn # None
        PROVE  g[q].dconn # g[p].dconn
    BY <2>1 DEF DohInv, FreshInv
  <2> QED BY <1>1, <1>3, <2>1 DEF DohInv, FreshInv, Others
<1> QED BY <1>1, <1>3, <1>4, <1>5, <1>6, <1>7, <1>8, <1>9 DEF DohInv

(* The end of the flight: the connection is shared, the waiters are free. *)
LEMMA InstallFields ==
  ASSUME TypeOK, DohInv, NEW p \in Procs, DohInstall(p)
  PROVE  /\ g[p].pc = "dohInstall" /\ g[p].op = "lookup" /\ Dialing(p) /\ dohDial = p
         /\ dohDial' = None /\ UNCHANGED <<dohOpen, ride>>
         /\ doh' = IF g[p].dconn # None THEN g[p].dconn ELSE doh
         /\ \/ g[p].dconn = None /\ g'[p] = Idle
            \/ /\ g'[p].pc = "dohRecheck" /\ g'[p].op = "lookup"
               /\ g'[p].dconn = g[p].dconn /\ g'[p].failed = g[p].failed
         /\ \A q \in Procs \ {p} : g[q].pc # "dohWait" => g'[q] = g[q]
         /\ \A q \in Procs \ {p} : g[q].pc = "dohWait" =>
              \/ g'[q] = Idle
              \/ /\ g'[q].pc = "dohLive" /\ g'[q].op = "lookup"
                 /\ g'[q].dconn = None /\ g'[q].failed = g[q].failed
<1>1. g[p].pc = "dohInstall" /\ g[p].op = "lookup"
  BY DEF DohInstall, At, DohInv, OpInv, OpenLabels, InReconnect
<1>2. Dialing(p) /\ dohDial = p BY <1>1 DEF Dialing, DohInv, LeadInv
<1>3. /\ dohDial' = None /\ UNCHANGED <<dohOpen, ride>>
      /\ doh' = IF g[p].dconn # None THEN g[p].dconn ELSE doh
  BY DEF DohInstall
<1>4. /\ g'[p] = IF g[p].dconn # None THEN [g[p] EXCEPT !.pc = "dohRecheck"] ELSE Idle
      /\ \A q \in Procs \ {p} :
           g'[q] = IF At(q, "dohWait") /\ g[q].waitOn = p THEN Woken(g[q], g[p].dconn # None) ELSE g[q]
  BY DEF DohInstall
<1>5. g[p] \in Goroutine BY FieldType
<1>6. \/ g[p].dconn = None /\ g'[p] = Idle
      \/ /\ g'[p].pc = "dohRecheck" /\ g'[p].op = "lookup"
         /\ g'[p].dconn = g[p].dconn /\ g'[p].failed = g[p].failed
  BY <1>1, <1>4, <1>5 DEF Goroutine
<1>7. ASSUME NEW q \in Procs \ {p}, g[q].pc = "dohWait"
      PROVE  \/ g'[q] = Idle
             \/ /\ g'[q].pc = "dohLive" /\ g'[q].op = "lookup"
                /\ g'[q].dconn = None /\ g'[q].failed = g[q].failed
  <2>1. g[q].waitOn = p /\ g[q].op = "lookup" /\ g[q].dconn = None /\ g[q] \in Goroutine
    BY <1>2, <1>7, FieldType DEF DohInv, WaitInv, OpInv, CarryInv, At, OpenLabels, InReconnect
  <2>2. g'[q] = Idle \/ g'[q] = [g[q] EXCEPT !.pc = "dohLive", !.waitOn = None]
    BY <1>4, <1>7, <2>1 DEF At, Woken
  <2> QED BY <2>1, <2>2 DEF Goroutine
<1>8. \A q \in Procs \ {p} : g[q].pc # "dohWait" => g'[q] = g[q] BY <1>4 DEF At
<1> QED BY <1>1, <1>2, <1>3, <1>6, <1>7, <1>8

(* It preserves the invariant. *)
LEMMA InstallPreserves ==
  ASSUME TypeOK, DohInv, NEW p \in Procs, DohInstall(p)
  PROVE  DohInv'
<1> USE InstallFields, IdleFields
<1>1. ASSUME NEW q \in Procs
      PROVE  /\ ~Dialing(q)' /\ g'[q].pc \notin {"dohWait", "dohCheck", "dohInstall"}
             /\ g'[q].pc # "idle" => g'[q].op \in {"tunnel", "lookup"}
             /\ g'[q].op = "tunnel" => g'[q].pc \in OpenLabels
             /\ g'[q].dconn # None => /\ g'[q].dconn = g[q].dconn
                                       /\ g'[q].pc \in {"dohCheck", "dohInstall", "dohRecheck", "query"}
             /\ g'[q].failed \in {g[q].failed, None}
  <2>1. CASE q = p BY <2>1 DEF Dialing, InReconnect
  <2>2. CASE q # p /\ g[q].pc = "dohWait" BY <2>2 DEF Dialing, InReconnect
  <2>3. CASE q # p /\ g[q].pc # "dohWait"
    <3>1. g'[q] = g[q] /\ ~Dialing(q) BY <2>3 DEF DohInv, LeadInv
    <3>2. g[q].pc \in {"dohCheck", "dohInstall"} => g[q].op = "lookup"
      BY DEF DohInv, OpInv, OpenLabels, InReconnect
    <3> QED BY <2>3, <3>1, <3>2 DEF Dialing, DohInv, OpInv, CarryInv
  <2> QED BY <2>1, <2>2, <2>3
<1>2. LeadInv' BY <1>1 DEF LeadInv
<1>3. WaitInv' /\ OpInv' /\ FreshInv' BY <1>1 DEF WaitInv, OpInv, FreshInv, At
<1>4. SharedInv' BY DEF DohInv, SharedInv, FreshInv, CarryInv
<1>5. CarryInv'
  <2>1. \A q \in Procs : g[p].dconn # None => g[q].failed # g[p].dconn BY DEF DohInv, FreshInv
  <2> QED BY <1>1, <2>1 DEF DohInv, CarryInv
<1> QED BY <1>2, <1>3, <1>4, <1>5 DEF DohInv

(* A transport error: the connection is no longer the shared one when the   *)
(* lookup tries again.                                                      *)
LEMMA TransportPreserves ==
  ASSUME TypeOK, DohInv, NEW p \in Procs, QueryTransport(p)
  PROVE  DohInv' /\ Dialing(p)' = Dialing(p) /\ Others(p) /\ g'[p].pc # "dohWait" /\ g[p].pc = "query"
<1>1. g[p].pc = "query" /\ UNCHANGED <<dohDial, ride>> /\ MayDrop
  BY DEF QueryTransport, At, InvalidateDoH, DropDoh, MayDrop
<1>2. g[p].dconn # None => doh' # g[p].dconn
  BY NoneAssumption DEF QueryTransport, InvalidateDoH, DropDoh, Victim
<1>3. \/ Locals(p, "idle", "none", None, None, None, None, None)
      \/ Locals(p, "dohLive", "lookup", None, None, None, g[p].dconn, None)
  BY UpdateFields, Zenon DEF QueryTransport
<1>4. CASE Locals(p, "idle", "none", None, None, None, None, None)
  <2>1. Moves(p) BY <1>1, <1>4 DEF Moves, Locals, Others, Dialing, InReconnect
  <2> QED BY <1>1, <1>4, <2>1, MovesPreserves DEF Moves, Locals
<1>5. CASE Locals(p, "dohLive", "lookup", None, None, None, g[p].dconn, None)
  <2>1. /\ g'[p].pc = "dohLive" /\ g'[p].op = "lookup" /\ g'[p].dconn = None /\ g'[p].failed = g[p].dconn
        /\ Others(p)
    BY <1>5 DEF Locals, Others
  <2>2. \A q \in Procs : Dialing(q)' = Dialing(q) BY <1>1, <2>1 DEF Others, Dialing, InReconnect
  <2>3. LeadInv' /\ WaitInv'
    BY <1>1, <2>1, <2>2, NoneAssumption DEF DohInv, LeadInv, WaitInv, At, Others, TypeOK, NoneAssumption
  <2>4. OpInv' BY <2>1 DEF DohInv, OpInv, Others
  <2>5. CarryInv' /\ SharedInv' BY <1>1, <1>2, <2>1 DEF DohInv, CarryInv, SharedInv, Others, MayDrop
  <2>6. FreshInv' BY <1>1, <2>1 DEF DohInv, FreshInv, Others, MayDrop
  <2> QED BY <1>1, <2>1, <2>2, <2>3, <2>4, <2>5, <2>6 DEF DohInv
<1> QED BY <1>3, <1>4, <1>5

(* The invariant of the DoH connection holds at first. *)
LEMMA InitDoh == Init => DohInv
BY IdleFields DEF Init, DohInv, LeadInv, WaitInv, OpInv, CarryInv, SharedInv, FreshInv, Dialing, At,
                  InReconnect

(* Steps of nobody: the environment, the straggling question and Close. *)
LEMMA EnvironmentFrame ==
  ASSUME \/ \E b \in Bundles : BundleDies(b)
         \/ \E d \in Dohs : DohBreaks(d)
         \/ StragglerEnds \/ CloseInval \/ CloseSet \/ CloseBundle
         \/ vars' = vars
  PROVE  UNCHANGED <<g, dohDial, ride>> /\ MayDrop
BY DEF BundleDies, DohBreaks, StragglerEnds, CloseInval, CloseSet, CloseBundle, InvalidateDoH, DropDoh,
       MayDrop, vars, dohVars

(* Every step preserves the invariant of the DoH connection. *)
LEMMA NextDoh == TypeOK /\ DohInv /\ [Next]_vars => DohInv'
<1> SUFFICES ASSUME TypeOK, DohInv, [Next]_vars PROVE DohInv'
  OBVIOUS
<1>1. ASSUME NEW p \in Procs,
             StartTunnel(p) \/ StartLookup(p) \/ RcLock(p) \/ Step(p) \/ CtxDone(p)
      PROVE  DohInv'
  BY <1>1, OpenersMove, CallsMove, MovesPreserves, LivePreserves, JoinPreserves, HandshakePreserves,
     CheckPreserves, InstallPreserves, TransportPreserves DEF Step
<1> QED BY <1>1, EnvironmentFrame, EnvironmentPreserves DEF Next

(* The second attempt of a lookup never runs on the connection the first    *)
(* one failed on, whoever has dialled, dropped or shared which one since    *)
(* (the retry of resolveDNS and invalidateDoH by identity).                 *)
THEOREM RetriesAreFresh == Spec => []RetryIsFresh
<1>1. DohInv => RetryIsFresh BY DEF DohInv, CarryInv, RetryIsFresh
<1> QED BY <1>1, InitType, NextType, InitDoh, NextDoh, PTL DEF Spec

(* The shared DoH connection is one this client has not closed.             *)
THEOREM SharedIsOpen == Spec => []SharedDohOpen
<1>1. DohInv => SharedDohOpen BY DEF DohInv, SharedInv, SharedDohOpen
<1> QED BY <1>1, InitType, NextType, InitDoh, NextDoh, PTL DEF Spec

-----------------------------------------------------------------------------
(* The dial of dohConnection implements SingleFlight.                       *)

(* The roles, as SingleFlight sees them. *)
Parts == [k \in {"doh"} |-> [p \in Procs |-> DohRole(p)]]

(* A step that changes one role is a Move. *)
LEMMA OneMoves ==
  ASSUME NEW p \in Procs, \A q \in Procs \ {p} : DohRole(q)' = DohRole(q)
  PROVE  Flight!Move("doh", p, DohRole(p), DohRole(p)')
BY DEF Flight!Move

(* A step after which p and every waiter are out is a Land. *)
LEMMA AllLand ==
  ASSUME NEW p \in Procs, DohRole(p) = "lead", DohRole(p)' = "out",
         \A q \in Procs \ {p} : DohRole(q)' = IF DohRole(q) = "wait" THEN "out" ELSE DohRole(q)
  PROVE  Flight!Land("doh", p)
<1> DEFINE row == [q \in Procs |-> IF q = p THEN "out"
                                   ELSE IF Parts["doh"][q] = "wait" THEN "out" ELSE Parts["doh"][q]]
<1>1. Parts'["doh"] = row BY DEF Parts
<1>2. Parts' = [Parts EXCEPT !["doh"] = row] BY <1>1 DEF Parts
<1> QED BY <1>2 DEF Flight!Land, Parts

(* Every step of MasqueClient is a step of SingleFlight, or none. *)
LEMMA RefineNext ==
  ASSUME TypeOK, DohInv, [Next]_vars
  PROVE  [Flight!Next]_Parts
<1>1. ASSUME \A q \in Procs : DohRole(q)' = DohRole(q) PROVE UNCHANGED Parts
  BY <1>1 DEF Parts
<1>2. ASSUME UNCHANGED g PROVE UNCHANGED Parts
  <2>1. \A q \in Procs : DohRole(q)' = DohRole(q) BY <1>2 DEF DohRole, Dialing, At
  <2> QED BY <1>1, <2>1
<1>3. ASSUME NEW p \in Procs, Others(p) PROVE \A q \in Procs \ {p} : DohRole(q)' = DohRole(q)
  BY <1>3 DEF Others, DohRole, Dialing, At
<1>4. ASSUME NEW p \in Procs, Others(p), Dialing(p)' = Dialing(p),
             g'[p].pc = "dohWait" => g[p].pc = "dohWait"
      PROVE  Flight!Next \/ UNCHANGED Parts
  <2>1. CASE g[p].pc = "dohWait" /\ g'[p].pc # "dohWait"
    <3>1. DohRole(p) = "wait" /\ DohRole(p)' = "out" BY <1>4, <2>1 DEF DohRole, Dialing, At, InReconnect
    <3>2. Flight!GiveUp("doh", p) BY <1>3, <1>4, <3>1, OneMoves DEF Flight!GiveUp
    <3> QED BY <3>2 DEF Flight!Next
  <2>2. CASE g[p].pc = "dohWait" <=> g'[p].pc = "dohWait"
    <3>1. DohRole(p)' = DohRole(p) BY <1>4, <2>2 DEF DohRole, Dialing, At
    <3> QED BY <1>1, <1>3, <1>4, <3>1
  <2> QED BY <1>4, <2>1, <2>2
<1>5. ASSUME NEW p \in Procs, Moves(p) PROVE Flight!Next \/ UNCHANGED Parts
  BY <1>4, <1>5 DEF Moves
<1>6. ASSUME NEW p \in Procs, DohLive(p) \/ DohHandshakeOK(p) \/ DohCheck(p) \/ QueryTransport(p)
      PROVE  Flight!Next \/ UNCHANGED Parts
  BY <1>4, <1>6, LivePreserves, HandshakePreserves, CheckPreserves, TransportPreserves
<1>7. ASSUME NEW p \in Procs, DohJoin(p) PROVE Flight!Next
  <2>1. /\ g[p].pc = "dohJoin" /\ Others(p) /\ g'[p].op = "lookup"
        /\ \/ dohDial # None /\ g'[p].pc = "dohWait"
           \/ dohDial = None /\ g'[p].pc = "open"
    BY <1>7, JoinFields
  <2>2. DohRole(p) = "out" BY <2>1 DEF DohRole, Dialing, At, InReconnect
  <2>3. dohDial \in Procs \cup {None} /\ None \notin Procs BY NoneAssumption DEF TypeOK, NoneAssumption
  <2>4. CASE dohDial # None
    <3>1. DohRole(p)' = "wait" BY <2>1, <2>4 DEF DohRole, Dialing, At, InReconnect
    <3>2. dohDial \in Procs /\ DohRole(dohDial) = "lead" BY <2>3, <2>4 DEF DohInv, LeadInv, DohRole
    <3>3. Flight!Airborne("doh") BY <3>2 DEF Flight!Airborne
    <3>4. Flight!Follow("doh", p) BY <1>3, <2>1, <2>2, <3>1, <3>3, OneMoves DEF Flight!Follow
    <3> QED BY <3>4 DEF Flight!Next
  <2>5. CASE dohDial = None
    <3>1. DohRole(p)' = "lead" BY <2>1, <2>5 DEF DohRole, Dialing, At
    <3>2. \A q \in Procs : DohRole(q) \notin {"lead", "landed"} BY <2>3, <2>5 DEF DohInv, LeadInv, DohRole
    <3>3. ~Flight!Taken("doh") BY <3>2 DEF Flight!Taken
    <3>4. Flight!Lead("doh", p) BY <1>3, <2>1, <2>2, <3>1, <3>3, OneMoves DEF Flight!Lead
    <3> QED BY <3>4 DEF Flight!Next
  <2> QED BY <2>4, <2>5
<1>8. ASSUME NEW p \in Procs, DohInstall(p) PROVE Flight!Next
  <2>1. DohRole(p) = "lead" /\ DohRole(p)' = "out"
    BY <1>8, InstallFields, IdleFields DEF DohRole, Dialing, At, InReconnect
  <2>2. ASSUME NEW q \in Procs \ {p}
        PROVE  DohRole(q)' = IF DohRole(q) = "wait" THEN "out" ELSE DohRole(q)
    <3>1. CASE g[q].pc = "dohWait"
      <4>1. DohRole(q) = "wait" BY <3>1 DEF DohRole, Dialing, At, InReconnect
      <4>2. g'[q].pc \in {"idle", "dohLive"} BY <1>8, <3>1, InstallFields, IdleFields
      <4> QED BY <4>1, <4>2 DEF DohRole, Dialing, At, InReconnect
    <3>2. CASE g[q].pc # "dohWait"
      <4>1. g'[q] = g[q] BY <1>8, <3>2, InstallFields
      <4> QED BY <3>2, <4>1 DEF DohRole, Dialing, At
    <3> QED BY <3>1, <3>2
  <2>3. Flight!Land("doh", p) BY <2>1, <2>2, AllLand
  <2> QED BY <2>3 DEF Flight!Next
<1>9. ASSUME NEW p \in Procs, StartTunnel(p) \/ StartLookup(p) \/ RcLock(p) \/ Step(p) \/ CtxDone(p)
      PROVE  Flight!Next \/ UNCHANGED Parts
  BY <1>5, <1>6, <1>7, <1>8, <1>9, OpenersMove, CallsMove DEF Step
<1> QED BY <1>2, <1>9, EnvironmentFrame DEF Next

(* dohConnection implements SingleFlight: whoever finds no dial leads one,  *)
(* whoever finds one waits, and the end of the dial, good or bad, releases  *)
(* every waiter (dohDial and its done channel).                             *)
THEOREM DialsAreSingle == Spec => DohIsSingleFlight
<1>1. Init => Flight!Init BY IdleFields DEF Init, Flight!Init, DohRole, Dialing, At
<1>2. TypeOK /\ DohInv /\ [Next]_vars => [Flight!Next]_([k \in {"doh"} |-> [p \in Procs |-> DohRole(p)]])
  BY RefineNext DEF Parts
<1> QED BY <1>1, <1>2, InitType, NextType, InitDoh, NextDoh, PTL
        DEF Spec, DohIsSingleFlight, Flight!Spec

-----------------------------------------------------------------------------
(* The connection manager implements ConnHolder.                            *)

(* Labels at which reconnect has a bundle in its hands. *)
Holding == {"rcSettings", "rcInstall", "rcCloseOld"}

(* What reconnect and Close have taken is open and not handed out; an open  *)
(* client always has a connection, dead or alive.                           *)
GraspInv ==
  /\ \A p \in Procs : g[p].pc \in Holding =>
       g[p].hold \in open /\ g[p].hold # cur /\ g[p].hold # closeHold
  /\ cur # None => cur \in open
  /\ closeHold # None => closeHold \in open
  /\ closer \in {"off", "set"} <=> ~closed
  /\ ~closed => cur # None

(* The five things a step of reconnect can do to the bundles. *)
Keeps(p)    == /\ g[p].pc \notin Holding /\ g'[p].pc \notin Holding
               /\ g[p].hold = None /\ g'[p].hold = None
               /\ reconnectMu \in {p, None} /\ reconnectMu' \in {p, None} /\ UNCHANGED <<cur, open>>
Readies(p)  == /\ g[p].pc \in Holding /\ g'[p].pc \in Holding /\ g'[p].hold = g[p].hold
               /\ reconnectMu = p /\ UNCHANGED <<cur, open, reconnectMu>>
Dials(p, b) == /\ g[p].hold = None /\ g'[p].hold = b /\ g'[p].pc \in Holding
               /\ b \notin madeB /\ open' = open \cup {b}
               /\ reconnectMu = p /\ UNCHANGED <<cur, reconnectMu>>
Drops(p)    == /\ g[p].pc \in Holding /\ g'[p].pc \notin Holding /\ g'[p].hold = None
               /\ open' = open \ {g[p].hold}
               /\ reconnectMu = p /\ reconnectMu' \in {p, None} /\ UNCHANGED cur
Swaps(p)    == /\ g[p].pc \in Holding /\ g'[p].pc \in Holding
               /\ ~closed /\ cur' = g[p].hold /\ g'[p].hold = cur
               /\ reconnectMu = p /\ UNCHANGED <<open, reconnectMu>>

(* Each step of reconnect does one of the five. *)
LEMMA ReconnectEffect ==
  ASSUME TypeOK, ReconnectInv, NEW p \in Procs,
         \/ RcLock(p) \/ RcCheck(p) \/ RcDialOK(p) \/ RcDialFails(p)
         \/ RcSettingsOK(p) \/ RcSettingsFails(p)
         \/ RcInstall(p) \/ RcCloseOld(p) \/ RcInval(p)
  PROVE  /\ UNCHANGED <<closed, closer, closeHold>>
         /\ \A q \in Procs \ {p} : g'[q] = g[q]
         /\ \/ Keeps(p) \/ Readies(p) \/ Drops(p) \/ Swaps(p)
            \/ \E b \in Bundles : Dials(p, b)
<1>1. /\ g[p].pc \in InReconnect => reconnectMu = p
      /\ g[p].hold # None => g[p].pc \in Holding
  BY DEF ReconnectInv, MutexInv, HoldInv, Holding
<1>2. UNCHANGED <<closed, closer, closeHold>>
  BY DEF RcLock, RcCheck, RcDialOK, RcDialFails, RcSettingsOK, RcSettingsFails, RcInstall, RcCloseOld,
         RcInval, connVars, endVars
<1> USE DEF InReconnect, Holding, At, connVars, lockVars, Keeps, Readies, Dials, Drops, Swaps
<1>3. CASE RcLock(p)
  <2>1. Locals(p, "rcCheck", g[p].op, g[p].tried, g[p].hold, g[p].dconn, g[p].failed, g[p].waitOn)
    BY <1>3, StepLocals, Zenon
  <2> QED BY <1>1, <1>2, <1>3, <2>1 DEF RcLock, Locals
<1>4. CASE RcCheck(p)
  <2>1. \/ reconnectMu' = None /\ Locals(p, "reopen", g[p].op, None, None, g[p].dconn, g[p].failed, g[p].waitOn)
        \/ reconnectMu' = reconnectMu /\ Locals(p, "rcDial", g[p].op, g[p].tried, g[p].hold, g[p].dconn, g[p].failed, g[p].waitOn)
    BY <1>4, UpdateFields, Zenon DEF RcCheck
  <2> QED BY <1>1, <1>2, <1>4, <2>1 DEF RcCheck, Locals
<1>5. CASE RcDialOK(p)
  <2>1. PICK x \in Bundles \ madeB :
          /\ open' = open \cup {x}
          /\ Locals(p, "rcSettings", g[p].op, g[p].tried, x, g[p].dconn, g[p].failed, g[p].waitOn)
    BY <1>5, UpdateFields, Zenon DEF RcDialOK
  <2>2. Dials(p, x) BY <1>1, <1>5, <2>1 DEF RcDialOK, Locals
  <2> QED BY <1>2, <2>1, <2>2 DEF Locals
<1>6. CASE RcDialFails(p)
  <2>1. \/ /\ reconnectMu' = None
           /\ g'[p].pc \in {"idle", "open", "dohInstall"} /\ g'[p].hold = None
           /\ \A q \in Procs \ {p} : g'[q] = g[q]
        \/ reconnectMu' = reconnectMu /\ Locals(p, "rcDial", g[p].op, g[p].tried, None, g[p].dconn, g[p].failed, g[p].waitOn)
    BY <1>6, UpdateFields, OpenErrorFields, Zenon DEF RcDialFails, NextAddr
  <2> QED BY <1>1, <1>2, <1>6, <2>1 DEF RcDialFails, Locals
<1>7. CASE RcSettingsOK(p)
  <2>1. Locals(p, "rcInstall", g[p].op, g[p].tried, g[p].hold, g[p].dconn, g[p].failed, g[p].waitOn)
    BY <1>7, StepLocals, Zenon
  <2> QED BY <1>1, <1>2, <1>7, <2>1 DEF RcSettingsOK, Locals
<1>8. CASE RcSettingsFails(p)
  <2>1. \/ /\ reconnectMu' = None
           /\ g'[p].pc \in {"idle", "open", "dohInstall"} /\ g'[p].hold = None
           /\ \A q \in Procs \ {p} : g'[q] = g[q]
        \/ reconnectMu' = reconnectMu /\ Locals(p, "rcDial", g[p].op, g[p].tried, None, g[p].dconn, g[p].failed, g[p].waitOn)
    BY <1>8, UpdateFields, OpenErrorFields, Zenon DEF RcSettingsFails, NextAddr
  <2> QED BY <1>1, <1>2, <1>8, <2>1 DEF RcSettingsFails, Locals
<1>9. CASE RcInstall(p)
  <2>1. \/ /\ ~closed /\ cur' = g[p].hold /\ UNCHANGED <<open, reconnectMu>>
           /\ Locals(p, "rcCloseOld", g[p].op, g[p].tried, cur, g[p].dconn, g[p].failed, g[p].waitOn)
        \/ /\ open' = open \ {g[p].hold} /\ reconnectMu' = None /\ cur' = cur
           /\ g'[p].pc \in {"idle", "open", "dohInstall"} /\ g'[p].hold = None
           /\ \A q \in Procs \ {p} : g'[q] = g[q]
    BY <1>9, UpdateFields, OpenErrorFields, Zenon DEF RcInstall, MayInstall
  <2> QED BY <1>1, <1>2, <1>9, <2>1 DEF RcInstall, Locals
<1>10. CASE RcCloseOld(p)
  <2>1. Locals(p, "rcInval", g[p].op, g[p].tried, None, g[p].dconn, g[p].failed, g[p].waitOn)
    BY <1>10, StepLocals, Zenon
  <2> QED BY <1>1, <1>2, <1>10, <2>1 DEF RcCloseOld, Locals
<1>11. CASE RcInval(p)
  <2>1. Locals(p, "reopen", g[p].op, None, None, g[p].dconn, g[p].failed, g[p].waitOn)
    BY <1>11, StepLocals, Zenon
  <2> QED BY <1>1, <1>2, <1>11, <2>1 DEF RcInval, Locals
<1> QED BY <1>3, <1>4, <1>5, <1>6, <1>7, <1>8, <1>9, <1>10, <1>11

(* While p has reconnectMu, or nobody has, the bundles out of circulation   *)
(* are those of p and of Close.                                             *)
LEMMA HandsOf ==
  ASSUME TypeOK, ReconnectInv, NEW p \in Procs, reconnectMu \in {p, None}
  PROVE  InHand = {closeHold, g[p].hold} \ {None}
<1>1. p # None /\ None \notin Bundles BY NoneAssumption DEF NoneAssumption
<1>2. closeHold \in Bundles \cup {None} /\ g[p].hold \in Bundles \cup {None} BY FieldType DEF TypeOK
<1>3. reconnectMu = None => g[p].hold = None
  BY <1>1 DEF ReconnectInv, MutexInv, HoldInv, InReconnect
<1> QED BY <1>1, <1>2, <1>3 DEF InHand

(* A step of reconnect is a step of a holder, or invisible, and keeps what  *)
(* is in hand open.                                                         *)
LEMMA ReconnectHolds ==
  ASSUME TypeOK, ReconnectInv, GraspInv, TypeOK', ReconnectInv', NEW p \in Procs,
         \/ RcLock(p) \/ RcCheck(p) \/ RcDialOK(p) \/ RcDialFails(p)
         \/ RcSettingsOK(p) \/ RcSettingsFails(p)
         \/ RcInstall(p) \/ RcCloseOld(p) \/ RcInval(p)
  PROVE  GraspInv' /\ (Holder!Next \/ UNCHANGED <<cur, closed, InHand, open>>)
<1>1. /\ UNCHANGED <<closed, closer, closeHold>>
      /\ \A q \in Procs \ {p} : g'[q] = g[q]
      /\ \/ Keeps(p) \/ Readies(p) \/ Drops(p) \/ Swaps(p)
         \/ \E b \in Bundles : Dials(p, b)
  BY ReconnectEffect
<1>2. /\ \A q \in Procs \ {p} : g[q].pc \notin Holding \/ reconnectMu # p
      /\ p # None /\ None \notin Bundles
      /\ open \subseteq madeB /\ madeB \subseteq Bundles /\ cur \in Bundles \cup {None}
      /\ g[p].hold \in Bundles \cup {None} /\ closeHold \in Bundles \cup {None}
      /\ closed => cur = None
      /\ ~closed => closeHold = None
  BY FieldType, NoneAssumption
     DEF ReconnectInv, MutexInv, InReconnect, Holding, TypeOK, NoneAssumption, ClosedStaysClosed, GraspInv
<1>3. reconnectMu \in {p, None} => InHand = {closeHold, g[p].hold} \ {None}
  BY HandsOf
<1>4. reconnectMu' \in {p, None} => InHand' = {closeHold, g'[p].hold} \ {None}
  <2> SUFFICES ASSUME reconnectMu' \in {p, None} PROVE InHand' = {closeHold, g'[p].hold} \ {None}
    OBVIOUS
  <2>1. g'[p].hold \in Bundles \cup {None} /\ closeHold' = closeHold BY <1>1, <1>2 DEF Keeps, Readies, Dials, Drops, Swaps
  <2>2. reconnectMu' = None => g'[p].hold = None
    BY <1>2 DEF ReconnectInv, MutexInv, HoldInv, InReconnect
  <2> QED BY <1>2, <2>1, <2>2 DEF InHand
<1>5. CASE Keeps(p)
  <2>1. GraspInv' BY <1>1, <1>5 DEF Keeps, GraspInv
  <2>2. UNCHANGED <<cur, closed, InHand, open>> BY <1>1, <1>3, <1>4, <1>5 DEF Keeps
  <2> QED BY <2>1, <2>2
<1>6. CASE Readies(p)
  <2>1. GraspInv' BY <1>1, <1>6 DEF Readies, GraspInv
  <2>2. UNCHANGED <<cur, closed, InHand, open>> BY <1>1, <1>3, <1>4, <1>6 DEF Readies
  <2> QED BY <2>1, <2>2
<1>7. CASE Drops(p)
  <2>1. GraspInv' BY <1>1, <1>2, <1>7 DEF Drops, GraspInv
  <2>2. g[p].hold \in open /\ g[p].hold # closeHold BY <1>7 DEF Drops, GraspInv
  <2>3. Holder!Discard(g[p].hold) BY <1>1, <1>2, <1>3, <1>4, <1>7, <2>2 DEF Drops, Holder!Discard
  <2> QED BY <1>2, <2>1, <2>2, <2>3 DEF Holder!Next
<1>8. CASE Swaps(p)
  <2>1. g[p].hold \in open /\ g[p].hold # cur /\ cur # None /\ cur \in open /\ closeHold = None
    BY <1>2, <1>8 DEF Swaps, GraspInv
  <2>2. GraspInv' BY <1>1, <1>2, <1>8, <2>1 DEF Swaps, GraspInv
  <2>3. Holder!Publish(g[p].hold)
    BY <1>1, <1>2, <1>3, <1>4, <1>8, <2>1 DEF Swaps, Holder!Publish, Holder!Withdrawn
  <2> QED BY <1>2, <2>1, <2>2, <2>3 DEF Holder!Next
<1>9. ASSUME NEW b \in Bundles, Dials(p, b)
      PROVE  GraspInv' /\ Holder!Next
  <2>1. b \notin open /\ b # cur /\ b # closeHold BY <1>2, <1>9 DEF Dials, GraspInv
  <2>2. GraspInv' BY <1>1, <1>2, <1>9, <2>1 DEF Dials, GraspInv
  <2>3. closed \/ open \subseteq {cur} BY <1>2, <1>9 DEF Dials, ReconnectInv, BundleOwned
  <2>4. Holder!Dial(b) BY <1>1, <1>2, <1>3, <1>4, <1>9, <2>1, <2>3 DEF Dials, Holder!Dial
  <2> QED BY <2>2, <2>4 DEF Holder!Next
<1> QED BY <1>1, <1>5, <1>6, <1>7, <1>8, <1>9

(* A bystander changes nothing a holder sees. *)
LEMMA BystanderHolds ==
  ASSUME TypeOK, ReconnectInv, GraspInv, Bystander
  PROVE  GraspInv' /\ UNCHANGED <<cur, closed, InHand, open>>
<1>1. \A q \in Procs : g'[q].hold = g[q].hold
                       /\ (g'[q].pc \in Holding => g[q].pc \in Holding)
  BY DEF Bystander, ReconnectInv, HoldInv, InReconnect, Holding
<1>2. reconnectMu \in Procs \cup {None} BY DEF TypeOK
<1>3. GraspInv' BY <1>1 DEF Bystander, GraspInv
<1>4. InHand' = InHand BY <1>1, <1>2 DEF Bystander, InHand
<1> QED BY <1>3, <1>4 DEF Bystander

(* Close withdraws the connection and closes it, as a holder does. *)
LEMMA ClosingHolds ==
  ASSUME TypeOK, ReconnectInv, GraspInv,
         \/ \E b \in Bundles : BundleDies(b)
         \/ \E d \in Dohs : DohBreaks(d)
         \/ StragglerEnds \/ CloseInval \/ CloseSet \/ CloseBundle
  PROVE  GraspInv' /\ (Holder!Next \/ UNCHANGED <<cur, closed, InHand, open>>)
<1>1. /\ None \notin Bundles /\ cur \in Bundles \cup {None} /\ closeHold \in Bundles \cup {None}
      /\ ~closed => closeHold = None
      /\ closed => cur = None
  BY NoneAssumption DEF NoneAssumption, TypeOK, ReconnectInv, GraspInv, ClosedStaysClosed
<1>2. UNCHANGED <<g, reconnectMu>>
  BY DEF BundleDies, DohBreaks, StragglerEnds, CloseInval, CloseSet, CloseBundle, lockVars
<1>3. CASE CloseSet
  <2>1. /\ ~closed /\ closed' = TRUE /\ closeHold' = cur /\ cur' = None /\ closer' = "bundle"
        /\ closeHold = None /\ cur # None /\ UNCHANGED open
    BY <1>1, <1>3 DEF CloseSet, GraspInv
  <2>2. GraspInv' BY <1>2, <2>1 DEF GraspInv
  <2>3. InHand' = InHand \cup ({cur} \ {None}) BY <1>1, <1>2, <2>1 DEF InHand
  <2>4. Holder!Shut BY <2>1, <2>3 DEF Holder!Shut, Holder!Withdrawn
  <2> QED BY <2>2, <2>4 DEF Holder!Next
<1>4. CASE CloseBundle
  <2>1. /\ closed /\ closer' = "done" /\ closeHold' = None /\ open' = open \ {closeHold}
        /\ UNCHANGED <<cur, closed>>
    BY <1>4 DEF CloseBundle, GraspInv
  <2>2. cur = None BY <1>1, <2>1
  <2>3. GraspInv'
    <3>1. ASSUME NEW p \in Procs, g[p].pc \in Holding
          PROVE  g[p].hold \in open \ {closeHold} /\ g[p].hold # None
      BY <1>1, <3>1, NoneAssumption DEF GraspInv, TypeOK, NoneAssumption
    <3> QED BY <1>2, <2>1, <2>2, <3>1 DEF GraspInv
  <2>4. reconnectMu # None => g[reconnectMu].hold # closeHold \/ closeHold = None
    <3> SUFFICES ASSUME reconnectMu # None, g[reconnectMu].hold = closeHold, closeHold # None PROVE FALSE
      OBVIOUS
    <3>1. reconnectMu \in Procs BY DEF TypeOK
    <3> QED BY <3>1 DEF ReconnectInv, HoldInv, GraspInv, Holding
  <2>5. InHand' = InHand \ {closeHold} BY <1>1, <1>2, <2>1, <2>4 DEF InHand
  <2>6. CASE closeHold = None BY <1>1, <2>1, <2>3, <2>5, <2>6 DEF InHand, TypeOK
  <2>7. CASE closeHold # None
    <3>1. Holder!Discard(closeHold) BY <1>1, <2>1, <2>5, <2>7 DEF Holder!Discard, InHand
    <3> QED BY <1>1, <2>3, <2>7, <3>1 DEF Holder!Next
  <2> QED BY <2>6, <2>7
<1>5. CASE UNCHANGED <<cur, closed, open, closeHold>> /\ (closer' = closer \/ (closer = "off" /\ closer' = "set"))
  BY <1>2, <1>5 DEF GraspInv, InHand
<1> QED BY <1>3, <1>4, <1>5
        DEF BundleDies, DohBreaks, StragglerEnds, CloseInval, connVars, endVars

(* Every step is a step of a holder, or invisible. *)
LEMMA NextHolds ==
  ASSUME TypeOK, ReconnectInv, GraspInv, TypeOK', ReconnectInv', [Next]_vars
  PROVE  GraspInv' /\ (Holder!Next \/ UNCHANGED <<cur, closed, InHand, open>>)
<1>1. ASSUME NEW p \in Procs,
             StartTunnel(p) \/ StartLookup(p) \/ RcLock(p) \/ Step(p) \/ CtxDone(p)
      PROVE  GraspInv' /\ (Holder!Next \/ UNCHANGED <<cur, closed, InHand, open>>)
  BY <1>1, OutsideIsBystander, BystanderHolds, ReconnectHolds DEF Step
<1>2. CASE UNCHANGED vars
  BY <1>2 DEF vars, connVars, lockVars, endVars, GraspInv, InHand
<1> QED BY <1>1, <1>2, ClosingHolds DEF Next

(* The HTTP/3 client implements ConnHolder: however many handlers reconnect *)
(* and whenever Close runs, one bundle is dialled at a time, only an open   *)
(* one is handed out, none after Close, and each bundle taken out of        *)
(* circulation has an owner that closes it (reconnect and Close).           *)
THEOREM HoldsOne == Spec => HoldsOneConnection
<1>1. Init => Holder!Init /\ GraspInv
  <2> SUFFICES ASSUME Init PROVE Holder!Init /\ GraspInv OBVIOUS
  <2>1. None \notin Bundles BY NoneAssumption DEF NoneAssumption
  <2>2. Holder!Init BY <2>1 DEF Init, Holder!Init, InHand
  <2>3. GraspInv BY <2>1, IdleFields DEF Init, GraspInv, Holding
  <2> QED BY <2>2, <2>3
<1>2. TypeOK /\ ReconnectInv /\ GraspInv /\ TypeOK' /\ ReconnectInv' /\ [Next]_vars
        => GraspInv' /\ [Holder!Next]_(<<cur, closed, InHand, open>>)
  BY NextHolds
<1> QED BY <1>1, <1>2, InitType, NextType, InitReconnect, NextReconnect, PTL
        DEF Spec, HoldsOneConnection, Holder!Spec, Holder!vars

-----------------------------------------------------------------------------
(* Who waits for whom.                                                      *)

(* p sleeps until q lets reconnectMu go or ends the DoH dial p has joined. *)
WaitsFor(p, q) ==
  \/ At(p, "rcLock") /\ reconnectMu = q
  \/ At(p, "dohWait") /\ g[p].waitOn = q

Asleep(p) == \E q \in Procs : WaitsFor(p, q)

(* Whoever a goroutine waits for is at work, and awake itself or waiting    *)
(* for one that is: a lookup waits for the leader of the dial, the leader   *)
(* for the one that reconnects, and that one for no goroutine.              *)
WaitsEnd ==
  \A p, q \in Procs : WaitsFor(p, q) =>
    /\ ~At(q, "idle")
    /\ ~Asleep(q) \/ \E r \in Procs : WaitsFor(q, r) /\ ~At(r, "idle") /\ ~Asleep(r)

(* Goroutines never wait for one another in a circle, nor for one that has  *)
(* returned: the chains across reconnectMu and the dial flight end after    *)
(* two steps, however many handlers there are (reconnect, dohConnection).   *)
THEOREM NoCircularWait == Spec => []WaitsEnd
<1>1. TypeOK /\ ReconnectInv /\ DohInv => WaitsEnd
  <2> SUFFICES ASSUME TypeOK, ReconnectInv, DohInv, NEW p \in Procs, NEW q \in Procs, WaitsFor(p, q)
               PROVE  /\ ~At(q, "idle")
                      /\ ~Asleep(q) \/ \E r \in Procs : WaitsFor(q, r) /\ ~At(r, "idle") /\ ~Asleep(r)
    BY DEF WaitsEnd
  <2>1. ASSUME NEW r \in Procs, reconnectMu = r PROVE ~At(r, "idle") /\ ~Asleep(r)
    <3>1. g[r].pc \in InReconnect BY <2>1, NoneAssumption DEF ReconnectInv, MutexInv, NoneAssumption
    <3> QED BY <3>1 DEF At, Asleep, WaitsFor, InReconnect
  <2>2. CASE At(p, "rcLock") /\ reconnectMu = q BY <2>1, <2>2
  <2>3. CASE At(p, "dohWait") /\ g[p].waitOn = q
    <3>1. Dialing(q) BY <2>3 DEF DohInv, WaitInv, LeadInv
    <3>2. ~At(q, "idle") /\ ~At(q, "dohWait") BY <3>1 DEF Dialing, At, InReconnect
    <3>3. ASSUME NEW r \in Procs, WaitsFor(q, r) PROVE ~At(r, "idle") /\ ~Asleep(r)
      BY <2>1, <3>2, <3>3 DEF WaitsFor
    <3> QED BY <3>2, <3>3 DEF Asleep
  <2> QED BY <2>2, <2>3 DEF WaitsFor
<1> QED BY <1>1, InitType, NextType, InitReconnect, NextReconnect, InitDoh, NextDoh, PTL DEF Spec
=============================================================================
