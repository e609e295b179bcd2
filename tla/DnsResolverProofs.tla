------------------------- MODULE DnsResolverProofs -------------------------
(***************************************************************************)
(* Proofs about DnsResolver, for every set of goroutines, every finite set *)
(* of names and every choice of the cache's thresholds and TTL bounds that *)
(* the assumptions of DnsResolver allow.                                   *)
(***************************************************************************)
EXTENDS DnsResolver, FiniteSetTheorems, TLAPS

-----------------------------------------------------------------------------
(* Type correctness.                                                        *)

(* A goroutine inside resolveDNS works on a name. *)
Sound == {r \in Goroutine : r.pc # "idle" => r.host \in Hosts}

TypeInv ==
  /\ cache \in [Hosts -> Entry \cup {None}]
  /\ flight \in [Hosts -> Procs \cup {None}]
  /\ g \in [Procs -> Sound]

(* The answers of a query that has received none. *)
LEMMA UnaskedType == Unasked \in [Questions -> {"no", "v6"} \cup Errors]
BY DEF Unasked

(* The record of an idle goroutine, fresh or returning, is sound, and so is *)
(* the one of a goroutine that starts on a name.                            *)
LEMMA ReturnedType ==
  ASSUME NEW ip \in Families \cup {None}, NEW err \in Errors
  PROVE  /\ Idle \in Sound /\ Returned(ip, err) \in Sound
         /\ \A h \in Hosts : [Idle EXCEPT !.pc = "cache", !.host = h, !.err = "none"] \in Sound
<1>1. "none" \in Errors /\ "final" \in Errors BY DEF Errors
<1>2. Idle \in Goroutine BY <1>1, UnaskedType DEF Idle, Goroutine
<1>3. Idle.pc = "idle" BY DEF Idle
<1> QED BY <1>1, <1>2, <1>3 DEF Returned, Goroutine, Sound

(* Replacing one goroutine's record by a sound one keeps g sound. *)
LEMMA BecomeType ==
  ASSUME NEW p \in Procs, NEW r \in Sound, g \in [Procs -> Sound], Become(p, r)
  PROVE  g' \in [Procs -> Sound]
BY DEF Become

(* An attempt that fails leaves a sound record: the loop of resolveDNS      *)
(* makes at most two attempts.                                              *)
LEMMA AfterFailureType ==
  ASSUME NEW r \in Sound, r.pc # "idle", NEW err \in Errors
  PROVE  AfterFailure(r, err) \in Sound
<1>1. "none" \in Errors BY DEF Errors
<1>2. [r EXCEPT !.pc = "wake", !.seen = Unasked, !.terr = "none", !.err = err] \in Sound
  BY <1>1, UnaskedType DEF Goroutine, Sound
<1>3. CASE r.attempt < 2
  <2>1. r.attempt + 1 \in 0..2 BY <1>3 DEF Goroutine, Sound
  <2>2. [r EXCEPT !.pc = "connect", !.attempt = @ + 1, !.seen = Unasked, !.terr = "none", !.err = err] \in Sound
    BY <1>1, <2>1, UnaskedType DEF Goroutine, Sound
  <2> QED BY <1>2, <2>2 DEF AfterFailure
<1>4. CASE ~(r.attempt < 2) BY <1>2, <1>4 DEF AfterFailure
<1> QED BY <1>3, <1>4

(* Clamp keeps a TTL between the floor and the ceiling. *)
LEMMA ClampBounds ==
  ASSUME NEW raw \in RawTTLs
  PROVE  Clamp(raw) \in Nat /\ MinTTL <= Clamp(raw) /\ Clamp(raw) <= MaxTTL
BY TTLAssumption DEF Clamp

(* The cache changes in two ways only: time passes, or an answer is stored. *)
CacheStep ==
  \/ UNCHANGED cache
  \/ cache' = [h \in Hosts |-> Aged(cache[h])]
  \/ \E host \in Hosts, ip \in Families, raw \in RawTTLs :
       CacheResolution(host, ip, Clamp(raw))

(* Delivering an answer stores it and leaves a sound goroutine. *)
LEMMA DeliverStep ==
  ASSUME NEW p \in Procs, NEW ip \in Families, ~At(p, "idle"),
         g \in [Procs -> Sound], Deliver(p, ip)
  PROVE  CacheStep /\ g' \in [Procs -> Sound]
<1>1. g[p] \in Sound /\ g[p].host \in Hosts BY DEF Sound, At
<1>2. CacheStep BY <1>1 DEF Deliver, CacheStep
<1>3. [g[p] EXCEPT !.pc = "wake", !.ip = ip, !.err = "none", !.seen = Unasked, !.terr = "none"] \in Sound
  BY <1>1 DEF Goroutine, Sound, Unasked, Errors, Questions
<1> QED BY <1>2, <1>3, BecomeType DEF Deliver

(* Every step leaves the goroutines sound and the flights typed, and        *)
(* changes the cache as CacheStep says.                                     *)
LEMMA GoroutineStep ==
  ASSUME TypeInv, [Next]_vars
  PROVE  g' \in [Procs -> Sound] /\ flight' \in [Hosts -> Procs \cup {None}] /\ CacheStep
<1> USE DEF TypeInv
<1> DEFINE Goal == g' \in [Procs -> Sound] /\ flight' \in [Hosts -> Procs \cup {None}] /\ CacheStep
<1> SUFFICES ASSUME Next PROVE Goal
  BY DEF vars, CacheStep
<1>1. CASE Tick BY <1>1 DEF Tick, CacheStep
<1>2. ASSUME NEW p \in Procs, Start(p) \/ CtxDone(p) \/ WaitCancelled(p) \/ Step(p)
      PROVE  Goal
  <2>0. g[p] \in Sound OBVIOUS
  <2>1. CASE Start(p)
    <3>1. PICK h \in Hosts : Become(p, [Idle EXCEPT !.pc = "cache", !.host = h, !.err = "none"])
      BY <2>1 DEF Start
    <3>2. [Idle EXCEPT !.pc = "cache", !.host = h, !.err = "none"] \in Sound
      BY ReturnedType DEF Families, Errors
    <3> QED BY <2>1, <3>1, <3>2, BecomeType DEF Start, CacheStep
  <2>2. CASE CtxDone(p)
    <3>1. g' = [g EXCEPT ![p] = [g[p] EXCEPT !.ctx = TRUE]] BY <2>2 DEF CtxDone
    <3>2. [g[p] EXCEPT !.ctx = TRUE] \in Sound BY <2>0 DEF Goroutine, Sound
    <3> QED BY <2>2, <3>1, <3>2 DEF CtxDone, CacheStep
  <2>3. CASE WaitCancelled(p)
    <3>1. Returned(None, "final") \in Sound BY ReturnedType DEF Errors
    <3> QED BY <2>3, <3>1, BecomeType DEF WaitCancelled, CacheStep
  <2>4. CASE CheckCache(p)
    <3>1. g[p].host \in Hosts BY <2>0, <2>4 DEF Sound, CheckCache, At
    <3>2. CASE Valid(cache[g[p].host])
      <4>1. cache[g[p].host].ip \in Families BY <3>1, <3>2 DEF Valid, Entry
      <4>2. Returned(cache[g[p].host].ip, "none") \in Sound BY <4>1, ReturnedType DEF Errors
      <4> QED BY <2>4, <3>2, <4>2, BecomeType DEF CheckCache, CacheStep
    <3>3. CASE ~Valid(cache[g[p].host])
      <4>1. [g[p] EXCEPT !.pc = "join"] \in Sound BY <2>0, <3>1 DEF Goroutine, Sound
      <4> QED BY <2>4, <3>3, <4>1, BecomeType DEF CheckCache, CacheStep
    <3> QED BY <3>2, <3>3
  <2>5. CASE Join(p)
    <3>1. g[p].host \in Hosts BY <2>0, <2>5 DEF Sound, Join, At
    <3> DEFINE q == flight[g[p].host]
    <3>2. CASE flight[g[p].host] # None
      <4>1. q \in Procs /\ g[q] \in Sound BY <3>1, <3>2
      <4>2. [g[p] EXCEPT !.pc = "woken", !.ip = g[q].ip, !.err = g[q].err] \in Sound
        BY <2>0, <3>1, <4>1 DEF Goroutine, Sound
      <4>3. [g[p] EXCEPT !.pc = "wait", !.waitOn = q] \in Sound
        BY <2>0, <3>1, <4>1 DEF Goroutine, Sound
      <4>4. Become(p, [g[p] EXCEPT !.pc = "woken", !.ip = g[q].ip, !.err = g[q].err])
            \/ Become(p, [g[p] EXCEPT !.pc = "wait", !.waitOn = q])
        BY <2>5, <3>2 DEF Join, MustFollow
      <4>5. g' \in [Procs -> Sound] BY <4>2, <4>3, <4>4, BecomeType
      <4> QED BY <2>5, <3>2, <4>5 DEF Join, MustFollow, CacheStep
    <3>3. CASE flight[g[p].host] = None
      <4>0. 1 \in 0..2 OBVIOUS
      <4>1. [g[p] EXCEPT !.pc = "connect", !.attempt = 1] \in Sound
        BY <2>0, <3>1, <4>0 DEF Goroutine, Sound
      <4> QED BY <2>5, <3>3, <4>1, BecomeType DEF Join, MustFollow, CacheStep
    <3> QED BY <3>2, <3>3
  <2>6. CASE Woken(p)
    <3>0. g[p].ip \in Families \cup {None} /\ g[p].err \in Errors
      BY <2>0 DEF Goroutine, Sound
    <3>1. Returned(g[p].ip, g[p].err) \in Sound BY <3>0, ReturnedType
    <3>2. "final" \in Errors BY DEF Errors
    <3>3. Returned(None, "final") \in Sound BY <3>2, ReturnedType
    <3> QED BY <2>6, <3>1, <3>3, BecomeType DEF Woken, CacheStep
  <2>7. CASE Connect(p)
    <3>1. g[p].pc = "connect" BY <2>7 DEF Connect, At
    <3>2. [g[p] EXCEPT !.pc = "query"] \in Sound BY <2>0, <3>1 DEF Goroutine, Sound
    <3>3. AfterFailure(g[p], "final") \in Sound BY <2>0, <3>1, AfterFailureType DEF Errors
    <3> QED BY <2>7, <3>2, <3>3, BecomeType DEF Connect, CacheStep
  <2>8. ASSUME NEW q \in Questions, Answer(p, q) PROVE Goal
    <3>1. g[p].pc = "query" /\ ~At(p, "idle") BY <2>8 DEF Answer, At
    <3>2. PICK ip \in Families :
            IF EndsQuery(ip)
              THEN Deliver(p, ip)
              ELSE Become(p, [g[p] EXCEPT !.seen[q] = ip]) /\ UNCHANGED cache
      BY <2>8 DEF Answer, Families
    <3>3. CASE EndsQuery(ip)
      <4>1. CacheStep /\ g' \in [Procs -> Sound] BY <3>1, <3>2, <3>3, DeliverStep
      <4> QED BY <2>8, <4>1 DEF Answer
    <3>4. CASE ~EndsQuery(ip)
      <4>1. ip = "v6" BY <3>4 DEF EndsQuery, Families
      <4>2. [g[p].seen EXCEPT ![q] = ip] \in [Questions -> {"no", "v6"} \cup Errors]
        BY <2>0, <4>1 DEF Goroutine, Sound
      <4>3. [g[p] EXCEPT !.seen[q] = ip] \in Sound BY <2>0, <3>1, <4>2 DEF Goroutine, Sound
      <4> QED BY <2>8, <3>2, <3>4, <4>3, BecomeType DEF Answer, CacheStep
    <3> QED BY <3>3, <3>4
  <2>9. ASSUME NEW q \in Questions, AnswerFails(p, q) PROVE Goal
    <3>1. g[p].pc = "query" BY <2>9 DEF AnswerFails, At
    <3>2. PICK e \in {"final", "transport"} :
            Become(p, [g[p] EXCEPT !.seen[q] = e, !.terr = Remember(@, e)])
      BY <2>9 DEF AnswerFails
    <3>3. Remember(g[p].terr, e) \in Errors BY <2>0 DEF Remember, Errors, Goroutine, Sound
    <3>4. [g[p].seen EXCEPT ![q] = e] \in [Questions -> {"no", "v6"} \cup Errors]
      BY <2>0 DEF Goroutine, Sound, Errors
    <3>5. [g[p] EXCEPT !.seen[q] = e, !.terr = Remember(@, e)] \in Sound
      BY <2>0, <3>1, <3>3, <3>4 DEF Goroutine, Sound
    <3> QED BY <2>9, <3>2, <3>5, BecomeType DEF AnswerFails, CacheStep
  <2>10. CASE Conclude(p)
    <3>1. g[p].pc = "query" /\ ~At(p, "idle") BY <2>10 DEF Conclude, At
    <3>2. CASE Deliver(p, "v6")
      <4>1. CacheStep /\ g' \in [Procs -> Sound] BY <3>1, <3>2, DeliverStep DEF Families
      <4> QED BY <2>10, <4>1 DEF Conclude
    <3>3. CASE Become(p, [g[p] EXCEPT !.pc = "judge"]) /\ UNCHANGED cache
      <4>1. [g[p] EXCEPT !.pc = "judge"] \in Sound BY <2>0, <3>1 DEF Goroutine, Sound
      <4> QED BY <2>10, <3>3, <4>1, BecomeType DEF Conclude, CacheStep
    <3> QED BY <2>10, <3>2, <3>3 DEF Conclude
  <2>11. CASE Judge(p)
    <3> DEFINE e == IF g[p].terr = "none" THEN "final" ELSE g[p].terr
    <3>1. g[p].pc = "judge" BY <2>11 DEF Judge, At
    <3>2. e \in Errors BY <2>0 DEF Goroutine, Sound, Errors
    <3>3. AfterFailure(g[p], e) \in Sound BY <2>0, <3>1, <3>2, AfterFailureType
    <3> QED BY <2>11, <3>3, BecomeType DEF Judge, CacheStep
  <2>12. CASE Wake(p)
    <3>1. [g[p] EXCEPT !.pc = "forget"] \in Sound BY <2>0, <2>12 DEF Goroutine, Sound, Wake, At
    <3>2. ASSUME NEW q \in Procs, At(q, "wait") PROVE Informed(p, g[q]) \in Sound
      <4>1. g[q] \in Sound /\ g[q].pc # "idle" BY <3>2 DEF At
      <4> QED BY <2>0, <4>1 DEF Informed, Goroutine, Sound
    <3> QED BY <2>12, <3>1, <3>2 DEF Wake, CacheStep
  <2>13. CASE Forget(p)
    <3>0. g[p].ip \in Families \cup {None} /\ g[p].err \in Errors
      BY <2>0 DEF Goroutine, Sound
    <3>1. Returned(g[p].ip, g[p].err) \in Sound BY <3>0, ReturnedType
    <3> QED BY <2>13, <3>1, BecomeType DEF Forget, CacheStep
  <2> QED BY <1>2, <2>1, <2>2, <2>3, <2>4, <2>5, <2>6, <2>7, <2>8, <2>9, <2>10, <2>11, <2>12, <2>13
          DEF Step
<1> QED BY <1>1, <1>2 DEF Next

(* A step of the cache keeps its entries typed. *)
LEMMA CacheType ==
  ASSUME cache \in [Hosts -> Entry \cup {None}], CacheStep
  PROVE  cache' \in [Hosts -> Entry \cup {None}]
<1>1. CASE UNCHANGED cache BY <1>1
<1>2. CASE cache' = [h \in Hosts |-> Aged(cache[h])]
  <2>1. ASSUME NEW e \in Entry \cup {None} PROVE Aged(e) \in Entry \cup {None}
    <3>1. CASE e = None BY <3>1 DEF Aged
    <3>2. CASE e # None
      <4>1. e \in Entry BY <3>2
      <4>2. (IF e.left > 0 THEN e.left - 1 ELSE 0) \in Nat BY <4>1 DEF Entry
      <4>3. (IF e.age < MaxTTL THEN e.age + 1 ELSE e.age) \in 0..MaxTTL
        BY <4>1, TTLAssumption DEF Entry
      <4> QED BY <3>2, <4>1, <4>2, <4>3 DEF Aged, Entry
    <3> QED BY <3>1, <3>2
  <2> QED BY <1>2, <2>1
<1>3. ASSUME NEW host \in Hosts, NEW ip \in Families, NEW raw \in RawTTLs,
             CacheResolution(host, ip, Clamp(raw))
      PROVE  cache' \in [Hosts -> Entry \cup {None}]
  <2>1. [ip |-> ip, left |-> Clamp(raw), age |-> 0] \in Entry
    BY ClampBounds, TTLAssumption DEF Entry
  <2> QED BY <1>3, <2>1 DEF CacheResolution
<1> QED BY <1>1, <1>2, <1>3 DEF CacheStep

(* The initial state is typed. *)
LEMMA InitType == Init => TypeInv
BY ReturnedType DEF Init, TypeInv, Families, Errors

(* Every step keeps the types. *)
LEMMA NextType == TypeInv /\ [Next]_vars => TypeInv'
<1> SUFFICES ASSUME TypeInv, [Next]_vars PROVE TypeInv'
  OBVIOUS
<1>1. g' \in [Procs -> Sound] /\ flight' \in [Hosts -> Procs \cup {None}] /\ CacheStep
  BY GoroutineStep
<1>2. cache' \in [Hosts -> Entry \cup {None}] BY <1>1, CacheType DEF TypeInv
<1> QED BY <1>1, <1>2 DEF TypeInv

(* The types hold always: among others, no lookup makes a third attempt and *)
(* none runs without a name.                                                *)
THEOREM TypeCorrect == Spec => []TypeOK
<1>1. TypeInv => TypeOK BY DEF TypeInv, TypeOK, Sound
<1> QED BY InitType, NextType, <1>1, PTL DEF Spec

-----------------------------------------------------------------------------
(* The cache.                                                               *)

(* cacheResolution makes room before it stores: what it keeps is below the  *)
(* cap, so that one more entry is at most the cap.                          *)
LEMMA KeptBelowCap ==
  ASSUME CacheBounded
  PROVE  IsFiniteSet(Kept) /\ Cardinality(Kept) < MaxEntries
<1> DEFINE live == {h \in Hosts : Valid(cache[h])}
<1>1. IsFiniteSet(live) /\ Cardinality(live) \in Nat
  BY HostsAssumption, FS_Subset, FS_CardinalityType
<1>2. IsFiniteSet(Cached(cache)) /\ Cardinality(Cached(cache)) \in Nat
  BY HostsAssumption, FS_Subset, FS_CardinalityType DEF Cached
<1>3. IsFiniteSet({}) /\ Cardinality({}) = 0 BY FS_EmptySet
<1> HIDE DEF live
<1>4. Kept = IF Cardinality(Cached(cache)) < SweepAt THEN Cached(cache)
             ELSE IF Overfull(live) THEN {} ELSE live
  BY DEF Kept, live
<1>5. CASE Cardinality(Cached(cache)) < SweepAt BY <1>2, <1>4, <1>5, CacheAssumption
<1>6. CASE ~(Cardinality(Cached(cache)) < SweepAt) /\ Overfull(live)
  BY <1>3, <1>4, <1>6, CacheAssumption
<1>7. CASE ~(Cardinality(Cached(cache)) < SweepAt) /\ ~Overfull(live)
  BY <1>1, <1>4, <1>7, CacheAssumption DEF Overfull
<1> QED BY <1>5, <1>6, <1>7

(* A step of the cache keeps it within its cap. *)
LEMMA CacheStaysBounded ==
  ASSUME CacheBounded, CacheStep
  PROVE  CacheBounded'
<1>0. IsFiniteSet(Cached(cache)) /\ Cardinality(Cached(cache)) \in Nat
  BY HostsAssumption, FS_Subset, FS_CardinalityType DEF Cached
<1>1. CASE UNCHANGED cache BY <1>1 DEF CacheBounded, Cached
<1>2. CASE cache' = [h \in Hosts |-> Aged(cache[h])]
  <2>1. Cached(cache') \subseteq Cached(cache) BY <1>2 DEF Cached, Aged
  <2>2. Cardinality(Cached(cache')) <= Cardinality(Cached(cache))
        /\ Cardinality(Cached(cache')) \in Nat
    BY <1>0, <2>1, FS_Subset, FS_CardinalityType
  <2> QED BY <1>0, <2>2, CacheAssumption DEF CacheBounded
<1>3. ASSUME NEW host \in Hosts, NEW ip \in Families, NEW raw \in RawTTLs,
             CacheResolution(host, ip, Clamp(raw))
      PROVE  CacheBounded'
  <2>1. Cached(cache') \subseteq Kept \cup {host} BY <1>3 DEF Cached, CacheResolution
  <2>2. IsFiniteSet(Kept) /\ Cardinality(Kept) < MaxEntries BY KeptBelowCap
  <2>3. IsFiniteSet(Kept \cup {host})
        /\ Cardinality(Kept \cup {host}) <= Cardinality(Kept) + 1
        /\ Cardinality(Kept) \in Nat /\ Cardinality(Kept \cup {host}) \in Nat
    <3>1. /\ IsFiniteSet(Kept \cup {host})
          /\ \/ Cardinality(Kept \cup {host}) = Cardinality(Kept)
             \/ Cardinality(Kept \cup {host}) = Cardinality(Kept) + 1
      BY <2>2, FS_AddElement, Zenon
    <3>2. Cardinality(Kept) \in Nat BY <2>2, FS_CardinalityType
    <3> QED BY <3>1, <3>2
  <2>4. Cardinality(Cached(cache')) <= Cardinality(Kept \cup {host})
        /\ Cardinality(Cached(cache')) \in Nat
    BY <2>1, <2>3, FS_Subset, FS_CardinalityType
  <2> QED BY <2>2, <2>3, <2>4, CacheAssumption DEF CacheBounded
<1> QED BY <1>1, <1>2, <1>3 DEF CacheStep

(* The strengthening of ServedInWindow: what is left and the age add up to  *)
(* a life between the floor and the ceiling.                                *)
LifeInv ==
  \A h \in Cached(cache) :
    /\ cache[h].left > 0 => cache[h].left + cache[h].age <= MaxTTL
    /\ cache[h].age < MinTTL => cache[h].left + cache[h].age >= MinTTL

(* A step of the cache keeps every life within its bounds. *)
LEMMA LifeStep ==
  ASSUME cache \in [Hosts -> Entry \cup {None}], LifeInv, CacheStep
  PROVE  LifeInv'
<1>1. CASE UNCHANGED cache BY <1>1 DEF LifeInv, Cached
<1>2. CASE cache' = [h \in Hosts |-> Aged(cache[h])]
  <2> SUFFICES ASSUME NEW h \in Hosts, cache'[h] # None
               PROVE  /\ cache'[h].left > 0 => cache'[h].left + cache'[h].age <= MaxTTL
                      /\ cache'[h].age < MinTTL => cache'[h].left + cache'[h].age >= MinTTL
    BY DEF LifeInv, Cached
  <2>1. cache'[h] = Aged(cache[h]) BY <1>2
  <2>2. cache[h] # None BY <2>1 DEF Aged
  <2>3. cache[h] \in Entry /\ h \in Cached(cache) BY <2>2 DEF Cached
  <2> DEFINE l == cache[h].left
             a == cache[h].age
  <2>4. l \in Nat /\ a \in 0..MaxTTL BY <2>3 DEF Entry
  <2>5. /\ cache'[h].left = IF l > 0 THEN l - 1 ELSE 0
        /\ cache'[h].age = IF a < MaxTTL THEN a + 1 ELSE a
    BY <2>1, <2>2, <2>3 DEF Aged, Entry
  <2>6. (l > 0 => l + a <= MaxTTL) /\ (a < MinTTL => l + a >= MinTTL)
    BY <2>3 DEF LifeInv
  <2>7. a \in Nat /\ a <= MaxTTL BY <2>4, TTLAssumption
  <2> HIDE DEF l, a
  <2>8. CASE l > 0 /\ a < MaxTTL BY <2>4, <2>5, <2>6, <2>7, <2>8, TTLAssumption
  <2>9. CASE ~(l > 0) BY <2>4, <2>5, <2>6, <2>7, <2>9, TTLAssumption
  <2>10. CASE ~(a < MaxTTL) BY <2>4, <2>5, <2>6, <2>7, <2>10, TTLAssumption
  <2> QED BY <2>8, <2>9, <2>10
<1>3. ASSUME NEW host \in Hosts, NEW ip \in Families, NEW raw \in RawTTLs,
             CacheResolution(host, ip, Clamp(raw))
      PROVE  LifeInv'
  <2> SUFFICES ASSUME NEW h \in Hosts, cache'[h] # None
               PROVE  /\ cache'[h].left > 0 => cache'[h].left + cache'[h].age <= MaxTTL
                      /\ cache'[h].age < MinTTL => cache'[h].left + cache'[h].age >= MinTTL
    BY DEF LifeInv, Cached
  <2>1. CASE h = host
    <3>1. cache'[h].left = Clamp(raw) /\ cache'[h].age = 0 BY <1>3, <2>1 DEF CacheResolution
    <3> QED BY <3>1, ClampBounds, TTLAssumption
  <2>2. CASE h # host
    <3>1. cache'[h] = cache[h] BY <1>3, <2>2 DEF CacheResolution
    <3>2. h \in Cached(cache) BY <3>1 DEF Cached
    <3> QED BY <3>1, <3>2 DEF LifeInv
  <2> QED BY <2>1, <2>2
<1> QED BY <1>1, <1>2, <1>3 DEF CacheStep

(* The resolution cache never outgrows dnsCacheMaxEntries. *)
THEOREM CacheNeverOverflows == Spec => []CacheBounded
<1>1. Init => CacheBounded
  <2>1. Init => Cached(cache) = {} BY DEF Init, Cached
  <2> QED BY <2>1, FS_EmptySet, CacheAssumption DEF CacheBounded
<1>2. TypeInv /\ CacheBounded /\ [Next]_vars => CacheBounded'
  BY GoroutineStep, CacheStaysBounded
<1> QED BY InitType, NextType, <1>1, <1>2, PTL DEF Spec

(* The cache serves an address for dohMinTTL at least and never when it is  *)
(* dohMaxTTL old.                                                           *)
THEOREM ServedWithinTTL == Spec => []ServedInWindow
<1>1. Init => LifeInv BY DEF Init, LifeInv, Cached
<1>2. TypeInv /\ LifeInv /\ [Next]_vars => LifeInv'
  BY GoroutineStep, LifeStep DEF TypeInv
<1>3. TypeInv /\ LifeInv => ServedInWindow
  <2> SUFFICES ASSUME TypeInv, LifeInv, NEW h \in Cached(cache)
               PROVE  /\ Valid(cache[h]) => cache[h].age < MaxTTL
                      /\ cache[h].age < MinTTL => Valid(cache[h])
    BY DEF ServedInWindow
  <2>1. cache[h] \in Entry /\ cache[h] # None BY DEF TypeInv, Cached
  <2>2. cache[h].left \in Nat /\ cache[h].age \in Nat BY <2>1, TTLAssumption DEF Entry
  <2> QED BY <2>1, <2>2, TTLAssumption DEF LifeInv, Valid
<1> QED BY InitType, NextType, <1>1, <1>2, <1>3, PTL DEF Spec

-----------------------------------------------------------------------------
(* The single flight.                                                       *)

(* The map holds exactly the leaders, each under its own host. *)
FlightInv ==
  /\ \A h \in Hosts : flight[h] # None => Leading(flight[h]) /\ g[flight[h]].host = h
  /\ \A p \in Procs : Leading(p) => flight[g[p].host] = p

(* A result is not yet there, or it is an address or an error. *)
ResultInv ==
  /\ AddressOrError
  /\ \A p \in Procs : g[p].pc \in {"cache", "join", "wait", "connect", "query", "judge"} => g[p].ip = None

(* A leader that has yet to close its flight. *)
Flying == {"connect", "query", "judge", "wake"}

(* A waiter waits for somebody. *)
WaitInv == WaiterHasLeader /\ \A p \in Procs : At(p, "wait") => g[p].waitOn \in Procs

LookupInv == FlightInv /\ WaitInv /\ ResultInv

Others(p) == \A q \in Procs \ {p} : g'[q] = g[q]

(* Steps of p that leave its flight alone: it does not lead, before or      *)
(* after.                                                                   *)
Bystander(p) ==
  /\ ~Leading(p) /\ ~Leading(p)' /\ UNCHANGED flight /\ Others(p)
  /\ ~(g'[p].pc = "wait")
  /\ g'[p].pc \in {"idle", "woken"} => (g'[p].ip = None <=> g'[p].err # "none")
  /\ g'[p].pc \in {"cache", "join"} => g'[p].ip = None

(* Steps of a leader between taking its flight and closing it. *)
Working(p) ==
  /\ g[p].pc \in {"connect", "query", "judge"} /\ UNCHANGED flight /\ Others(p)
  /\ g'[p].pc \in {"connect", "query", "judge", "wake"}
  /\ g'[p].host = g[p].host
  /\ IF g'[p].pc = "wake" THEN g'[p].ip = None <=> g'[p].err # "none" ELSE g'[p].ip = None

(* A waiter that did not move keeps its leader as long as the leader is not *)
(* the one that closes or forgets its flight.                               *)
LEMMA WaiterKeeps ==
  ASSUME TypeInv, WaitInv, NEW q \in Procs, At(q, "wait"), g'[q] = g[q],
         LET l == g[q].waitOn IN
           g'[l] = g[l] \/ (g'[l].pc \in Flying /\ g'[l].host = g[l].host)
  PROVE  /\ g'[q].waitOn \in Procs /\ g'[g'[q].waitOn].pc \in Flying
         /\ g'[g'[q].waitOn].host = g'[q].host
BY DEF WaitInv, WaiterHasLeader, Leading, FlightDone, Flying, At

(* What does not touch a flight preserves the invariant. *)
LEMMA BystanderPreserves ==
  ASSUME TypeInv, LookupInv, NEW p \in Procs, Bystander(p)
  PROVE  LookupInv'
<1> USE DEF LookupInv, Bystander, Others
<1>1. FlightInv' BY DEF FlightInv, Leading, TypeInv
<1>2. WaitInv'
  <2> SUFFICES ASSUME NEW q \in Procs, g'[q].pc = "wait"
               PROVE  /\ g'[q].waitOn \in Procs /\ g'[g'[q].waitOn].pc \in Flying
                      /\ g'[g'[q].waitOn].host = g'[q].host
    BY DEF WaitInv, WaiterHasLeader, Leading, FlightDone, Flying, At
  <2>1. q # p /\ g'[q] = g[q] /\ At(q, "wait") BY DEF At
  <2>2. g[q].waitOn \in Procs /\ g[q].waitOn # p BY <2>1 DEF WaitInv, WaiterHasLeader
  <2> QED BY <2>1, <2>2, WaiterKeeps
<1>3. ResultInv' BY DEF ResultInv, AddressOrError, Leading, TypeInv, Sound, Goroutine
<1> QED BY <1>1, <1>2, <1>3

(* A leader at work preserves the invariant. *)
LEMMA WorkingPreserves ==
  ASSUME TypeInv, LookupInv, NEW p \in Procs, Working(p)
  PROVE  LookupInv'
<1> USE DEF LookupInv, Working, Others
<1>0. Leading(p) /\ Leading(p)' /\ g'[p].pc \in Flying BY DEF Leading, Flying
<1>1. FlightInv' BY <1>0 DEF FlightInv, Leading, TypeInv
<1>2. WaitInv'
  <2> SUFFICES ASSUME NEW q \in Procs, g'[q].pc = "wait"
               PROVE  /\ g'[q].waitOn \in Procs /\ g'[g'[q].waitOn].pc \in Flying
                      /\ g'[g'[q].waitOn].host = g'[q].host
    BY DEF WaitInv, WaiterHasLeader, Leading, FlightDone, Flying, At
  <2>1. q # p /\ g'[q] = g[q] /\ At(q, "wait") BY DEF At
  <2>2. g[q].waitOn \in Procs BY <2>1 DEF WaitInv
  <2> QED BY <1>0, <2>1, <2>2, WaiterKeeps
<1>3. ResultInv' BY DEF ResultInv, AddressOrError, TypeInv, Sound, Goroutine
<1> QED BY <1>1, <1>2, <1>3

(* Taking a flight, or following one. *)
LEMMA JoinPreserves ==
  ASSUME TypeInv, LookupInv, NEW p \in Procs, Join(p)
  PROVE  LookupInv'
<1> DEFINE h == g[p].host
           l == flight[h]
<1>0. g[p] \in Sound /\ g[p].pc = "join" /\ h \in Hosts /\ g[p].ip = None
  BY DEF TypeInv, Sound, Join, At, LookupInv, ResultInv
<1>1. CASE l # None /\ FlightDone(l)
  <2>1. l \in Procs /\ g[l] \in Sound BY <1>0, <1>1 DEF TypeInv
  <2>2. g' = [g EXCEPT ![p] = [g[p] EXCEPT !.pc = "woken", !.ip = g[l].ip, !.err = g[l].err]]
        /\ UNCHANGED flight
    BY <1>1 DEF Join, Become, MustFollow
  <2>3. g'[p].pc = "woken" /\ g'[p].ip = g[l].ip /\ g'[p].err = g[l].err
    BY <1>0, <2>2 DEF TypeInv, Sound, Goroutine
  <2>4. g[l].ip = None <=> g[l].err # "none"
    BY <1>1, <2>1 DEF LookupInv, ResultInv, AddressOrError, FlightDone, At
  <2>5. Bystander(p) BY <1>0, <2>2, <2>3, <2>4 DEF Bystander, Others, Leading, TypeInv
  <2> QED BY <2>5, BystanderPreserves
<1>2. CASE l # None /\ ~FlightDone(l)
  <2>1. l \in Procs /\ Leading(l) /\ g[l].host = h /\ l # p
    BY <1>0, <1>2 DEF TypeInv, LookupInv, FlightInv, Leading
  <2>2. g' = [g EXCEPT ![p] = [g[p] EXCEPT !.pc = "wait", !.waitOn = l]] /\ UNCHANGED flight
    BY <1>2 DEF Join, Become, MustFollow
  <2>3. g'[p].pc = "wait" /\ g'[p].waitOn = l /\ g'[p].host = h /\ g'[p].ip = None
    BY <1>0, <2>2 DEF TypeInv, Sound, Goroutine
  <2>4. \A q \in Procs \ {p} : g'[q] = g[q] BY <2>2 DEF TypeInv
  <2>5. FlightInv' BY <1>0, <2>2, <2>3, <2>4 DEF LookupInv, FlightInv, Leading, TypeInv
  <2>6. ASSUME NEW q \in Procs, g'[q].pc = "wait"
        PROVE  /\ g'[q].waitOn \in Procs /\ g'[g'[q].waitOn].pc \in Flying
               /\ g'[g'[q].waitOn].host = g'[q].host
    <3>1. CASE q = p BY <1>2, <2>1, <2>3, <2>4, <3>1 DEF Leading, FlightDone, Flying, At
    <3>2. CASE q # p
      <4>1. g'[q] = g[q] /\ At(q, "wait") BY <2>4, <2>6, <3>2 DEF At
      <4>2. g[q].waitOn \in Procs /\ g[q].waitOn # p
        BY <1>0, <4>1 DEF LookupInv, WaitInv, WaiterHasLeader, Leading
      <4> QED BY <2>4, <4>1, <4>2, WaiterKeeps DEF LookupInv
    <3> QED BY <3>1, <3>2
  <2>7. WaitInv' BY <2>6 DEF WaitInv, WaiterHasLeader, Leading, FlightDone, Flying, At
  <2>8. ResultInv' BY <2>3, <2>4 DEF LookupInv, ResultInv, AddressOrError
  <2> QED BY <2>5, <2>7, <2>8 DEF LookupInv
<1>3. CASE l = None
  <2>1. g' = [g EXCEPT ![p] = [g[p] EXCEPT !.pc = "connect", !.attempt = 1]]
        /\ flight' = [flight EXCEPT ![h] = p]
    BY <1>3 DEF Join, Become, MustFollow
  <2>2. g'[p].pc = "connect" /\ g'[p].host = h /\ g'[p].ip = None
    BY <1>0, <2>1 DEF TypeInv, Sound, Goroutine
  <2>3. \A q \in Procs \ {p} : g'[q] = g[q] BY <2>1 DEF TypeInv
  <2>4. ~Leading(p) /\ Leading(p)' /\ g'[p].pc \in Flying BY <1>0, <2>2 DEF Leading, Flying
  <2>5. FlightInv'
    <3>1. \A q \in Procs \ {p} : Leading(q) => g[q].host # h /\ g[q].host \in Hosts
      BY <1>3, NoneAssumption DEF LookupInv, FlightInv, Leading, TypeInv, Sound
    <3>2. ASSUME NEW q \in Procs, Leading(q)' PROVE flight'[g'[q].host] = q
      BY <1>0, <2>1, <2>2, <2>3, <3>1, <3>2 DEF LookupInv, FlightInv, Leading, TypeInv
    <3>3. ASSUME NEW k \in Hosts, flight'[k] # None PROVE g'[flight'[k]].pc \in Flying \cup {"forget"} /\ g'[flight'[k]].host = k
      BY <1>0, <2>1, <2>2, <2>3, <2>4, <3>3 DEF LookupInv, FlightInv, Leading, Flying, TypeInv
    <3> QED BY <3>2, <3>3 DEF FlightInv, Leading, Flying
  <2>6. ASSUME NEW q \in Procs, g'[q].pc = "wait"
        PROVE  /\ g'[q].waitOn \in Procs /\ g'[g'[q].waitOn].pc \in Flying
               /\ g'[g'[q].waitOn].host = g'[q].host
    <3>1. g'[q] = g[q] /\ At(q, "wait") BY <2>2, <2>3, <2>6 DEF At
    <3>2. g[q].waitOn \in Procs BY <3>1 DEF LookupInv, WaitInv
    <3> QED BY <2>2, <2>3, <2>4, <3>1, <3>2, WaiterKeeps DEF LookupInv
  <2>7. WaitInv' BY <2>6 DEF WaitInv, WaiterHasLeader, Leading, FlightDone, Flying, At
  <2>8. ResultInv' BY <2>2, <2>3 DEF LookupInv, ResultInv, AddressOrError
  <2> QED BY <2>5, <2>7, <2>8 DEF LookupInv
<1> QED BY <1>1, <1>2, <1>3

(* close(flight.done) leaves nobody waiting for the flight. *)
LEMMA WakePreserves ==
  ASSUME TypeInv, LookupInv, NEW p \in Procs, Wake(p)
  PROVE  LookupInv'
<1>0. g[p] \in Sound /\ g[p].pc = "wake" /\ (g[p].ip = None <=> g[p].err # "none")
  BY DEF TypeInv, Wake, At, LookupInv, ResultInv, AddressOrError
<1>1. g'[p].pc = "forget" /\ g'[p].host = g[p].host /\ g'[p].ip = g[p].ip /\ g'[p].err = g[p].err
  BY <1>0 DEF Wake, TypeInv, Sound, Goroutine
<1>2. ASSUME NEW q \in Procs \ {p}
      PROVE  \/ ~(At(q, "wait") /\ g[q].waitOn = p) /\ g'[q] = g[q]
             \/ /\ At(q, "wait") /\ g'[q].pc = "woken" /\ g'[q].ip = g[p].ip /\ g'[q].err = g[p].err
                /\ g[q].waitOn = p
  <2>1. CASE At(q, "wait") /\ g[q].waitOn = p
    <3>1. g'[q] = Informed(p, g[q]) /\ g[q] \in Sound BY <2>1 DEF Wake, TypeInv
    <3> QED BY <2>1, <3>1 DEF Informed, Sound, Goroutine
  <2>2. CASE ~(At(q, "wait") /\ g[q].waitOn = p) BY <2>2 DEF Wake, TypeInv
  <2> QED BY <2>1, <2>2
<1>3. UNCHANGED flight BY DEF Wake
<1>4. FlightInv' BY <1>0, <1>1, <1>2, <1>3 DEF LookupInv, FlightInv, Leading, At, TypeInv
<1>5. WaitInv'
  <2> SUFFICES ASSUME NEW q \in Procs, g'[q].pc = "wait"
               PROVE  /\ g'[q].waitOn \in Procs /\ g'[g'[q].waitOn].pc \in Flying
                      /\ g'[g'[q].waitOn].host = g'[q].host
    BY DEF WaitInv, WaiterHasLeader, Leading, FlightDone, Flying, At
  <2>1. q # p /\ g'[q] = g[q] /\ At(q, "wait") /\ g[q].waitOn # p BY <1>1, <1>2 DEF At
  <2>2. g[q].waitOn \in Procs /\ Leading(g[q].waitOn) BY <2>1 DEF LookupInv, WaitInv, WaiterHasLeader
  <2>3. g'[g[q].waitOn] = g[g[q].waitOn] BY <1>2, <2>1, <2>2 DEF Leading, At
  <2> QED BY <2>1, <2>3, WaiterKeeps DEF LookupInv
<1>6. ResultInv' BY <1>0, <1>1, <1>2 DEF LookupInv, ResultInv, AddressOrError
<1> QED BY <1>4, <1>5, <1>6 DEF LookupInv

(* A leader that leaves removes its own flight and no other. *)
LEMMA ForgetPreserves ==
  ASSUME TypeInv, LookupInv, NEW p \in Procs, Forget(p)
  PROVE  LookupInv'
<1> DEFINE h == g[p].host
<1>0. g[p] \in Sound /\ g[p].pc = "forget" /\ h \in Hosts /\ flight[h] = p
      /\ (g[p].ip = None <=> g[p].err # "none")
  BY DEF TypeInv, Sound, Forget, At, LookupInv, FlightInv, Leading, ResultInv, AddressOrError
<1>1. g' = [g EXCEPT ![p] = Returned(g[p].ip, g[p].err)] /\ flight' = [flight EXCEPT ![h] = None]
  BY DEF Forget, Become
<1>2. g'[p].pc = "idle" /\ g'[p].ip = g[p].ip /\ g'[p].err = g[p].err
  BY <1>1 DEF TypeInv, Returned, Idle
<1>3. \A q \in Procs \ {p} : g'[q] = g[q] BY <1>1 DEF TypeInv
<1>4. FlightInv'
  <2>1. ASSUME NEW q \in Procs, Leading(q)' PROVE flight'[g'[q].host] = q
    <3>1. q # p /\ Leading(q) /\ g'[q] = g[q] BY <1>2, <1>3, <2>1 DEF Leading
    <3>2. flight[g[q].host] = q /\ g[q].host # h BY <1>0, <3>1 DEF LookupInv, FlightInv
    <3>3. g[q].host \in Hosts BY <3>1 DEF Leading, TypeInv, Sound
    <3> QED BY <1>1, <3>1, <3>2, <3>3 DEF TypeInv
  <2>2. ASSUME NEW k \in Hosts, flight'[k] # None
        PROVE  g'[flight'[k]].pc \in Flying \cup {"forget"} /\ g'[flight'[k]].host = k
    <3>1. k # h /\ flight'[k] = flight[k] BY <1>0, <1>1, <2>2 DEF TypeInv
    <3>2. flight[k] \in Procs /\ Leading(flight[k]) /\ g[flight[k]].host = k
      BY <2>2, <3>1 DEF LookupInv, FlightInv, TypeInv
    <3> QED BY <1>3, <3>1, <3>2 DEF Leading, Flying
  <2> QED BY <2>1, <2>2 DEF FlightInv, Leading, Flying
<1>5. WaitInv'
  <2> SUFFICES ASSUME NEW q \in Procs, g'[q].pc = "wait"
               PROVE  /\ g'[q].waitOn \in Procs /\ g'[g'[q].waitOn].pc \in Flying
                      /\ g'[g'[q].waitOn].host = g'[q].host
    BY DEF WaitInv, WaiterHasLeader, Leading, FlightDone, Flying, At
  <2>1. q # p /\ g'[q] = g[q] /\ At(q, "wait") BY <1>2, <1>3 DEF At
  <2>2. g[q].waitOn \in Procs /\ g[q].waitOn # p
    BY <1>0, <2>1 DEF LookupInv, WaitInv, WaiterHasLeader, FlightDone, At
  <2> QED BY <1>3, <2>1, <2>2, WaiterKeeps DEF LookupInv
<1>6. ResultInv' BY <1>0, <1>2, <1>3 DEF LookupInv, ResultInv, AddressOrError
<1> QED BY <1>4, <1>5, <1>6 DEF LookupInv

(* An attempt that failed leaves the leader at work, or with an error. *)
LEMMA FailureWorks ==
  ASSUME TypeInv, LookupInv, NEW p \in Procs, NEW err \in Errors \ {"none"},
         g[p].pc \in {"connect", "query", "judge"}, UNCHANGED flight,
         Become(p, AfterFailure(g[p], err))
  PROVE  Working(p)
<1>1. g[p] \in Sound /\ g[p].ip = None BY DEF TypeInv, LookupInv, ResultInv
<1>2. g'[p] = AfterFailure(g[p], err) /\ Others(p) BY DEF Become, Others, TypeInv
<1> QED BY <1>1, <1>2 DEF Working, AfterFailure, Sound, Goroutine

(* A delivered answer leaves the leader with an address. *)
LEMMA DeliverWorks ==
  ASSUME TypeInv, NEW p \in Procs, NEW ip \in Families,
         g[p].pc = "query", UNCHANGED flight, Deliver(p, ip)
  PROVE  Working(p)
<1>1. g[p] \in Sound BY DEF TypeInv
<1>2. g'[p] = [g[p] EXCEPT !.pc = "wake", !.ip = ip, !.err = "none", !.seen = Unasked, !.terr = "none"]
      /\ Others(p)
  BY DEF Deliver, Become, Others, TypeInv
<1>3. g'[p].pc = "wake" /\ g'[p].ip = ip /\ g'[p].err = "none" /\ g'[p].host = g[p].host
  BY <1>1, <1>2 DEF Sound, Goroutine
<1>4. ip # None BY NoneAssumption DEF Families
<1> QED BY <1>2, <1>3, <1>4 DEF Working

(* The initial state satisfies the invariant: nobody leads or waits. *)
LEMMA InitLookup == Init => LookupInv
BY DEF Init, LookupInv, FlightInv, WaitInv, WaiterHasLeader, ResultInv, AddressOrError,
       Leading, At, Idle

(* The ways a step of p can bear on the flights. *)
Shape(p) ==
  Bystander(p) \/ Working(p) \/ CtxDone(p) \/ Join(p) \/ Wake(p) \/ Forget(p)

(* Every step of a goroutine has one of these shapes. *)
LEMMA StepShape ==
  ASSUME TypeInv, LookupInv, NEW p \in Procs,
         Start(p) \/ CtxDone(p) \/ WaitCancelled(p) \/ Step(p)
  PROVE  Shape(p)
<1>0. g[p] \in Sound BY DEF TypeInv
<1> USE DEF TypeInv
<1>1. CASE Start(p)
  <2>1. PICK h \in Hosts : Become(p, [Idle EXCEPT !.pc = "cache", !.host = h, !.err = "none"])
    BY <1>1 DEF Start
  <2>2. g'[p].pc = "cache" /\ g'[p].ip = None /\ Others(p) BY <2>1 DEF Become, Idle, Others
  <2>3. Bystander(p) BY <1>1, <2>2 DEF Start, Bystander, Leading, At
  <2> QED BY <2>3 DEF Shape
<1>2. CASE CtxDone(p) BY <1>2 DEF Shape
<1>3. CASE WaitCancelled(p)
  <2>1. g'[p] = Returned(None, "final") /\ Others(p) BY <1>3 DEF WaitCancelled, Become, Others
  <2>2. g'[p].pc = "idle" /\ g'[p].ip = None /\ g'[p].err = "final"
    BY <2>1 DEF Returned, Idle
  <2>3. Bystander(p) BY <1>3, <2>1, <2>2 DEF WaitCancelled, Bystander, Leading, At
  <2> QED BY <2>3 DEF Shape
<1>4. CASE CheckCache(p)
  <2>1. g[p].host \in Hosts /\ g[p].pc = "cache" /\ g[p].ip = None
    BY <1>0, <1>4 DEF Sound, CheckCache, At, LookupInv, ResultInv
  <2>2. CASE Valid(cache[g[p].host])
    <3>1. cache[g[p].host].ip # None BY <2>1, <2>2, NoneAssumption DEF Valid, Entry, Families
    <3>2. g'[p] = Returned(cache[g[p].host].ip, "none") /\ Others(p)
      BY <1>4, <2>2 DEF CheckCache, Become, Others
    <3>3. g'[p].pc = "idle" /\ g'[p].ip # None /\ g'[p].err = "none"
      BY <3>1, <3>2 DEF Returned, Idle
    <3>4. Bystander(p) BY <1>4, <2>1, <3>2, <3>3 DEF CheckCache, Bystander, Leading
    <3> QED BY <3>4 DEF Shape
  <2>3. CASE ~Valid(cache[g[p].host])
    <3>1. g'[p] = [g[p] EXCEPT !.pc = "join"] /\ Others(p)
      BY <1>4, <2>3 DEF CheckCache, Become, Others
    <3>2. g'[p].pc = "join" /\ g'[p].ip = None BY <1>0, <2>1, <3>1 DEF Sound, Goroutine
    <3>3. Bystander(p) BY <1>4, <2>1, <3>1, <3>2 DEF CheckCache, Bystander, Leading
    <3> QED BY <3>3 DEF Shape
  <2> QED BY <2>2, <2>3
<1>5. CASE Join(p) BY <1>5 DEF Shape
<1>6. CASE Woken(p)
  <2>1. g[p].pc = "woken" /\ (g[p].ip = None <=> g[p].err # "none")
    BY <1>6 DEF Woken, At, LookupInv, ResultInv, AddressOrError
  <2>2. \/ g'[p] = Returned(g[p].ip, g[p].err)
        \/ g'[p] = Returned(None, "final")
    BY <1>6 DEF Woken, Become
  <2>3. Others(p) BY <1>6 DEF Woken, Become, Others
  <2>4. g'[p].pc = "idle" /\ (g'[p].ip = None <=> g'[p].err # "none")
    BY <2>1, <2>2 DEF Returned, Idle
  <2>5. Bystander(p) BY <1>6, <2>1, <2>3, <2>4 DEF Woken, Bystander, Leading
  <2> QED BY <2>5 DEF Shape
<1>7. CASE Connect(p)
  <2>1. g[p].pc = "connect" /\ g[p].ip = None /\ UNCHANGED flight
    BY <1>7 DEF Connect, At, LookupInv, ResultInv
  <2>2. CASE Become(p, [g[p] EXCEPT !.pc = "query"])
    <3>1. g'[p].pc = "query" /\ g'[p].ip = None /\ g'[p].host = g[p].host /\ Others(p)
      BY <1>0, <2>1, <2>2 DEF Become, Others, Sound, Goroutine
    <3> QED BY <2>1, <3>1 DEF Shape, Working
  <2>3. CASE Become(p, AfterFailure(g[p], "final"))
    <3>1. Working(p) BY <2>1, <2>3, FailureWorks DEF Errors
    <3> QED BY <3>1 DEF Shape
  <2> QED BY <1>7, <2>2, <2>3 DEF Connect
<1>8. ASSUME NEW q \in Questions, Answer(p, q) PROVE Shape(p)
  <2>1. g[p].pc = "query" /\ g[p].ip = None /\ UNCHANGED flight
    BY <1>8 DEF Answer, At, LookupInv, ResultInv
  <2>2. PICK ip \in Families :
          IF EndsQuery(ip)
            THEN Deliver(p, ip)
            ELSE Become(p, [g[p] EXCEPT !.seen[q] = ip]) /\ UNCHANGED cache
    BY <1>8 DEF Answer, Families
  <2>3. CASE EndsQuery(ip)
    <3>1. Working(p) BY <2>1, <2>2, <2>3, DeliverWorks
    <3> QED BY <3>1 DEF Shape
  <2>4. CASE ~EndsQuery(ip)
    <3>1. g'[p].pc = "query" /\ g'[p].ip = None /\ g'[p].host = g[p].host /\ Others(p)
      BY <1>0, <2>1, <2>2, <2>4 DEF Become, Others, Sound, Goroutine
    <3> QED BY <2>1, <3>1 DEF Shape, Working
  <2> QED BY <2>3, <2>4
<1>9. ASSUME NEW q \in Questions, AnswerFails(p, q) PROVE Shape(p)
  <2>1. g[p].pc = "query" /\ g[p].ip = None /\ UNCHANGED flight
    BY <1>9 DEF AnswerFails, At, LookupInv, ResultInv
  <2>2. PICK e : Become(p, [g[p] EXCEPT !.seen[q] = e, !.terr = Remember(@, e)])
    BY <1>9 DEF AnswerFails
  <2>3. g'[p].pc = "query" /\ g'[p].ip = None /\ g'[p].host = g[p].host /\ Others(p)
    BY <1>0, <2>1, <2>2 DEF Become, Others, Sound, Goroutine
  <2> QED BY <2>1, <2>3 DEF Shape, Working
<1>10. CASE Conclude(p)
  <2>1. g[p].pc = "query" /\ g[p].ip = None /\ UNCHANGED flight
    BY <1>10 DEF Conclude, At, LookupInv, ResultInv
  <2>2. CASE Deliver(p, "v6")
    <3>1. Working(p) BY <2>1, <2>2, DeliverWorks DEF Families
    <3> QED BY <3>1 DEF Shape
  <2>3. CASE Become(p, [g[p] EXCEPT !.pc = "judge"])
    <3>1. g'[p].pc = "judge" /\ g'[p].ip = None /\ g'[p].host = g[p].host /\ Others(p)
      BY <1>0, <2>1, <2>3 DEF Become, Others, Sound, Goroutine
    <3> QED BY <2>1, <3>1 DEF Shape, Working
  <2> QED BY <1>10, <2>2, <2>3 DEF Conclude
<1>11. CASE Judge(p)
  <2> DEFINE e == IF g[p].terr = "none" THEN "final" ELSE g[p].terr
  <2>1. g[p].pc = "judge" /\ UNCHANGED flight /\ Become(p, AfterFailure(g[p], e))
    BY <1>11 DEF Judge, At
  <2>2. e \in Errors \ {"none"} BY <1>0 DEF Sound, Goroutine, Errors
  <2>3. Working(p) BY <2>1, <2>2, FailureWorks
  <2> QED BY <2>3 DEF Shape
<1>12. CASE Wake(p) BY <1>12 DEF Shape
<1>13. CASE Forget(p) BY <1>13 DEF Shape
<1> QED BY <1>1, <1>2, <1>3, <1>4, <1>5, <1>6, <1>7, <1>8, <1>9, <1>10, <1>11, <1>12, <1>13
        DEF Step

(* A context that ends moves nobody. *)
LEMMA CtxDoneFields ==
  ASSUME TypeInv, NEW p \in Procs, CtxDone(p)
  PROVE  /\ g'[p].pc = g[p].pc /\ g'[p].host = g[p].host /\ g'[p].ip = g[p].ip
         /\ g'[p].err = g[p].err /\ g'[p].waitOn = g[p].waitOn /\ Others(p) /\ UNCHANGED flight
<1>0. g[p] \in Sound BY DEF TypeInv
<1>1. g' = [g EXCEPT ![p] = [g[p] EXCEPT !.ctx = TRUE]] /\ UNCHANGED flight BY DEF CtxDone
<1> QED BY <1>0, <1>1 DEF TypeInv, Sound, Goroutine, Others

(* Every step preserves it. *)
LEMMA NextLookup ==
  ASSUME TypeInv, LookupInv, [Next]_vars
  PROVE  LookupInv'
<1>1. CASE UNCHANGED <<flight, g>>
  BY <1>1 DEF LookupInv, FlightInv, WaitInv, WaiterHasLeader, ResultInv, AddressOrError,
              Leading, FlightDone, At
<1>2. ASSUME NEW p \in Procs, Start(p) \/ CtxDone(p) \/ WaitCancelled(p) \/ Step(p)
      PROVE  LookupInv'
  <2>1. CASE CtxDone(p)
    BY <2>1, CtxDoneFields
       DEF LookupInv, FlightInv, WaitInv, WaiterHasLeader, ResultInv, AddressOrError,
           Leading, FlightDone, At, Others, TypeInv
  <2> QED BY <1>2, <2>1, StepShape, BystanderPreserves, WorkingPreserves, JoinPreserves,
             WakePreserves, ForgetPreserves DEF Shape
<1> QED BY <1>1, <1>2 DEF Next, Tick, vars

(* At most one goroutine resolves a given name at a time. *)
THEOREM OneLeaderPerHost == Spec => []OneLeader
<1>1. TypeInv /\ LookupInv => OneLeader
  BY DEF TypeInv, LookupInv, FlightInv, OneLeader
<1> QED BY InitType, NextType, InitLookup, NextLookup, <1>1, PTL DEF Spec

(* Nobody is parked on a flight that is over. *)
THEOREM WaitersAreServed == Spec => []WaiterHasLeader
<1>1. LookupInv => WaiterHasLeader BY DEF LookupInv, WaitInv
<1> QED BY InitType, NextType, InitLookup, NextLookup, <1>1, PTL DEF Spec

(* A lookup returns an address or an error, never neither and never both. *)
THEOREM NeverNilNil == Spec => []AddressOrError
<1>1. LookupInv => AddressOrError BY DEF LookupInv, ResultInv
<1> QED BY InitType, NextType, InitLookup, NextLookup, <1>1, PTL DEF Spec

-----------------------------------------------------------------------------
(* What dnsQuery remembers of its two questions.                            *)

(* The A question is never the one with an IPv6 address, and a transport    *)
(* error of either is the error dnsQuery will return.                       *)
Remembers(r) ==
  /\ r.seen["A"] # "v6"
  /\ r.seen["A"] = "transport" \/ r.seen["AAAA"] = "transport" => r.terr = "transport"

AnswerInv == \A p \in Procs : Remembers(g[p])

(* What one step may do to a lookup r, in terms of the two promises. *)
Sober(r) ==
  /\ Remembers(g'[r])
  /\ g[r].pc = "query" /\ g'[r].pc = "wake" /\ g'[r].ip = "v6" => g[r].seen["A"] \in Errors
  /\ /\ g[r].pc = "judge" /\ g[r].attempt = 1 /\ ~g[r].ctx
     /\ \E q \in Questions : g[r].seen[q] = "transport"
     => g'[r].pc \in {"judge", "connect"}

(* A lookup that has asked nothing remembers nothing. *)
LEMMA UnaskedIsClean ==
  /\ Unasked["A"] = "no" /\ Unasked["AAAA"] = "no"
  /\ Idle.seen = Unasked
  /\ \A ip, err : Returned(ip, err).seen = Unasked
  /\ \A h : [Idle EXCEPT !.pc = "cache", !.host = h, !.err = "none"].seen = Unasked
BY DEF Unasked, Questions, Idle, Returned

(* A step outside the query, or one that only forgets, is sober. *)
LEMMA QuietIsSober ==
  ASSUME AnswerInv, NEW r \in Procs,
         \/ g'[r] = g[r]
         \/ /\ g[r].pc \notin {"query", "judge"} \/ g'[r].pc = g[r].pc
            /\ \/ g'[r].seen = Unasked
               \/ g'[r].seen = g[r].seen /\ g'[r].terr = g[r].terr
  PROVE  Sober(r)
BY UnaskedIsClean DEF AnswerInv, Remembers, Sober

(* Every step of a goroutine is sober for itself and for all others. *)
LEMMA StepIsSober ==
  ASSUME TypeInv, AnswerInv, NEW p \in Procs,
         Start(p) \/ CtxDone(p) \/ WaitCancelled(p) \/ Step(p)
  PROVE  \A r \in Procs : Sober(r)
<1> USE DEF TypeInv
<1>0. g[p] \in Sound /\ g[p] \in Goroutine BY DEF Sound
<1>1. ASSUME NEW x, Become(p, x) PROVE g'[p] = x /\ Others(p) BY <1>1 DEF Become, Others
<1>2. ASSUME Others(p), Sober(p) PROVE \A r \in Procs : Sober(r)
  <2>1. \A r \in Procs \ {p} : Sober(r) BY <1>2, QuietIsSober DEF Others
  <2> QED BY <1>2, <2>1
<1>3. CASE Start(p) \/ WaitCancelled(p) \/ Woken(p) \/ Forget(p)
  <2>1. PICK x : Become(p, x) /\ x.seen = Unasked
    BY <1>3, UnaskedIsClean DEF Start, WaitCancelled, Woken, Forget
  <2>2. g[p].pc \notin {"query", "judge"} BY <1>3 DEF Start, WaitCancelled, Woken, Forget, At
  <2>3. Sober(p) BY <1>1, <2>1, <2>2, QuietIsSober
  <2> QED BY <1>1, <1>2, <2>1, <2>3
<1>4. CASE CtxDone(p)
  <2>1. g' = [g EXCEPT ![p] = [g[p] EXCEPT !.ctx = TRUE]] BY <1>4 DEF CtxDone
  <2>2. g'[p].pc = g[p].pc /\ g'[p].seen = g[p].seen /\ g'[p].terr = g[p].terr /\ Others(p)
    BY <1>0, <2>1 DEF Goroutine, Others
  <2> QED BY <1>2, <2>2, QuietIsSober
<1>5. CASE CheckCache(p) \/ Join(p)
  <2>1. g[p].pc \notin {"query", "judge"} BY <1>5 DEF CheckCache, Join, At
  <2>2. PICK x : Become(p, x) /\ (x.seen = Unasked \/ (x.seen = g[p].seen /\ x.terr = g[p].terr))
    <3>1. CASE CheckCache(p)
      <4>1. Become(p, Returned(cache[g[p].host].ip, "none")) \/ Become(p, [g[p] EXCEPT !.pc = "join"])
        BY <3>1 DEF CheckCache
      <4>2. [g[p] EXCEPT !.pc = "join"].seen = g[p].seen /\ [g[p] EXCEPT !.pc = "join"].terr = g[p].terr
        BY <1>0 DEF Goroutine
      <4> QED BY <4>1, <4>2, UnaskedIsClean
    <3>2. CASE Join(p)
      <4> DEFINE q == flight[g[p].host]
                 woken == [g[p] EXCEPT !.pc = "woken", !.ip = g[q].ip, !.err = g[q].err]
                 wait == [g[p] EXCEPT !.pc = "wait", !.waitOn = q]
                 lead == [g[p] EXCEPT !.pc = "connect", !.attempt = 1]
      <4>1. Become(p, woken) \/ Become(p, wait) \/ Become(p, lead) BY <3>2 DEF Join
      <4>2. /\ woken.seen = g[p].seen /\ woken.terr = g[p].terr
            /\ wait.seen = g[p].seen /\ wait.terr = g[p].terr
            /\ lead.seen = g[p].seen /\ lead.terr = g[p].terr
        BY <1>0 DEF Goroutine
      <4> QED BY <4>1, <4>2
    <3> QED BY <1>5, <3>1, <3>2
  <2>3. Sober(p) BY <1>1, <2>1, <2>2, QuietIsSober
  <2> QED BY <1>1, <1>2, <2>2, <2>3
<1>6. CASE Connect(p)
  <2>1. g[p].pc = "connect" BY <1>6 DEF Connect, At
  <2>2. PICK x : Become(p, x) /\ (x.seen = Unasked \/ (x.seen = g[p].seen /\ x.terr = g[p].terr))
    <3>1. AfterFailure(g[p], "final").seen = Unasked BY <1>0 DEF AfterFailure, Goroutine
    <3>2. [g[p] EXCEPT !.pc = "query"].seen = g[p].seen /\ [g[p] EXCEPT !.pc = "query"].terr = g[p].terr
      BY <1>0 DEF Goroutine
    <3> QED BY <1>6, <3>1, <3>2 DEF Connect
  <2>3. Sober(p) BY <1>1, <2>1, <2>2, QuietIsSober
  <2> QED BY <1>1, <1>2, <2>2, <2>3
<1>7. ASSUME NEW q \in Questions, Answer(p, q) PROVE \A r \in Procs : Sober(r)
  <2>1. g[p].pc = "query" BY <1>7 DEF Answer, At
  <2>2. CASE Deliver(p, "v4")
    <3> DEFINE x == [g[p] EXCEPT !.pc = "wake", !.ip = "v4", !.err = "none", !.seen = Unasked, !.terr = "none"]
    <3>1. Become(p, x) BY <2>2 DEF Deliver
    <3>2. x.seen = Unasked /\ x.ip = "v4" BY <1>0 DEF Goroutine
    <3>3. g'[p].seen = Unasked /\ g'[p].ip = "v4" /\ Others(p) BY <1>1, <3>1, <3>2
    <3>4. Sober(p) BY <2>1, <3>3, UnaskedIsClean DEF Sober, Remembers
    <3> QED BY <1>2, <3>3, <3>4
  <2>3. CASE q = "AAAA" /\ Become(p, [g[p] EXCEPT !.seen[q] = "v6"])
    <3>1. g'[p] = [g[p] EXCEPT !.seen[q] = "v6"] /\ Others(p) BY <1>1, <2>3
    <3>2. g'[p].seen = [g[p].seen EXCEPT ![q] = "v6"] /\ g'[p].pc = "query" /\ g'[p].terr = g[p].terr
      BY <1>0, <2>1, <3>1 DEF Goroutine
    <3>3. g[p].seen \in [Questions -> {"no", "v6"} \cup Errors] BY <1>0 DEF Goroutine
    <3>4. g'[p].seen["A"] = g[p].seen["A"] /\ g'[p].seen["AAAA"] = "v6" BY <2>3, <3>2, <3>3 DEF Questions
    <3>5. Sober(p) BY <2>1, <3>2, <3>4 DEF Sober, Remembers, AnswerInv
    <3> QED BY <1>2, <3>1, <3>5
  <2> QED BY <1>7, <2>2, <2>3 DEF Answer, EndsQuery, Families, Questions
<1>8. ASSUME NEW q \in Questions, AnswerFails(p, q) PROVE \A r \in Procs : Sober(r)
  <2>1. g[p].pc = "query" /\ g[p].seen[q] = "no" BY <1>8 DEF AnswerFails, At
  <2>2. PICK e \in {"final", "transport"} :
          Become(p, [g[p] EXCEPT !.seen[q] = e, !.terr = Remember(@, e)])
    BY <1>8 DEF AnswerFails
  <2>3. g'[p] = [g[p] EXCEPT !.seen[q] = e, !.terr = Remember(@, e)] /\ Others(p) BY <1>1, <2>2
  <2>4. /\ g'[p].seen = [g[p].seen EXCEPT ![q] = e] /\ g'[p].pc = "query"
        /\ g'[p].terr = Remember(g[p].terr, e)
    BY <1>0, <2>1, <2>3 DEF Goroutine
  <2>5. g[p].seen \in [Questions -> {"no", "v6"} \cup Errors] BY <1>0 DEF Goroutine
  <2>6. /\ q = "A" => g'[p].seen["A"] = e /\ g'[p].seen["AAAA"] = g[p].seen["AAAA"]
        /\ q = "AAAA" => g'[p].seen["AAAA"] = e /\ g'[p].seen["A"] = g[p].seen["A"]
    BY <2>4, <2>5 DEF Questions
  <2>7. Remembers(g'[p]) BY <2>4, <2>6 DEF Remembers, Remember, AnswerInv, Questions
  <2>8. Sober(p) BY <2>1, <2>4, <2>7 DEF Sober
  <2> QED BY <1>2, <2>3, <2>8
<1>9. CASE Conclude(p)
  <2>1. g[p].pc = "query" /\ g[p].seen["A"] # "no" /\ g[p].seen["A"] # "v6"
    BY <1>9 DEF Conclude, At, Questions, AnswerInv, Remembers
  <2>2. g[p].seen["A"] \in Errors
    <3>1. g[p].seen \in [Questions -> {"no", "v6"} \cup Errors] BY <1>0 DEF Goroutine
    <3> QED BY <2>1, <3>1 DEF Questions
  <2>3. PICK x : Become(p, x) /\ (x.seen = Unasked \/ (x.seen = g[p].seen /\ x.terr = g[p].terr))
    <3> DEFINE done == [g[p] EXCEPT !.pc = "wake", !.ip = "v6", !.err = "none", !.seen = Unasked, !.terr = "none"]
               judge == [g[p] EXCEPT !.pc = "judge"]
    <3>1. Become(p, done) \/ Become(p, judge) BY <1>9 DEF Conclude, Deliver
    <3>2. done.seen = Unasked /\ judge.seen = g[p].seen /\ judge.terr = g[p].terr BY <1>0 DEF Goroutine
    <3> QED BY <3>1, <3>2
  <2>4. Sober(p) BY <1>1, <2>1, <2>2, <2>3, UnaskedIsClean DEF Sober, Remembers, AnswerInv
  <2> QED BY <1>1, <1>2, <2>3, <2>4
<1>10. CASE Judge(p)
  <2> DEFINE e == IF g[p].terr = "none" THEN "final" ELSE g[p].terr
  <2>1. g[p].pc = "judge" /\ g'[p] = AfterFailure(g[p], e) /\ Others(p) BY <1>1, <1>10 DEF Judge, At
  <2>2. g'[p].seen = Unasked BY <1>0, <2>1 DEF AfterFailure, Goroutine
  <2>3. ASSUME g[p].attempt = 1, ~g[p].ctx, \E q \in Questions : g[p].seen[q] = "transport"
        PROVE  g'[p].pc = "connect"
    <3>1. e = "transport" BY <2>3 DEF AnswerInv, Remembers, Questions
    <3>2. g'[p] = [g[p] EXCEPT !.pc = "connect", !.attempt = @ + 1, !.seen = Unasked, !.terr = "none", !.err = e]
      BY <2>1, <2>3, <3>1 DEF AfterFailure
    <3> QED BY <1>0, <3>2 DEF Goroutine
  <2>4. Sober(p) BY <2>1, <2>2, <2>3, UnaskedIsClean DEF Sober, Remembers
  <2> QED BY <1>2, <2>1, <2>4
<1>11. CASE Wake(p)
  <2> SUFFICES ASSUME NEW r \in Procs PROVE Sober(r)
    OBVIOUS
  <2>1. g[r] \in Goroutine /\ g[p].pc = "wake" BY <1>11 DEF Sound, Wake, At
  <2>2. \/ g'[r] = g[r]
        \/ g[r].pc \in {"wake", "wait"} /\ (g'[r] = [g[r] EXCEPT !.pc = "forget"] \/ g'[r] = Informed(p, g[r]))
    BY <1>11, <2>1 DEF Wake, At
  <2>3. \/ g'[r] = g[r]
        \/ g[r].pc \in {"wake", "wait"} /\ g'[r].seen = g[r].seen /\ g'[r].terr = g[r].terr
    BY <2>1, <2>2 DEF Goroutine, Informed
  <2> QED BY <2>3, QuietIsSober
<1> QED BY <1>3, <1>4, <1>5, <1>6, <1>7, <1>8, <1>9, <1>10, <1>11 DEF Step

(* Every step keeps the invariant and both promises. *)
LEMMA NextIsSober ==
  ASSUME TypeInv, AnswerInv, [Next]_vars
  PROVE  \A r \in Procs : Sober(r)
<1>1. ASSUME UNCHANGED g PROVE \A r \in Procs : Sober(r) BY <1>1, QuietIsSober
<1> QED BY <1>1, StepIsSober DEF Next, Tick, vars

(* AnswerInv holds at first and is kept. *)
LEMMA AnswerInvariance == Spec => [](TypeInv /\ AnswerInv)
<1>1. Init => AnswerInv BY UnaskedIsClean DEF Init, AnswerInv, Remembers
<1>2. TypeInv /\ AnswerInv /\ [Next]_vars => AnswerInv' BY NextIsSober DEF AnswerInv, Sober
<1> QED BY <1>1, <1>2, InitType, NextType, PTL DEF Spec

(* dnsQuery settles for an IPv6 address only when the A question has        *)
(* failed, in whichever order the two answers arrive.                       *)
THEOREM V4IsPreferred == Spec => PrefersV4
<1>1. TypeInv /\ AnswerInv /\ [Next]_vars =>
        [\A p \in Procs : At(p, "query") /\ g'[p].pc = "wake" /\ g'[p].ip = "v6" =>
           g[p].seen["A"] \in Errors]_vars
  BY NextIsSober DEF Sober, At
<1> QED BY <1>1, AnswerInvariance, PTL DEF Spec, PrefersV4

(* A transport error of either question earns the lookup its second         *)
(* attempt, whatever the other question returned before or after it.        *)
THEOREM TransportIsRetried == Spec => TransportRetried
<1>1. TypeInv /\ AnswerInv /\ [Next]_vars =>
        [\A p \in Procs :
           /\ At(p, "judge") /\ g[p].attempt = 1 /\ ~g[p].ctx
           /\ \E q \in Questions : g[p].seen[q] = "transport"
           => g'[p].pc \in {"judge", "connect"}]_vars
  BY NextIsSober DEF Sober, At
<1> QED BY <1>1, AnswerInvariance, PTL DEF Spec, TransportRetried

-----------------------------------------------------------------------------
(* The flights of dnsFlight implement SingleFlight.                         *)

(* A step that changes nobody's part is a stutter of SingleFlight. *)
LEMMA SameRoles ==
  ASSUME \A q \in Procs, k \in Hosts : DnsRole(q, k)' = DnsRole(q, k)
  PROVE  UNCHANGED [h \in Hosts |-> [p \in Procs |-> DnsRole(p, h)]]
OBVIOUS

(* A step that changes one part is a Move. *)
LEMMA OneMoves ==
  ASSUME NEW p \in Procs, NEW h \in Hosts,
         \A q \in Procs, k \in Hosts : q # p \/ k # h => DnsRole(q, k)' = DnsRole(q, k)
  PROVE  Flight!Move(h, p, DnsRole(p, h), DnsRole(p, h)')
BY DEF Flight!Move

(* A step that frees the waiters of h and lands its leader is a Land. *)
LEMMA AllLand ==
  ASSUME NEW p \in Procs, NEW h \in Hosts, DnsRole(p, h) = "lead",
         \A q \in Procs, k \in Hosts :
           DnsRole(q, k)' = IF k # h THEN DnsRole(q, k) ELSE IF q = p THEN "landed"
                            ELSE IF DnsRole(q, k) = "wait" THEN "out" ELSE DnsRole(q, k)
  PROVE  Flight!Land(h, p)
<1> DEFINE part == [k \in Hosts |-> [q \in Procs |-> DnsRole(q, k)]]
           row == [q \in Procs |-> IF q = p THEN "landed"
                                   ELSE IF part[h][q] = "wait" THEN "out" ELSE part[h][q]]
<1>1. ASSUME NEW k \in Hosts, k # h PROVE part'[k] = part[k] BY <1>1
<1>2. part'[h] = row OBVIOUS
<1>3. part' = [part EXCEPT ![h] = row] BY <1>1, <1>2
<1> QED BY <1>3 DEF Flight!Land

(* Every step of DnsResolver is a step of SingleFlight, or none. *)
LEMMA RefineNext ==
  ASSUME TypeInv, LookupInv, [Next]_vars
  PROVE  [Flight!Next]_([h \in Hosts |-> [p \in Procs |-> DnsRole(p, h)]])
<1> DEFINE part == [h \in Hosts |-> [p \in Procs |-> DnsRole(p, h)]]
<1>1. CASE UNCHANGED <<flight, g>>
  BY <1>1, SameRoles DEF DnsRole, Leading, At
<1>2. ASSUME NEW p \in Procs, Start(p) \/ CtxDone(p) \/ WaitCancelled(p) \/ Step(p)
      PROVE  Flight!Next \/ UNCHANGED part
  <2> DEFINE h == g[p].host
  <2>0. ASSUME Others(p) PROVE \A q \in Procs \ {p}, k \in Hosts : DnsRole(q, k)' = DnsRole(q, k)
    BY <2>0 DEF Others, DnsRole, Leading, At
  <2>1. CASE CtxDone(p)
    <3>1. Others(p) /\ \A k \in Hosts : DnsRole(p, k)' = DnsRole(p, k)
      BY <2>1, CtxDoneFields DEF DnsRole, Leading, At
    <3> QED BY <2>0, <3>1, SameRoles
  <2>2. CASE Bystander(p)
    <3>1. Others(p) /\ \A k \in Hosts : DnsRole(p, k)' = "out"
      BY <2>2 DEF Bystander, DnsRole, Leading, At
    <3>2. CASE At(p, "wait")
      <4>1. h \in Hosts /\ DnsRole(p, h) = "wait" /\ \A k \in Hosts : k # h => DnsRole(p, k) = "out"
        BY <3>2 DEF DnsRole, Leading, At, TypeInv, Sound
      <4>2. Flight!GiveUp(h, p) BY <2>0, <3>1, <4>1, OneMoves DEF Flight!GiveUp
      <4> QED BY <4>1, <4>2 DEF Flight!Next
    <3>3. CASE ~At(p, "wait")
      <4>1. \A k \in Hosts : DnsRole(p, k) = "out" BY <2>2, <3>3 DEF Bystander, DnsRole, Leading, At
      <4> QED BY <2>0, <3>1, <4>1, SameRoles
    <3> QED BY <3>2, <3>3
  <2>3. CASE Working(p)
    <3>1. Others(p) /\ \A k \in Hosts : DnsRole(p, k)' = DnsRole(p, k)
      BY <2>3 DEF Working, DnsRole, Leading, At
    <3> QED BY <2>0, <3>1, SameRoles
  <2>4. CASE Join(p)
    <3>1. h \in Hosts /\ g[p] \in Sound /\ g[p].pc = "join" /\ \A k \in Hosts : DnsRole(p, k) = "out"
      BY <2>4 DEF Join, At, TypeInv, Sound, DnsRole, Leading
    <3>2. CASE flight[h] = None
      <4>1. g' = [g EXCEPT ![p] = [g[p] EXCEPT !.pc = "connect", !.attempt = 1]]
        BY <2>4, <3>2 DEF Join, MustFollow, Become
      <4>2. g'[p].pc = "connect" /\ g'[p].host = h /\ Others(p)
        BY <3>1, <4>1 DEF TypeInv, Sound, Goroutine, Others
      <4>3. DnsRole(p, h)' = "lead" /\ \A k \in Hosts : k # h => DnsRole(p, k)' = "out"
        BY <4>2 DEF DnsRole, Leading, At
      <4>4. ASSUME NEW q \in Procs PROVE DnsRole(q, h) \notin {"lead", "landed"}
        BY <3>1, <3>2, NoneAssumption DEF DnsRole, Leading, At, LookupInv, FlightInv, TypeInv, Sound
      <4>5. ~Flight!Taken(h) BY <3>1, <4>4 DEF Flight!Taken
      <4>6. Flight!Lead(h, p) BY <2>0, <3>1, <4>2, <4>3, <4>5, OneMoves DEF Flight!Lead
      <4> QED BY <3>1, <4>6 DEF Flight!Next
    <3>3. CASE flight[h] # None /\ FlightDone(flight[h])
      <4>1. g' = [g EXCEPT ![p] = [g[p] EXCEPT !.pc = "woken", !.ip = g[flight[h]].ip, !.err = g[flight[h]].err]]
        BY <2>4, <3>3 DEF Join, MustFollow, Become
      <4>2. g'[p].pc = "woken" /\ Others(p) BY <3>1, <4>1 DEF TypeInv, Sound, Goroutine, Others
      <4>3. \A k \in Hosts : DnsRole(p, k)' = "out" BY <4>2 DEF DnsRole, Leading, At
      <4> QED BY <2>0, <3>1, <4>2, <4>3, SameRoles
    <3>4. CASE flight[h] # None /\ ~FlightDone(flight[h])
      <4>1. g' = [g EXCEPT ![p] = [g[p] EXCEPT !.pc = "wait", !.waitOn = flight[h]]]
        BY <2>4, <3>4 DEF Join, MustFollow, Become
      <4>2. g'[p].pc = "wait" /\ g'[p].host = h /\ Others(p)
        BY <3>1, <4>1 DEF TypeInv, Sound, Goroutine, Others
      <4>3. DnsRole(p, h)' = "wait" /\ \A k \in Hosts : k # h => DnsRole(p, k)' = "out"
        BY <4>2 DEF DnsRole, Leading, At
      <4>4. flight[h] \in Procs /\ DnsRole(flight[h], h) = "lead"
        BY <3>1, <3>4 DEF DnsRole, Leading, FlightDone, At, LookupInv, FlightInv, TypeInv
      <4>5. Flight!Airborne(h) BY <3>1, <4>4 DEF Flight!Airborne
      <4>6. Flight!Follow(h, p) BY <2>0, <3>1, <4>2, <4>3, <4>5, OneMoves DEF Flight!Follow
      <4> QED BY <3>1, <4>6 DEF Flight!Next
    <3> QED BY <3>2, <3>3, <3>4
  <2>5. CASE Wake(p)
    <3>1. h \in Hosts /\ g[p] \in Sound /\ g[p].pc = "wake" /\ flight[h] = p
      BY <2>5 DEF Wake, At, TypeInv, Sound, LookupInv, FlightInv, Leading
    <3>2. g'[p].pc = "forget" /\ g'[p].host = h
      BY <2>5, <3>1 DEF Wake, Sound, Goroutine
    <3>3. ASSUME NEW q \in Procs \ {p}, NEW k \in Hosts
          PROVE  DnsRole(q, k)' = IF k = h /\ DnsRole(q, k) = "wait" THEN "out" ELSE DnsRole(q, k)
      <4>0. g[q] \in Sound BY DEF TypeInv
      <4>1. CASE At(q, "wait") /\ g[q].waitOn = p
        <5>1. g[q].host = h BY <4>1 DEF LookupInv, WaitInv, WaiterHasLeader
        <5>2. g'[q] = Informed(p, g[q]) BY <2>5, <4>1 DEF Wake
        <5>3. g'[q].pc = "woken" /\ g'[q].host = h
          BY <4>0, <5>1, <5>2 DEF Informed, Sound, Goroutine
        <5> QED BY <4>1, <5>1, <5>3 DEF DnsRole, Leading, At
      <4>2. CASE ~(At(q, "wait") /\ g[q].waitOn = p)
        <5>1. g'[q] = g[q] BY <2>5, <4>2 DEF Wake
        <5>2. At(q, "wait") => g[q].host # h
          BY <3>1, <4>2 DEF LookupInv, WaitInv, WaiterHasLeader, FlightInv
        <5> QED BY <5>1, <5>2 DEF DnsRole, Leading, At
      <4> QED BY <4>1, <4>2
    <3>4. DnsRole(p, h) = "lead" /\ DnsRole(p, h)' = "landed"
      BY <3>1, <3>2 DEF DnsRole, Leading, At
    <3>5. \A k \in Hosts : k # h => DnsRole(p, k)' = DnsRole(p, k)
      BY <3>1, <3>2 DEF DnsRole, Leading, At
    <3>6. ASSUME NEW q \in Procs, NEW k \in Hosts
          PROVE  DnsRole(q, k)' = IF k # h THEN DnsRole(q, k) ELSE IF q = p THEN "landed"
                                  ELSE IF DnsRole(q, k) = "wait" THEN "out" ELSE DnsRole(q, k)
      <4>1. CASE q = p
        <5>1. CASE k = h BY <3>2, <3>4, <4>1, <5>1
        <5>2. CASE k # h BY <3>5, <4>1, <5>2
        <5> QED BY <5>1, <5>2
      <4>2. CASE q # p BY <3>3, <4>2
      <4> QED BY <4>1, <4>2
    <3>7. Flight!Land(h, p) BY <3>1, <3>4, <3>6, AllLand
    <3> QED BY <3>1, <3>7 DEF Flight!Next
  <2>6. CASE Forget(p)
    <3>1. h \in Hosts /\ g[p].pc = "forget" BY <2>6 DEF Forget, At, TypeInv, Sound
    <3>2. g' = [g EXCEPT ![p] = Returned(g[p].ip, g[p].err)] BY <2>6 DEF Forget, Become
    <3>3. g'[p].pc = "idle" /\ Others(p) BY <3>2 DEF TypeInv, Returned, Idle, Others
    <3>4. DnsRole(p, h) = "landed" /\ \A k \in Hosts : k # h => DnsRole(p, k) = "out"
      BY <3>1 DEF DnsRole, Leading, At
    <3>5. \A k \in Hosts : DnsRole(p, k)' = "out" BY <3>3 DEF DnsRole, Leading, At
    <3>6. Flight!Retire(h, p) BY <2>0, <3>1, <3>3, <3>4, <3>5, OneMoves DEF Flight!Retire
    <3> QED BY <3>1, <3>6 DEF Flight!Next
  <2> QED BY <1>2, <2>1, <2>2, <2>3, <2>4, <2>5, <2>6, StepShape DEF Shape
<1> QED BY <1>1, <1>2 DEF Next, Tick, vars

(* resolveDNS implements SingleFlight, one flight per name: whoever finds   *)
(* no flight leads one, whoever finds one that has not been closed waits,   *)
(* and the leader's close releases every waiter.                            *)
THEOREM FlightsAreSingle == Spec => DnsIsSingleFlight
<1>1. Init => Flight!Init BY DEF Init, Flight!Init, DnsRole, Leading, At, Idle
<1>2. TypeInv /\ LookupInv /\ [Next]_vars => [Flight!Next]_([h \in Hosts |-> [p \in Procs |-> DnsRole(p, h)]])
  BY RefineNext
<1> QED BY <1>1, <1>2, InitType, NextType, InitLookup, NextLookup, PTL
        DEF Spec, DnsIsSingleFlight, Flight!Spec
=============================================================================
