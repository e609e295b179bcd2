---------------------------- MODULE DnsResolver ----------------------------
(***************************************************************************)
(* Name lookup in the HTTP/3 back end (tunnel/masque.go): the resolution   *)
(* cache, the per-host single flight of resolveDNS, its one retry, and the *)
(* two concurrent questions of dnsQuery.                                   *)
(*                                                                         *)
(* An address is its family.  Time is relative: a cached entry holds what  *)
(* is left of its life and its age, and Tick moves both, so that no clock  *)
(* has to be bounded.  The shared connection the questions ride on is      *)
(* module MasqueClient; here a question is answered or fails, with the     *)
(* mark errDoHTransport or without it.                                     *)
(***************************************************************************)
EXTENDS Naturals, FiniteSets

CONSTANTS
  Procs,       \* goroutines that resolve names
  Hosts,       \* the names
  SweepAt,     \* dnsCacheSweepAt
  MaxEntries,  \* dnsCacheMaxEntries
  MinTTL,      \* dohMinTTL
  MaxTTL,      \* dohMaxTTL
  RawTTLs,     \* TTLs a DNS answer may carry
  None         \* nil

ASSUME HostsAssumption == IsFiniteSet(Hosts)
ASSUME CacheAssumption == /\ SweepAt \in Nat /\ MaxEntries \in Nat
                          /\ SweepAt <= MaxEntries /\ MaxEntries > 0
ASSUME TTLAssumption   == /\ MinTTL \in Nat /\ MaxTTL \in Nat /\ RawTTLs \subseteq Nat
                          /\ 0 < MinTTL /\ MinTTL <= MaxTTL
ASSUME NoneAssumption  == None \notin Procs \cup Hosts \cup {"v4", "v6"}

VARIABLES
  cache,   \* dnsCache: None, or the entry of each host
  flight,  \* dnsFlight: None, or the goroutine that leads the host's lookup
  g        \* the goroutines

vars == <<cache, flight, g>>

Families  == {"v4", "v6"}
Errors    == {"none", "final", "transport"}   \* "transport" is errDoHTransport
Questions == {"A", "AAAA"}

Entry == [ip : Families, left : Nat, age : 0..MaxTTL]

Goroutine ==
  [pc      : {"idle", "cache", "join", "wait", "woken", "connect", "query", "judge", "wake", "forget"},
   host    : Hosts \cup {None},
   attempt : 0..2,
   seen    : [Questions -> {"no", "v6"} \cup Errors],  \* what dnsQuery has received
   terr    : Errors,                \* its transportErr
   ip      : Families \cup {None},  \* the result, of the flight and of the call
   err     : Errors,                \* resolveDNS's lastErr
   waitOn  : Procs \cup {None},     \* the leader waited for
   ctx     : BOOLEAN]               \* the caller's context is done

Unasked == [q \in Questions |-> "no"]

Idle == [pc |-> "idle", host |-> None, attempt |-> 0, seen |-> Unasked, terr |-> "none",
         ip |-> None, err |-> "final", waitOn |-> None, ctx |-> FALSE]

At(p, label) == g[p].pc = label
Become(p, r) == g' = [g EXCEPT ![p] = r]

(* The call returns (ip, err); an idle goroutine keeps the last result. *)
Returned(ip, err) == [Idle EXCEPT !.ip = ip, !.err = err]

Init ==
  /\ cache = [h \in Hosts |-> None]
  /\ flight = [h \in Hosts |-> None]
  /\ g = [p \in Procs |-> Idle]

-----------------------------------------------------------------------------
(* The cache.                                                               *)

Cached(c)  == {h \in Hosts : c[h] # None}
Valid(e)   == e # None /\ e.left > 0

(* parseDoHAnswer clamps the TTL of an answer. *)
Clamp_NoCeiling(raw) == IF raw < MinTTL THEN MinTTL ELSE raw
Clamp(raw) == IF raw < MinTTL THEN MinTTL ELSE IF raw > MaxTTL THEN MaxTTL ELSE raw

(* What cacheResolution leaves of the cache before it stores: everything    *)
(* below the threshold, else the valid entries, and none of them if they    *)
(* alone reach the cap.                                                     *)
Overfull_OffByOne(live) == Cardinality(live) > MaxEntries
Overfull(live) == Cardinality(live) >= MaxEntries

Kept ==
  LET live == {h \in Hosts : Valid(cache[h])}
  IN IF Cardinality(Cached(cache)) < SweepAt THEN Cached(cache)
     ELSE IF Overfull(live) THEN {} ELSE live

CacheResolution(host, ip, ttl) ==
  cache' = [h \in Hosts |-> IF h = host THEN [ip |-> ip, left |-> ttl, age |-> 0]
                            ELSE IF h \in Kept THEN cache[h] ELSE None]

(* Time passes; an entry stays in the map after its life is over. *)
Aged(e) == IF e = None THEN None
           ELSE [e EXCEPT !.left = IF @ > 0 THEN @ - 1 ELSE 0,
                          !.age  = IF @ < MaxTTL THEN @ + 1 ELSE @]

Tick ==
  /\ \E h \in Hosts : Valid(cache[h])
  /\ cache' = [h \in Hosts |-> Aged(cache[h])]
  /\ UNCHANGED <<flight, g>>

-----------------------------------------------------------------------------
(* resolveDNS.                                                              *)

(* The caller's set-up budget runs out, or the process is shutting down. *)
CtxDone(p) ==
  /\ ~At(p, "idle") /\ ~g[p].ctx
  /\ g' = [g EXCEPT ![p].ctx = TRUE]
  /\ UNCHANGED <<cache, flight>>

Start(p) ==
  /\ At(p, "idle")
  /\ \E h \in Hosts : Become(p, [Idle EXCEPT !.pc = "cache", !.host = h, !.err = "none"])
  /\ UNCHANGED <<cache, flight>>

CheckCache(p) ==
  /\ At(p, "cache")
  /\ LET e == cache[g[p].host]
     IN Become(p, IF Valid(e) THEN Returned(e.ip, "none") ELSE [g[p] EXCEPT !.pc = "join"])
  /\ UNCHANGED <<cache, flight>>

(* close(flight.done) has happened, the entry is still in the map. *)
FlightDone(q) == At(q, "forget")

(* Under dnsFlightMu: follow the flight there is, or lead a new one. *)
MustFollow(h) == flight[h] # None

Join(p) ==
  LET h == g[p].host
      q == flight[h]
  IN /\ At(p, "join")
     /\ IF MustFollow(h)
          THEN /\ Become(p, IF FlightDone(q)
                              THEN [g[p] EXCEPT !.pc = "woken", !.ip = g[q].ip, !.err = g[q].err]
                              ELSE [g[p] EXCEPT !.pc = "wait", !.waitOn = q])
               /\ UNCHANGED flight
          ELSE /\ flight' = [flight EXCEPT ![h] = p]
               /\ Become(p, [g[p] EXCEPT !.pc = "connect", !.attempt = 1])
     /\ UNCHANGED cache

(* The select of a waiter, its context done and the flight not. *)
WaitCancelled(p) ==
  /\ At(p, "wait") /\ g[p].ctx
  /\ Become(p, Returned(None, "final"))
  /\ UNCHANGED <<cache, flight>>

(* The flight is done; with the context done too, select may take either. *)
Woken(p) ==
  /\ At(p, "woken")
  /\ \/ Become(p, Returned(g[p].ip, g[p].err))
     \/ g[p].ctx /\ Become(p, Returned(None, "final"))
  /\ UNCHANGED <<cache, flight>>

-----------------------------------------------------------------------------
(* dnsQuery, in the leader.                                                 *)

(* An attempt failed with err.  shouldRetryDoH: a transport failure, while  *)
(* the caller still waits, deserves the second attempt.                     *)
AfterFailure_Endless(r, err) ==
  IF err = "transport" /\ ~r.ctx
    THEN [r EXCEPT !.pc = "connect", !.seen = Unasked, !.terr = "none", !.err = err]
    ELSE [r EXCEPT !.pc = "wake", !.seen = Unasked, !.terr = "none", !.err = err]
AfterFailure(r, err) ==
  IF err = "transport" /\ ~r.ctx /\ r.attempt < 2
    THEN [r EXCEPT !.pc = "connect", !.attempt = @ + 1, !.seen = Unasked, !.terr = "none", !.err = err]
    ELSE [r EXCEPT !.pc = "wake", !.seen = Unasked, !.terr = "none", !.err = err]

(* dohConnection hands out a connection, or fails; its errors carry no mark. *)
Connect(p) ==
  /\ At(p, "connect")
  /\ \/ Become(p, [g[p] EXCEPT !.pc = "query"])
     \/ Become(p, AfterFailure(g[p], "final"))
  /\ UNCHANGED <<cache, flight>>

(* Which of two errors dnsQuery remembers: the first, unless the later one  *)
(* is a transport failure.                                                  *)
Remember_First(old, new) == IF old = "none" THEN new ELSE old
Remember(old, new) == IF old = "none" \/ new = "transport" THEN new ELSE old

(* An address that To4 accepts ends the wait for the other question. *)
EndsQuery_AnyAddress(ip) == TRUE
EndsQuery(ip) == ip = "v4"

(* An attempt succeeded: the answer is cached and lastErr cleared. *)
Deliver_KeepsError(p, ip) ==
  /\ \E raw \in RawTTLs : CacheResolution(g[p].host, ip, Clamp(raw))
  /\ Become(p, [g[p] EXCEPT !.pc = "wake", !.ip = ip, !.seen = Unasked, !.terr = "none"])
Deliver(p, ip) ==
  /\ \E raw \in RawTTLs : CacheResolution(g[p].host, ip, Clamp(raw))
  /\ Become(p, [g[p] EXCEPT !.pc = "wake", !.ip = ip, !.err = "none", !.seen = Unasked, !.terr = "none"])

(* A question returns an address.  An AAAA record may hold an IPv4-mapped   *)
(* one.                                                                     *)
Answer(p, q) ==
  /\ At(p, "query") /\ g[p].seen[q] = "no"
  /\ \E ip \in IF q = "A" THEN {"v4"} ELSE Families :
       IF EndsQuery(ip)
         THEN Deliver(p, ip)
         ELSE /\ Become(p, [g[p] EXCEPT !.seen[q] = ip])
              /\ UNCHANGED cache
  /\ UNCHANGED flight

(* A question fails: a status, a response code, no record of its type, its  *)
(* deadline; or the connection, noticed while the query's context is live.  *)
AnswerFails(p, q) ==
  /\ At(p, "query") /\ g[p].seen[q] = "no"
  /\ \E e \in {"final"} \cup (IF g[p].ctx THEN {} ELSE {"transport"}) :
       Become(p, [g[p] EXCEPT !.seen[q] = e, !.terr = Remember(@, e)])
  /\ UNCHANGED <<cache, flight>>

(* Both questions are in and neither had an IPv4 address: take the IPv6     *)
(* one, or judge the error.                                                 *)
Conclude(p) ==
  /\ At(p, "query") /\ \A q \in Questions : g[p].seen[q] # "no"
  /\ IF g[p].seen["AAAA"] = "v6"
       THEN Deliver(p, "v6")
       ELSE Become(p, [g[p] EXCEPT !.pc = "judge"]) /\ UNCHANGED cache
  /\ UNCHANGED flight

(* ctx.Err() is read after dnsQuery has returned its error, the one it      *)
(* remembers or else "no A or AAAA record".                                 *)
Judge(p) ==
  /\ At(p, "judge")
  /\ Become(p, AfterFailure(g[p], IF g[p].terr = "none" THEN "final" ELSE g[p].terr))
  /\ UNCHANGED <<cache, flight>>

(* close(flight.done): every waiter has the result. *)
Informed_OnSuccess(p, r) ==
  IF g[p].ip # None THEN [r EXCEPT !.pc = "woken", !.waitOn = None, !.ip = g[p].ip, !.err = g[p].err]
  ELSE r
Informed(p, r) ==
  [r EXCEPT !.pc = "woken", !.waitOn = None, !.ip = g[p].ip, !.err = g[p].err]

Wake(p) ==
  /\ At(p, "wake")
  /\ g' = [q \in Procs |->
             IF q = p THEN [g[p] EXCEPT !.pc = "forget"]
             ELSE IF At(q, "wait") /\ g[q].waitOn = p THEN Informed(p, g[q])
             ELSE g[q]]
  /\ UNCHANGED <<cache, flight>>

Forget(p) ==
  /\ At(p, "forget")
  /\ flight' = [flight EXCEPT ![g[p].host] = None]
  /\ Become(p, Returned(g[p].ip, g[p].err))
  /\ UNCHANGED cache

-----------------------------------------------------------------------------
Step(p) ==
  \/ CheckCache(p) \/ Join(p) \/ Woken(p) \/ Connect(p)
  \/ \E q \in Questions : Answer(p, q) \/ AnswerFails(p, q)
  \/ Conclude(p) \/ Judge(p) \/ Wake(p) \/ Forget(p)

Next == Tick \/ \E p \in Procs : Start(p) \/ CtxDone(p) \/ WaitCancelled(p) \/ Step(p)

Spec == Init /\ [][Next]_vars

(* Each question has its own 5 s and a connection its set-up budget, so a   *)
(* leader always moves on; nobody need call, and no context need end.       *)
FairSpec == Spec /\ \A p \in Procs : WF_vars(Step(p))

-----------------------------------------------------------------------------
(* Properties.                                                              *)

TypeOK ==
  /\ cache \in [Hosts -> Entry \cup {None}]
  /\ flight \in [Hosts -> Procs \cup {None}]
  /\ g \in [Procs -> Goroutine]

Leading(p) == g[p].pc \in {"connect", "query", "judge", "wake", "forget"}

(* "only one goroutine runs this for a given host at a time" (masque.go     *)
(* 805): resolveDNS keeps one leader per host, although the flight is       *)
(* closed before it leaves the map and every leader removes by host, not by *)
(* flight.                                                                  *)
OneLeader ==
  \A p, q \in Procs : p # q /\ Leading(p) /\ Leading(q) => g[p].host # g[q].host

(* Whoever waits, waits for a leader of the same host that has yet to close *)
(* its flight: nobody is parked on a flight that is over.                   *)
WaiterHasLeader ==
  \A p \in Procs : At(p, "wait") =>
    LET q == g[p].waitOn
    IN Leading(q) /\ ~FlightDone(q) /\ g[q].host = g[p].host

(* The part of p in the flight of host h. *)
DnsRole(p, h) ==
  IF g[p].host # h THEN "out"
  ELSE IF At(p, "forget") THEN "landed"
  ELSE IF Leading(p) THEN "lead"
  ELSE IF At(p, "wait") THEN "wait" ELSE "out"

Flight == INSTANCE SingleFlight
            WITH Keys <- Hosts, role <- [h \in Hosts |-> [p \in Procs |-> DnsRole(p, h)]]

(* resolveDNS implements a single flight per host: waiters are released     *)
(* before the flight leaves the map, and whoever finds it in the map after  *)
(* that takes its result instead of waiting (masque.go 751-812).            *)
DnsIsSingleFlight == Flight!Spec

(* However many names are looked up, cacheResolution never leaves more than *)
(* dnsCacheMaxEntries in the map, expired entries included.                 *)
CacheBounded == Cardinality(Cached(cache)) <= MaxEntries

(* The floor and the ceiling of the cache: an address is served for at      *)
(* least dohMinTTL if it is still there, and never when dohMaxTTL old,      *)
(* whatever TTL the answer carried.                                         *)
ServedInWindow ==
  \A h \in Cached(cache) :
    /\ Valid(cache[h]) => cache[h].age < MaxTTL
    /\ cache[h].age < MinTTL => Valid(cache[h])

(* No lookup returns (nil, nil) or an address with an error: a caller that  *)
(* tests only err never uses a nil address.                                 *)
AddressOrError ==
  \A p \in Procs : g[p].pc \in {"idle", "woken", "wake", "forget"} => (g[p].ip = None <=> g[p].err # "none")

(* An IPv6 address is used only if the A question has failed, never because *)
(* it was answered first.                                                   *)
PrefersV4 ==
  [][\A p \in Procs : At(p, "query") /\ g'[p].pc = "wake" /\ g'[p].ip = "v6" =>
       g[p].seen["A"] \in Errors]_vars

(* A connection that failed under either question earns the lookup its      *)
(* second attempt, in whichever order the two errors arrive.                *)
TransportRetried ==
  [][\A p \in Procs :
       /\ At(p, "judge") /\ g[p].attempt = 1 /\ ~g[p].ctx
       /\ \E q \in Questions : g[p].seen[q] = "transport"
       => g'[p].pc \in {"judge", "connect"}]_vars

(* Every lookup returns. *)
LookupsReturn == \A p \in Procs : ~At(p, "idle") ~> At(p, "idle")
=============================================================================
