# A TLA+ development of warp-go

warp-go is a SOCKS5 proxy that carries its clients' traffic to the WARP edge,
over HTTP/3 (one CONNECT stream per TCP connection) or over HTTP/2 (IP packets
in CONNECT-IP capsules, behind a userspace network stack).  This directory holds
TLA+ modules translated from the Go source, the configurations TLC checks them
with, and theorems checked by TLAPS.  Line numbers refer to `src/`.

## The system

| component | state | operations | hard parts | module |
|---|---|---|---|---|
| HTTP/3 connection manager (`tunnel/masque.go` 94-436, 1299-1311) | `cur`, `closed` under `connMu`; `addrIdx` under `reconnectMu`; QUIC bundles | `openRequestStream`, `reconnect`, `dial`, `Close` | many handlers find the connection dead at once; `Close` during a dial; half-built bundles | MasqueClient |
| Shared DoH connection (869-1125) | `doh`, `dohDial` under `dohMu` | `dohConnection`, `liveDoH`, `invalidateDoH`, `dialAnyDoH` | the dial runs without the lock and may itself reconnect, which invalidates; waiters of a failed leader | MasqueClient |
| DNS resolver (725-867, 1136-1297) | `dnsCache`, `dnsFlight` | `resolveDNS`, `cacheResolution`, `dnsQuery` | two answers in any order, retry, a flight closed before it leaves the map, a bounded cache | DnsResolver |
| HTTP/3 SOCKS5 handler (445-722) | `conn`, `reqStream`, their deadlines, two goroutines | `HandleSOCKS5`, `connectThroughEdge`, `release` | half-close, peers that vanish or stall, shutdown, leftover deadlines, streams that must be returned | TunnelRelay |
| HTTP/2 supervisor (`tunnel/h2.go`) | `current`, `connChanged`, `closed` under `connMu`; bundles; pumps | `maintain`, `outboundPump`, `inboundPump`, `keepalive`, `Close` | lost wake-ups, late errors of a replaced bundle, three goroutines that wait for one another | H2Client |
| HTTP/2 SOCKS5 handler (`tunnel/h2_socks.go`) | `conn`, `remote`, the watcher, two copies | `HandleSOCKS5`, `negotiateSOCKS5`, `readSOCKS5Request` | the first copy to end closes both connections | H2Socks |
| UDP associations (`tunnel/udp.go`, `tunnel/h2_udp.go`) | the client's pinned address, two or three sockets, four or five goroutines | `handleUDPAssociate`, `handleH2UDPAssociate` and their directions | idle timers per direction, the end of the control connection, a socket that cannot be opened | UdpAssociation |
| Registration (`registration/registration.go`, `main.go` 245-290) | the account at the API, the local file | `Register`, `Save`, `Load`, `Delete`, `DeleteRegistration` | a crash, a lost answer or a second process between two steps | Registration |
| Start-up, accept loop, shutdown (`main.go`) | chosen transport, listener, back-off, context | `main` | fallback from HTTP/3 to HTTP/2, transient accept errors, main and the signal goroutine shutting down side by side | Proxy |
| SOCKS5 parsing (`tunnel/masque.go` 1313-1377) | none | `parseSOCKS5Addr` | lengths at their boundaries | - |
| Command line, keys, TLS; container entry point | none | - | - | - |

How they interact.  `main` accepts connections and starts one handler goroutine
for each, on whichever back end it connected with.  An HTTP/3 handler calls the
resolver, which calls `dohConnection`, which opens a request stream of its own;
then the handler opens a request stream for the tunnel.  Both paths may end in
`reconnect`, which replaces the QUIC connection under every handler and drops the
DoH connection.  The HTTP/2 handlers use TCP and UDP sockets of the network
stack, and only the pumps see the connection to the edge.  A signal cancels the
context all handlers share and `main` returns, running the client's `Close`.

What makes each part correct is stated by the properties below; PROJECT.json
lists, line by line, the hazards they are for.

## The modules

### MasqueClient

The connection manager and the DoH connection together, because they call each
other.  `g[p]` is a handler goroutine: program counter and the locals of
`openRequestStream`, `reconnect` and `dohConnection`.  `cur`, `closed`, `addrIdx`,
`doh` and `dohDial` are the fields of `MasqueClient`.  `open` and `alive` say of a
bundle that nobody has called its `close`, and that its QUIC context is not done;
`dohOpen` and `dohUp` say the same of a DoH connection.  A critical section of
`connMu` or `dohMu` is one step; `reconnectMu` is held across a dial and is a
variable.  Whatever can happen between two critical sections can happen between
two steps: `Close` is three, a reconnect at least five, a DoH dial at least six.
Where a section makes an object unreachable and closes it right after
(`invalidateDoH`, `liveDoH`) the close is part of the step.

A `select` or a network call is one action per outcome.  `giveUp` in `NextAddr`
stands for the 35 s of `reconnect` having passed or an address family without a
route.  `straggler` records that `dnsQuery` has returned with the IPv4 answer
while its other question is still on the shared connection, where a late
transport error will retire it.

### DnsResolver

One lookup is a goroutine again.  The cache holds, per name, the family of the
address and how much of its life is left; `Tick` moves time.  The connection the
questions ride on is MasqueClient's business: here `dohConnection` succeeds or
fails, and each of the two questions ends in an address, a final error, or a
transport error.  The leader's two last steps are separate, as in the code:
`Wake` closes the flight, `Forget` takes it out of the map.

### SingleFlight

The abstract specification of what both `dnsFlight` and `dohDial` are for: per
key, one caller leads, others wait, and the end of the work releases all waiters
in one step.  A flight may stay in its table for a while after it has landed
(`resolveDNS` closes the channel before it deletes the entry); nobody waits for
such a flight and nobody else leads meanwhile.  DnsResolver implements it with
the names as keys (`DnsIsSingleFlight`), MasqueClient with one key
(`DohIsSingleFlight`).  The abstract variable `role` is computed from the
goroutines' program counters, so the refinement says something about each step
of the code, including those of `reconnect` inside a DoH dial and of callers
whose context ends.

### ConnHolder

The abstract specification of "the client has a connection to the edge", which
both back ends implement in different ways (`HoldsOneConnection` in MasqueClient
and in H2Client).  One connection at most is handed out (`current`); one that is
open and not handed out is in somebody's `hands`, who publishes or closes it; only
a connection in hand is closed, and each once; an open client dials only when
nothing but the connection handed out is open; nothing is published after `Shut`.
In MasqueClient the hands are the `hold` of whoever has `reconnectMu` and what
`Close` has taken; the old connection is handed out until its successor is
installed.  In H2Client they are `maintain`'s bundle before `setCurrent` and after
`clearCurrent`, and what `Close` has taken; the old bundle is withdrawn and closed
before the next is dialled.

### RelayDirection

The abstract specification of one direction of a tunnel.  A copy that ends has
delivered everything the source sent before it finished, or it has an excuse: a
peer, the edge or the process has failed, or the other direction is over and this
one has had its time (`late`) or is dragged along (`Coupled`).  Nothing is
delivered afterwards, and nothing that was not sent.  TunnelRelay implements it
twice (`TruncatesNothing`): for the response with `Coupled` FALSE, since the end of
the request leaves it its drain time; for the request with `Coupled` TRUE, since
the end of the response ends it.  H2Socks implements it twice with `Coupled` TRUE
(`TruncatesOneWay`): the first copy to end is complete or excused by a failure,
the other may be cut.

### TunnelRelay

One SOCKS5 connection of the HTTP/3 back end, with the client and the edge as
actors that may send, half close, vanish, reset, refuse more data or stall, at any
time.  Handler, copier and monitor are three program counters.  Payload is counted
in chunks; a copy is a read and a write, because what unblocks the one does not
unblock the other (closing `conn` ends a read of it, and does nothing for a write
to the stream).  A UDP association is one label here; UdpAssociation has its
inside.

### H2Client

`maintain`, `outboundPump`, and per bundle `inboundPump` and `keepalive`, with
`Close`.  `changed` says that the `connChanged` channel which `waitCurrent` holds
has been closed.  Bundle identities are reused once nothing refers to them, so the
supervisor runs for ever with two of them.  A read, a write or a PING may fail on a
working link as on a broken one: the edge resets the stream, the stack refuses a
packet that is neither IPv4 nor IPv6, `WritePacketBuffer` refuses to send one.
`erred` is a history variable, the bundles one of whose own operations has returned
an error since they were dialled; it is what `HealthyIsKept` compares the retired
bundle with.  The network stack is external code.
Its `Read` hands out a packet at any time.  Its `Write` takes one, and when
`SyncReply` is TRUE it may produce an answer inside the call, which then lasts
until `outboundPump` reads the answer.

### UdpAssociation

One association, in both back ends: `Remotes` is one socket for `udp.go` and one
per address family of the tunnel for `h2_udp.go`.  Sockets are opened one by one
and may fail to; then the handler, the client-to-remote goroutine, one
remote-to-client goroutine per socket, the watcher and the reader of the control
connection run side by side and end one another by `Shutdown` (`stopOnce`).  Each
socket has its read deadline in ticks (`left`); `quiet` is what a reader of the
comment at `udp.go` 27 would measure instead, the time since any datagram
arrived.  A source address is a host and a port, so that the comparison of
`setPeer` can be wrong in one of them.

### H2Socks

`HandleSOCKS5` of the HTTP/2 back end: negotiation, request, dial, success reply,
then either a TCP tunnel with its two copies or a UDP association.  It extends
UdpAssociation: `pc`, `connOpen`, `ctxDone` and `hungUp` are one and the same
variable in both, because the association runs inside the handler, on its
connection and under its context.  `HostsAssociation` states that the composition
is sound: the handler with everything around the association hidden implements
`UdpAssociation!Spec`, so what is proved of an association holds of a hosted one.

### Registration

The accounts at the API, `reg.json`, and processes that run `-reg`, `-del` or the
proxy, one after the other or side by side.  A kill can come between any two
steps, an answer of the API can be lost after the API has done its part, a write
can fail half way (`os.WriteFile` truncates first, which is a step of its own), and
two writers can mix.  `faults` records what has gone wrong so far, for the
properties that say what takes a fault to happen.  The file has four states:
absent, torn, odd (id and token are there, the keys do not decode), good.

### Proxy

`main` from the loaded registration to its return, with the goroutine that waits
for the signal, the self-test, and connections in the listen backlog.  Deferred
calls run in Go's order, each a step.  A handler is started and ends; TunnelRelay
and H2Socks say what happens in between.

### MC modules

`MCMasqueLiveness` is the instance of MasqueClient for CallsReturn, where symmetry
sets cannot be used: it numbers bundles and DoH connections in the order in which
they are dialled (`InOrder`), lets one of the goroutines only look names up, and
cuts the combinations `Bounds` names.  A step of a goroutine that is cut always has
another outcome that is not, so fairness removes no behaviour of the instance.
`MCMasqueClient`, `MCH2Client` and `MCDnsResolver` add symmetry sets, the others
nothing; constants are given in the configurations.  Symmetry is used with safety
properties only, never with liveness; the one refinement checked under it,
`HoldsOneConnection`, is an initial predicate and an action property that treat
all identities alike.

## The runs

| run | configuration | bounds | checks |
|---|---|---|---|
| masque_reconnect | MCMasqueReconnect | 2 handlers, 3 bundles, 2 addresses, no DoH connection | TypeOK, HoldsOneConnection, NoHealthyReplaced |
| masque_doh | MCMasqueDoh | 2 handlers, 2 bundles, 2 DoH connections, 2 servers | RetryIsFresh, SharedDohOpen |
| masque_liveness | MCMasqueLiveness | 2 handlers, one of which only looks names up, 2 bundles, 2 DoH connections | CallsReturn, DohIsSingleFlight |
| h2_supervisor | MCH2Client | 2 bundles, 2 addresses, SyncReply | HoldsOneConnection, OnePumpSet, NoLostWakeup, QuietAfterClose, HealthyIsKept, RedialsUnlessParked, CloseReturns |
| tunnel | MCTunnelRelay | 2 chunks each way, authentication and UDP allowed | StreamReturned, NoLeftoverDeadline, TruncatesNothing, HandlerReturns |
| dns | MCDns | 2 lookups, 2 names, cap and threshold 1, TTLs 0 and 2 clamped to 1 | CacheBounded, ServedInWindow, AddressOrError, PrefersV4, TransportRetried, DnsIsSingleFlight, LookupsReturn |
| h2_socks | MCH2Socks | 2 remote sockets, 1 host with 2 ports, 2 idle ticks, 2 chunks each way | HandlerEndsClean, ServesOnePeer, TruncatesOneWay, StopHasCause, HostsAssociation, IdleEnds, HandlerEnds |
| registration | MCRegistration | 2 processes, 3 accounts | SavedIsEnrolled, StrandedByFaultOnly, RegNeverReplaces, DelWorks |
| proxy | MCProxy | 1 client, every transport, back-off 5 to 30 ms, 3 self-test attempts | ServesUntilSignal, OrderlyShutdown, PendingServed, SignalEnds |

Why the bounds are enough.  In masque_reconnect three bundles allow the first
connection, its replacement, and a replacement of that one by the handler that was
queued on `reconnectMu`: the race `AlreadyReconnected` is there for.  Two
addresses make `addrIdx` wrap.  In masque_doh two DoH connections allow a failed
one and its successor, two servers a second attempt of `dialAnyDoH`.  A bundle or
DoH identity that is used up makes later dials fail, which the code must survive
anyway.  In masque_liveness the second bundle lets the leader of a DoH dial
reconnect, install and run `invalidateDoH` while the other lookup waits for its
flight, or a tunnel queues on `reconnectMu` behind it and reopens its stream; the
second DoH connection lets a lookup retry on a fresh one.  A waiter that finds the
flight's connection gone goes round the loop of `dohConnection` again: in the code
its context ends that, in the instance the number of DoH connections.  What
`Bounds` leaves out are two tunnels at once, two contexts that are both done, a
`Close` after more than one of reconnect and DoH dial, and the question `dnsQuery`
leaves behind, whose only effect, that the shared connection is retired,
`DohBreaks` has too.  In h2_supervisor two bundles are the one `outboundPump`
still holds and its successor; a third would be in use only when `Close`, between
`closed` and `cancel`, holds one while `outboundPump` still writes to an older one
and a redial succeeds, and the safety properties are proved for any number.  Two
lookups give one leader and one waiter, and a lookup that arrives between `Wake`
and `Forget`; two names against a cap of one overflow the cache, both with a live
and with an expired entry in it; the raw TTLs lie on either side of the clamp.
Two chunks let one be relayed and one be in flight.  Two ports of one host are
what tells a comparison of addresses from one of hosts; two ticks let one socket's
deadline run out while the other is renewed; two remote sockets make the second
`ListenUDP` fail with the first one open.  Three accounts are the one an earlier
run left, and one for each of two overlapping `-reg`.  From 5 ms the back-off
doubles to 10 and 20 and then meets its cap.  Counters of the model that the code
does not have (chunks, ticks, accounts, attempts at an identity) are bounded by
these constants and, in masque_liveness, by `Bounds`.

Three runs expect a violation: each states a sentence of the repository's
comments or documentation that the code does not keep.

| run | what the trace shows |
|---|---|
| masque_doh_orphan (NoDohOrphan) | `dohConnection` tests `c.doh` and joins the dial flight in two critical sections; a caller between them dials a second connection and overwrites the first, which is never closed |
| h2_redials (Redials) | with a network stack that answers inside `Write`: `maintain` waits for `inboundPump`, it for `outboundPump`, and that one for the bundle `maintain` would dial |
| udp_idle (TimesOutOnlyWhenIdle) | the idle limit is a read deadline per socket; a direction or an address family without traffic ends an association that is in use |

h2_redials depends on an assumption about code outside the repository, that the
stack's `Write` does not return before a reply it triggers has been taken.
`RedialsUnlessParked` of h2_supervisor shows that this is the only way a redial is
missed.

That both DohIsSingleFlight holds and NoDohOrphan fails is no contradiction: one
flight flies at a time, but a second may start after the first has landed,
although its result is installed.

Further places where the code does something a reader might not expect, which the
models have as steps and no run isolates:

* the last step of `reconnect` drops whichever DoH connection is installed, also
  one dialled on the new bundle (`RcInval`; the comment at `masque.go` 429 says it
  "is dead too");
* `reconnect` dials under a 35 s context of its own, so that a caller that has
  gone still tries port after port (`NextAddr`; the comment at 242 says it gives
  up);
* `Close` drops the DoH connection before it sets `closed`, so that a dial that
  finishes in between leaves its connection in the closed client (1301);
* STOP_SENDING from the edge makes the HTTP/3 handler cut the response off as if
  the client had broken (657-661);
* a shutdown does not interrupt an unanswered CONNECT exchange or a drain, which
  end at their deadline and timer (606, 667);
* the HTTP/2 tunnel has no half-close: a client that has finished sending loses
  the rest of its response (`h2_socks.go` 92; hence `Coupled` in
  `TruncatesOneWay`);
* one packet that `WritePacketBuffer` or the network stack refuses costs the whole
  HTTP/2 connection, which then takes at least a second to come back (`h2.go` 390,
  472; `OutSendFails`, `InWriteFails`);
* a malformed first datagram already pins the client's address (`udp.go` 163);
* a torn `reg.json` is refused by `-reg`, by `-del` and at start: only removing
  it by hand helps (`main.go` 260, `registration.go` 500-512);
* handlers are not waited for when `main` returns.

## Fairness

Nothing is assumed of a peer, the network or a caller: connections need not die,
dials need not succeed, packets need not arrive, contexts need not end.

* MasqueClient: weak fairness of each running goroutine, since every blocking
  call it makes has a timeout (8 s and 10 s per address, 10 s per stream open,
  5 s per query, 20 s for the set-up) and ends one way or the other; strong
  fairness for taking `reconnectMu`, because a Go mutex in starvation mode is
  handed to the waiter; weak fairness of the steps of a `Close` that has begun.
* DnsResolver: weak fairness of each goroutine's own steps, for the same reason.
* TunnelRelay: handshake, set-up and exchange run under deadlines, which pass;
  the drain timer fires; a copy notices the end of what it is parked on.  A write
  to the stream that the edge never takes may hang for ever.  `HandlerReturns`
  names that exception (`EdgeStalls`): the code has no timer there.
* H2Client: Go schedules runnable goroutines; the ticker, the reconnect delay and
  the PING timeout fire.  A packet sent on a working link is taken or refused.
  A read or write on a link that has gone silent ends only when the bundle is
  closed or the client's context is done.  Strong fairness of
  the hand-over between `Write` and `Read` is Go's FIFO order of channel senders.
* UdpAssociation and H2Socks: time passes; a goroutine whose read or write can
  return does; opening a socket, replying, dialling and looking a name up end
  within their limits.  That a datagram arrives, that a peer reads, or that anyone
  hangs up is not assumed: `HandlerEnds` says what must have happened first.
* Registration: each API call has a 30 s timeout, so a command that is not killed
  ends.  Nobody need run one.
* Proxy: start-up steps end within their limits, timers fire, the goroutines run,
  and `Accept` on a closed listener returns.  Strong fairness of `Accept` says
  that its errors are transient: with a connection waiting, not every call fails.
  The back-off must still not keep `main` away from it (`PendingServed`).

## The proofs

Eight modules hold theorems, for every value of the constants that satisfies the
named assumptions: counts are positive, nil is not an object, the cache threshold
is not above the cap, the TTL floor is positive and not above the ceiling, the
set of names is finite, the first back-off is not above the largest.  All have the
same shape: `Init` establishes an invariant, each action preserves it (one lemma
or step per action), it implies the property; action properties and refinements
follow from one more lemma per action, under the invariant.

**MasqueClientProofs**: `TypeCorrect`, `NoBundleLeaks` (BundleOwned),
`CloseIsFinal` (ClosedStaysClosed), `ReplacesOnlyStale` (NoHealthyReplaced),
`RetriesAreFresh` (RetryIsFresh), `SharedIsOpen` (SharedDohOpen),
`NoCircularWait` (WaitsEnd) and the refinements `DialsAreSingle`
(DohIsSingleFlight) and `HoldsOne` (HoldsOneConnection).
BundleOwned is not inductive: that a bundle is "in the hands of the one reconnect"
needs to know that whoever is inside `reconnect` holds the mutex (`MutexInv`),
what its `hold` is at each label, that it differs from the current bundle and from
the one `Close` has taken (`HoldInv`), and, for the replacement property, that
between the check and the install nobody else can have installed a connection, so
the current one is still dead or still the caller's stale one (`ReplaceInv`).
Their conjunction is `ReconnectInv`.  For the DoH connection `DohInv` adds that
the table names the one goroutine that dials (`LeadInv`), that a waiter waits for
it (`WaitInv`), which goroutines look names up at all (`OpInv`), that a second
attempt carries another connection than the failed one, which is no longer shared
(`CarryInv`), that the shared connection is open (`SharedInv`), and that a
connection just dialled is known to nobody but its dialler (`FreshInv`), which is
what makes `invalidateDoH` by identity enough.  The refinement of ConnHolder needs
`GraspInv`: what `reconnect` and `Close` have taken is still open, differs from the
connection handed out and from one another, and an open client always hands one
out.  A step of `reconnect` then does one of five things to the bundles
(`ReconnectEffect`: none, readies, dials, drops, swaps), each a step of ConnHolder
or none.  `WaitsEnd` is the deadlock argument for any number of handlers: a lookup
waits for the leader of the dial, the leader perhaps for the one that reconnects,
and that one waits for no goroutine.

**DnsResolverProofs**: `TypeCorrect`, `CacheNeverOverflows` (CacheBounded),
`ServedWithinTTL` (ServedInWindow), `OneLeaderPerHost` (OneLeader),
`WaitersAreServed` (WaiterHasLeader), `NeverNilNil` (AddressOrError),
`V4IsPreferred` (PrefersV4), `TransportIsRetried` (TransportRetried) and the
refinement `FlightsAreSingle` (DnsIsSingleFlight).  The cache
step is a lemma of its own (`CacheStep`) on cardinalities: below the threshold one
more entry stays within the cap because the threshold is not above it; above, the
sweep or the clear makes room.  `LifeInv` ties an entry's age and what is left of
its life to one TTL inside the clamp.  `FlightInv` says that the flight table and
the goroutines that lead agree in both directions, which is what makes removal by
host safe.  `AnswerInv` says what a query remembers of the answers it has seen, in
whichever order they came.

**TunnelRelayProofs**: `TypeCorrect`, `StreamsAreReturned` (StreamReturned),
`DeadlinesAreCleared` (NoLeftoverDeadline), `ResponseDrains` (HalfCloseDrains: the
receive side is given up only for a reason the code knows) and the refinement
`NothingTruncated` (TruncatesNothing).  `OwnInv` gives, for each label of the
handler, which of stream, copier and deadlines exist.  `CauseInv` says why a
goroutine may find the stream or `conn` closed under it: while the response is
copied, only a failure or the end of the grace period closes either.  That is what
turns the error a read or write returns into an excuse of RelayDirection.

**H2ClientProofs**: `TypeCorrect`, `CurrentIsAlwaysOpen` (CurrentIsOpen),
`OnePumpSetRuns` (OnePumpSet), `NoWakeupLost` (NoLostWakeup),
`NothingLeftAfterClose` (QuietAfterClose), `HealthyKept` (HealthyIsKept),
`NobodyAwaitsTheGone` (AwaitsMaintain, JoinsClosed) and the refinement `HoldsOne`
(HoldsOneConnection).
`CloseInv` says how far `Close` has got and what that implies for the fields;
`BundleInv` that only `maintain`'s bundle can be open, and that it is not the one
`Close` has taken when `maintain` is about to publish it; `FailInv` that the error
in a bundle's channel is that of one of the bundle's own operations and that
`maintain`, on its way to clear one, has read the error of that very bundle or
found the client closing.  `OwnerInv` adds
who owns a bundle while its pumps may run: it is handed out, or `Close` has taken
it and nothing else is open.  `NobodyAwaitsTheGone` gives two of the three edges of
the wait graph their reason: `outboundPump` sleeps in `waitCurrent` only while
`maintain` is on its way to publish, and `maintain` joins only pumps of a bundle it
has closed.  The third edge, `inboundPump` inside the stack's `Write` waiting for
`outboundPump`, closes the circle that h2_redials shows, so there is no theorem
that excludes it.

**UdpAssociationProofs**: `TypeCorrect`, `AssociationEndsClean` (EndsClean),
`OnePeerServed` (ServesOnePeer), `StopsForACause` (StopHasCause),
`NobodyStaysBehind` (EndsTogether: once one goroutine has ended, every socket is
closed and `stop` is set, and after the return `conn` is closed too, so that each
goroutine still running finds what it waits for).  `SetupInv` says
that nothing runs before the reply and that every socket is open by then, `StopInv`
that sockets go and goroutines end only with `stop`, `ConnInv` that the control
connection is closed under an association for the context only.

**H2SocksProofs**: `HandlerTypeCorrect`, `HandlerIsClean` (HandlerEndsClean),
`HandlerServesOnePeer` (ServesOnePeer), `FirstCloserLosesNothing`
(FirstCloserIsLossless: the peer that closes first has had its bytes delivered)
and the refinements `HandlerHostsAssociation` (HostsAssociation) and
`OneWayTruncated` (TruncatesOneWay).  The invariant is the association's own (cited, not repeated)
while the handler is in it, and "no association has started" elsewhere (`AwayInv`);
`TunnelInv` says at which labels the connection to the target is open and copies
run, `CopyInv` why a copy has ended before the handler closed anything, and
`JoinCause` that the handler closes both connections only after one has.

**RegistrationProofs**: `TypeCorrect`, `OnlyEnrolledIsSaved` (SavedIsEnrolled),
`OnlyFaultsStrand` (StrandedByFaultOnly), `RegLeavesAlone` (RegNeverReplaces),
`FileAndApiInStep` (InStep: without a fault there is at most one account, and
between commands it is the one `reg.json` names).
`IdInv` says what account a command has at each label, `EnrolInv` that it is
enrolled from the second call on, `SerialInv` that without an overlap there
is one command at a time and what it has read of `reg.json` still holds, and
`StrandInv` that without any fault every live account is reachable and a file is
removed only when its account is gone.  `SettledInv` is the converse: an account
that the file or a registering command names exists, and a torn file is being
written.

**ProxyProofs**: `TypeCorrect`, `OnlySignalsStop` (ServesUntilSignal),
`ShutdownIsOrderly` (OrderlyShutdown), `ServesTheTransportAsked` (ServesAsAsked:
no fallback from an explicit transport, h2 under auto only after h3 failed, and a
back end that stays open until the last deferred call).  `StopInv` says that context, listener and
closer have moved only after a signal, `StartInv` what exists at each label of
start-up.

Only model-checked: the liveness properties (CallsReturn, LookupsReturn,
HandlerReturns, RedialsUnlessParked, CloseReturns, IdleEnds, HandlerEnds, DelWorks,
PendingServed, SignalEnds), since fairness and ENABLED are out of this prover's
reach, and the three sentences the code does not keep.  Nothing here is about what
a recursive definition computes: there is none.

## Not modelled

* SOCKS5 parsing and framing: pure functions on bytes without state.  The models
  have their outcomes, a request accepted or refused, a datagram passed on or
  dropped.
* The wire formats of DNS and HTTP, TLS and certificates, keys, flags and candidate
  addresses, logging, sizes of buffers: straight-line code or I/O without state of
  their own.
* The container entry point, a shell wrapper that copies `reg.json` and starts the
  binary.
* quic-go, x/net/http2, connect-ip-go and the network stack are external and appear
  only through what the code observes of them.

## Plan

1. Done: MasqueClient, DnsResolver, TunnelRelay, H2Client, UdpAssociation, H2Socks,
   Registration, Proxy, and the abstract SingleFlight, ConnHolder and
   RelayDirection; every safety property of a passing run proved, seven refinements
   among them.
2. Left: `Socks5Parse`, the address parsers as operators on short sequences,
   against a reference; a property on whose context an error belongs to that a
   waiter of `dohConnection` or `resolveDNS` receives.
