# A TLA+ model of era-ocserv

era-ocserv is an AnyConnect/OpenConnect VPN gateway in Go.  A client
authenticates over HTTP, upgrades a CONNECT request to a CSTP tunnel and
usually opens a second, DTLS leg; both legs carry IP packets of one device,
whose inner addresses are a native /128 and a CLAT /128 (for IPv4 inside
IPv6).  This directory models the parts of the program in which several
goroutines change shared state, checks them with TLC, and proves what matters
most with TLAPS.

## Inventory

| part | state it keeps | operations | hard about it |
|---|---|---|---|
| `cmd/era-ocserv/bridge.go` | registry `clients` (/128 -> activeClient), per client the `cstp` and `dtls` slots and the translator | pumpTunnel, OnAdmit, OnEvict, pumpTunQueue, installCLAT, deregisterKeys | four kinds of goroutines; a lock per client and a sync.Map, never in one region |
| `internal/dtlsuds` | table of DTLS sessions by 4-tuple, `lastSeen`, the reply closure | handle, forwardPacket, Remove, eviction walker, Stop, heartbeat | callbacks under `table.mu`; eviction races admission and packets |
| `internal/cstp` server | cookie table (`byOpaque`, `byToken`), channel of accepted tunnels | handleInit, handleAuth, handleConnect, Accept, Close | concurrent posts of one client; expiry; close of a channel others send on |
| `internal/cstp` tunnel | `dataCh`, `writeMu`, `closeCh`, last in/outbound times | readLoop, heartbeatLoop, WritePacket, ReadPacket, Close | three goroutines per tunnel; a write may block while it holds `writeMu` |
| `internal/iam` resolver | cache with a soft and a hard lifetime, single flight | Resolve, fetch | stale answers, a leader whose context ends |
| `internal/proxyproto` UDP listener | LRU of flows and its reverse map | ReadFrom, WriteTo, eviction | two maps and a list that must agree |
| `internal/udshandoff`, `internal/udsserve` | in-flight connections, queue of accepted conns | accept loop, handle, Close | shutdown races |
| `internal/udshandoff/protocol.go`, `proxyproto/tlv.go` | none | validation matrix, TLV codec | case analysis |
| `internal/clat*`, `icmp6`, `auth`, `tun`, `main` | little | translation, parsing, flags | byte-level work |

Interaction: `handleConnect` writes its response, then publishes a tunnel;
`bridge.run` accepts it and starts `pumpTunnel`.  The dtlsuds listener calls
`OnAdmit` and `OnEvict` (the latter with its table lock held) and writes
client packets through `tunSink`, which looks the translator up in the
bridge's registry.  Each tun queue has a goroutine that looks up the
destination /128 and writes to the preferred transport.

## Modules

* `Bridge.tla` models bridge.go and the part of dtlsuds that drives it.  One
  step is one region under `activeClient.mu` or one sync.Map operation;
  everything the code does in between is a value of the goroutine's `pc`, so
  all interleavings the locks allow are explored.

  | variable | code |
  |---|---|
  | `clients` | `bridge.clients` |
  | `cstp`, `dtls`, `clatV6` | fields of `activeClient` (`xlat` is non-nil exactly when `clatV6` is set) |
  | `ac`, `prev`, `xlat`, `sess` | local variables of pumpTunnel, OnAdmit and OnEvict |
  | `closed` | tunnels whose `Close` has run |
  | `table`, `made` | `dtlsuds.Table`; sessions created so far |
  | `tun` | locals of pumpTunQueue |
  | `cancelled` | the process context |

  An activeClient is named by the transport whose `loadOrCreateClient` stored
  it.  A packet is its destination and its length.  `HandlerStalls` says
  whether the dtlsuds handler may be descheduled for a whole IdleTimeout
  (300 s) between stamping a session and finishing with it.
* `CstpServer.tla` models a client's way to a tunnel: handleInit, the two
  rounds of handleAuth, promote, handleConnect, the channel of tunnels, Accept
  in bridge.run, Close.  One step is one region under `sessionTable.mu` or one
  unlocked read of a row, so a row may be reaped, promoted again or touched
  between any two steps of a request.

  | variable | code |
  |---|---|
  | `byOpaque`, `byToken` | the two indexes of `sessionTable` |
  | `token`, `username`, `deviceID`, `expiresAt` | fields of `session` |
  | `pc`, `sess`, `user`, `dev`, `cookie`, `mine` | locals of a request goroutine |
  | `queue`, `srvClosed` | `Server.tunnels`, `Server.closed` |
  | `runs`, `accepted` | the loop of `bridge.run`; tunnels it started to pump |
  | `tun`, `row` | the life of a tunnel; the row, cookie and device it was made from |
  | `verified` | history: what Verify answered, and on which row |

  A row is named by its opaque id.  Ids and cookies come from crypto/rand, so
  minting picks a name that was never used.
* `Tunnel.tla` models one Tunnel: readLoop, heartbeatLoop, any number of
  WritePacket callers, the pump in ReadPacket and a displacing Close.
  closeWithErr is three steps inside `closeOnce`; a write is three (lock, the
  look at `closeCh`, flush).

  | variable | code |
  |---|---|
  | `mu` | `writeMu` |
  | `stage`, `closer`, `cause` | progress inside `closeOnce`; `closeErr` |
  | `inbox`, `dataCh`, `chClosed` | frames in the `bufio.Reader`; the channel |
  | `got` | the error ReadPacket returned |
  | `stalled` | the peer has stopped reading, so `conn.Write` blocks |
  | `inAge`, `outAge`, `refAge` | now minus `lastInbound`, `lastOutbound`, `lastRefreshUnix` |
  | `phase`, `tick` | the ticker and its one-slot channel |
  | `refreshing`, `upAge`, `upFailed` | the Upsert goroutine |

  Time is counted in units; an age stops growing one above the largest value a
  property compares it with, and the clock stops with the open tunnel.  A frame
  is its type.  Payload limits are left out: neither the echo of a frame that
  was read nor a packet of the tun can exceed a frame, and the pump's buffer
  holds the longest one.
* `DeviceLookup.tla` is what `iam.Resolver` promises its callers: an error, or
  what TPM said of the device at a moment that is neither longer ago than
  `Bound` nor before an answer somebody already had when the call was made.
  `Resolver.tla` is tpm_resolver.go, which implements it: the cache with its
  soft and hard lifetime, the single flight, fetch and its outcomes.

  | variable | code |
  |---|---|
  | `enabled`, `cache` | `cacheEnabled`, `TPMResolver.cache` |
  | `flight` | `singleflight.Group`: the caller that runs the function |
  | `pc`, `dev`, `due`, `reply`, `res` | a call of Resolve; when its request times out; what TPM read for it; the leader's result |
  | `now`, `tpm`, `log` | time; what TPM says of a device, and every time at which it said so |
  | `seen`, `floor`, `got`, `okAt` | history: versions told, version a caller must not fall behind, its outcome, the last usable answer |

  Operators of TPM change a document at any time, TPM reads its state
  somewhere within a request, and a request fails at any point (outage, 5xx,
  the leader's cancelled context).
* `UdpFlows.tla` is proxyproto's UDPListener: ReadFrom in two regions under
  `mu` (lookup, remember) with the lock free in between, WriteTo, and
  evictIdle.

  | variable | code |
  |---|---|
  | `flows`, `reverse` | the two maps |
  | `lru` | the `container/list`, as the set of pairs with the nearer to the front first |
  | `ent` | the `flowEntry` of a list element |
  | `pc`, `job` | a reader between lookup and remember, and what it parsed |
  | `heard`, `newest` | history: what each kernel source has announced, in datagrams the code does not read too; which of them came to be reported under an address last |

* `Wire.tla` holds the pure parts of the hand-off: TLV rules and decoder
  (tlv.go), PROXY-v2 header reader and encoder (reader.go), the M/O/F matrix
  and Validate (protocol.go), the SOCK_DGRAM frame (datagram.go) with the reply
  built from it, and the device id in a subject DN (subjectdn.go).  Lengths are
  byte counts with their widths; the bytes of a value are a form, the class of
  strings that the validators tell apart.
* `UdsServe.tla` (extends `Wire`) is the stream hand-off of `-mode uds`: accept
  loop and handlers of udshandoff, the connQueue of udsserve, what http.Server
  does with a connection (external), hijack to a tunnel, the context watcher
  and the shutdown goroutine of runUDS.  `push` is two steps, the test of
  `closed` and the send.  A tunnel ends when its client or its idle timeout
  ends it, one that was hijacked too late to be published ("orphan") too.
* `DtlsListener.tla` (extends `Wire`) is internal/dtlsuds on the SOCK_DGRAM
  framework: the receive goroutine with the handler inline, the heartbeat
  over a snapshot of the table, the eviction walker, the context watcher and
  the caller of Close.  A datagram is decoded by `Wire` and a reply is built by
  it.  What the callbacks do is `Bridge`.  An eviction pass is one step to take
  `table.mu`, one to load each session's `lastSeen`, one to delete it, and one
  to unlock: table operations wait meanwhile (`TableFree`), a touch and a reply
  do not.  `stalled` says that the facade does not read its socket, so that a
  write to it blocks until it does or the socket is closed.
* `Siit.tla` is the CLAT data path of a session: ClientToTun and TunToClient
  (clatxlat), SIIT46, SIIT64 and NAT66 (clat), the Packet Too Big (icmp6) and
  originatePTB (ptb.go).  A packet is the header fields the translators read
  or write; ICMP errors hold the quoted packet; the bytes behind are one
  checksum word.  Checksums are one's complement sums over words up to `Ones`,
  so that an incremental update is computed and never assumed.  What lies
  behind the tun is external: a host answers, a router reports a link too
  narrow (`RouterTooBig`) or refuses a packet for another reason
  (`RouterRejects`), quoting as much as RFC 4443 asks for or only the header
  and eight bytes.  The client may also send native IPv6, from its CLAT /128
  too; the properties say which promises such a packet does not get.  A slice
  may hold bytes behind the declared packet (`pad`).  Where the code indexes
  out of range the process ends (`at = "aborted"`) and is started again
  (`Restart`).
* `MCBridge`, `MCCstpServer`, `MCTunnel`, `MCResolver`, `MCUdpFlows`,
  `MCUdsServe`, `MCDtlsListener` and `MCSiit` give the constants values for
  TLC.
* `BridgeProofs`, `CstpServerProofs`, `TunnelProofs`, `ResolverProofs`,
  `UdpFlowsProofs`, `UdsServeProofs`, `DtlsListenerProofs` (with the lemmas
  about `Wire`) and `SiitProofs` hold the theorems.

Definitions marked "Mutant" are altered copies of one action or operator; they
document which plausible mistake each property excludes and take no part in
any specification.

Bridge and CstpServer meet in the CONNECT: `Bridge!Connect` is
`CstpServer!Publish` followed by `Accept`, and `Bridge!TunnelCloses` abstracts
all of `Tunnel` to the moment its `closeCh` is closed.  `DtlsListener` calls
OnAdmit and OnEvict, whose bodies are steps of `Bridge`; Bridge keeps of the
listener only the table and the order of callbacks.
A connection of `UdsServe` that is hijacked becomes a CONNECT of `CstpServer`.

## Runs

| run | instance | shows |
|---|---|---|
| `registry` | two CONNECTs and one DTLS leg of one device | slots, native key, displaced tunnels and the translator snapshot are right at every interleaving, shutdown included; closed tunnels end and callbacks return; in the behaviours in which no teardown of the device overlaps an attachment to it, the three routing promises of the comments hold |
| `egress` | two devices, one tun queue, packets of 1400, 1420 and 1421 bytes | packets do not cross devices and are translated exactly when due |
| `routable` | two CONNECTs | the first routing promise fails when a teardown overlaps an attachment |
| `auth` | two requests, one row, two cookies, two tunnels, right and wrong passwords, expiry, shutdown | a tunnel carries only a device verified on its row; a row with a cookie has a device; a tunnel has one holder at a time on its way to the bridge and none drops it before Close; no CONNECT is stuck at the channel |
| `tunnel_close` | one writer, dataCh of one packet, a peer that may stop reading | `writeMu` is held by who writes; ReadPacket reports the stored cause; one close ends every goroutine |
| `tunnel_time` | the same with idle timeout 3, refresh 3, Upsert timeout 1, heartbeat 2 | outbound, inbound and binding ages stay within their bounds while the peer reads |
| `resolver` | two callers, one device, four documents, TTL 1, request timeout 1 | Resolve implements DeviceLookup; one request per device at a time; an outage is absorbed for twice the TTL; every call returns |
| `flows` | three kernel sources, two announced ones, two readers, a limit of two flows, six datagrams | the maps and the list agree, a datagram is attributed to something its own source announced, a reply goes to the flow that came to be reported under its destination last, and the limit evicts the least recently used |
| `uds` | two connections, a queue of one, six streams | no connection is closed under its consumer or left behind; the first Close waits for what it says it waits for, and returns once requests and tunnels end |
| `uds_close` | the same | a tunnel whose client keeps it open holds Close, although a comment says that it is ended first |
| `dtls` | two sessions on two 4-tuples, 21 datagrams, idle timeout 1, a facade that may stop reading | a reply decodes to the envelope that admitted its session; a sweep reaches every live session; eviction only for cause, but for one session touched too late; Close leaves no session, and returns if the facade reads or the context ends |
| `siit` | some 2,400 packets of the client and the network, three-bit checksum words | lengths, checksums, addresses, fragments, quotes and path MTU survive both translations, with two exceptions that are reached and named |

`routable` and `uds_close` refute comments of the code; PROJECT.json quotes
them under "findings".  The two other promises of `KeysFollowWhenSerial`,
`BothKeysAgree` and `NoKeyLeak`, also fail when a teardown overlaps an
attachment, in the window between two steps of `deregisterKeys` or
`installCLAT`; no run of its own shows that.

Bounds.  Two CONNECTs are the least that displace each other and three
goroutines on one activeClient already meet in every pair of steps; a second
device is needed only to tell devices apart.  The packet lengths are at and
above the two caps; 1420 is above the native cap and on the CLAT one.  In
`auth` two requests already interleave every lookup with every promotion;
SessionTimeout is 0 and the clock makes one step (`MaxNow`), which is enough
for a row to expire between any two steps and then be refreshed; the channel
holds one tunnel (`Cap`), so it can be full.  Two passwords verify two devices
and a third is refused; two cookies let a row be promoted twice.  A second row
takes the run past five minutes: that devices do not cross rows is left to the
theorem.  In the tunnel runs intervals are a few units so that each is above,
below and equal to the heartbeat at some point; `tunnel_time` explores open
tunnels only (`WhileOpen`), which is what its properties speak of, and
`tunnel_close` switches timeouts off because closing does not depend on them.

In `resolver` the clock runs to 4 (`MaxNow`) and TPM changes its mind once
(`MaxVer`): enough for an entry to pass its soft and its hard lifetime while a
request is under way, and for a fetch to straddle the change.  In `flows` the
limit of two is below the three kernel sources, so eviction happens with a
reader between lookup and remember; sources, readers and elements are
symmetric, as nothing tells them apart.  In `uds` two connections fill and
overflow the queue of one.  In `dtls` one datagram stands for each reason to
drop one, two arrive for one 4-tuple in its two spellings (data, and a DPD
request to be answered), a third disconnects, and the clock makes two ticks,
one more than the idle timeout; that payloads are short leaves the 16-bit edge
of the reply to the theorem.  In `siit` `Ones` is 7: every sum, carry and both
zeros occur; packet lengths are those at the boundaries of the code (transport
minimum, 1240, 1260, the MTUs), ICMP errors come with and without bytes behind
them and declare quotes below, at and above a header, and one packet at a time
is on its way because the translators keep no state but the fragment ID.

Distinct states: `registry` 527,263, `egress` 4,063,555, `auth` 2,554,105,
`uds` 59,625, `flows` 114,185, `dtls` 453,529, `siit` 78,936.

CHECK_DEADLOCK is off where tunnels, sessions and requests may all end and the
process then rests.

## Fairness and timing

* Bridge `FairSpec`: weak fairness of each goroutine's next step when it does
  not wait for the outside world: a goroutine holding or waiting for a Go mutex
  is eventually scheduled.  No fairness is assumed for CONNECTs, datagrams, peer
  closes, eviction or shutdown, nor for a pumping tunnel that is still open,
  because `ReadPacket` blocks until the peer sends or the tunnel closes.
* CstpServer `FairSpec`: weak fairness of a request's select on the channel, of
  bridge.run's loop and of the shutdown goroutine's Close once the context has
  ended.  Nothing about clients, the clock or Verify.
* Tunnel `FairSpec`: weak fairness of goroutines that have something to lock,
  close, push or receive; a blocked write and a blocked read end only because
  `conn.Close` makes them fail.
* Resolver `FairSpec`: weak fairness of each call's next step, where the end of
  a request is one: http.Client has a timeout.
* UdsServe `FairSpec`: weak fairness of handlers (the header read has a
  deadline), of the accept loop on a closed socket, of Serve, watcher and
  shutdown.  Nothing is assumed of a request or a tunnel: http.Server has a
  ReadHeaderTimeout only, a handler reads its body without a deadline
  (cstp/server.go:48, 181), and Shutdown gives up after five seconds.
  `CloseReturns` therefore says "if every request and every tunnel lets go of
  its connection"; that a late hijack, a full queue or a send that panics does
  not keep Close is what it shows.
* DtlsListener `FairSpec`: weak fairness of goroutines that have begun
  something and can go on (Resolve has ResolveTimeout; a write can go on while
  the facade reads, or fails once the socket is closed).  Strong fairness of
  the steps that wait for `table.mu`, which an RWMutex gives them although
  passes come again and again, and of the stop case of the two selects, since
  Go picks at random among the ready cases and the ticker keeps becoming
  ready.  Nothing makes the facade read: `CloseReturns` assumes that it reads
  from some time on, or that the context ends.
* Tunnel `TimedSpec` adds `Prompt`: no unit of time passes while the heartbeat
  goroutine could run.  Units are seconds and the goroutine needs
  microseconds.  Time does pass while it waits for its ticker or is blocked
  behind a peer that does not read, which is the interesting case.

## Proofs

Bridge.  All theorems hold for any sets of tunnels, sessions, queues and
addresses that satisfy three assumptions: the kinds of names are disjoint, the
identity functions have their types, and TPM never gives an address of one
device to another (`AddressesPerDevice`).

* `TypeCorrect`: the type invariant.  It contains what each local variable
  holds at each pc, which the other proofs use.
* `EgressIsolated`: by `DeviceInv`, which says that a client, every transport
  in it and every goroutine at work on it belong to one device, and that a
  registry key leads to a client of the device that owns the key.  The
  property alone is not inductive: the queue reads the key, the slot and the
  translator in three steps.
* `SlotsCorrect` (`SlotsOwned`): by `DeviceInv` together with the three
  conjuncts themselves.
* `KeysReleased`: an action property, by cases on the step.
* `RoutedDtlsAlive`: by `FreshInv` (nothing points at a client that has not
  been created) and `DtlsInv`, under `~HandlerStalls`; it adds that a
  session is in the table while OnAdmit runs, out of it while OnEvict runs,
  and that OnEvict looks at the only routed client that can hold the session.
* `ClatKeyTranslated`: by `ClatInv`, when a device has one CLAT /128
  (`UniformClat`; a document of TPM that changes between two CONNECTs breaks
  it).
* `IngressTranslated` (`IngressTranslatorCSTP`): by `ClatInv` again; the
  translator of a client belongs to the device's only CLAT /128, so it does
  not matter which transport built it.

CstpServer, for any number of requests, rows, cookies, tunnels and any
credentials (`ServerTypes`).

* `ServerTypeCorrect`: the type invariant, with what a request holds at each
  pc, and that a row with a cookie has a device.
* `TunnelsVerified`: by `VerifiedInv`.  The property speaks of tunnels only;
  the invariant follows the device back through the request that makes the
  tunnel, the row it was read from and the promote that wrote it to Verify.
* `TunnelsOwned` (`TunnelOwned`): by `OwnedInv`, which adds that nobody holds a
  tunnel newTunnel has not made yet, so a new one is nobody else's.

Tunnel, for any number of writers, any intervals, and a heartbeat floor of at
least two units (`TunnelTypes`).

* `TunnelTypeCorrect`: the type invariant, with `writeMu` held exactly by a
  goroutine at a write or at the close after a failed one.
* `CauseIsReported`: by `CauseInv`: an error reaches ReadPacket only once
  `closeCh` is closed, and the cause does not change from then on.
* `KeepAliveHolds`, `BindingStaysFresh`: under
  `TimedSpec`, by `OutInv`, `InInv` and `RefInv`.  Between ticks an age grows
  with the phase of the ticker; on a tick the heartbeat resets it, acts on it
  or has seen that it is small.  Every other step is `Quiet`, one lemma for
  the three.

Resolver, for any number of callers, devices and documents and any lifetimes
(`ResolverTypes`).

* `ResolverTypeOK`: by the agreement of `flight` with the pc of the leader (one
  request per device) and by what fetch makes of a document (`OutcomeType`): an
  Identity holds two addresses of the pool, so Resolve fails closed.
* `ResolverImplementsLookup`: Resolver's initial states and steps are those of
  DeviceLookup with `asked <- dev` and `Bound <- 2 * TTL + HTTPTimeout`.  The
  invariant is `Types /\ Calls /\ World /\ Cached /\ Requests /\ Results`.
  `World` says that what TPM says now is logged and that nobody was told
  anything newer, `Cached` that an
  entry is a logged fact read within one request of its cachePut and not older
  than any answer given, `Requests` the same of a reply under way, and
  `Results` of what the leader is about to hand to the waiters.  One flight per
  device is what keeps an older answer from overtaking a newer one.
* `ResolverAbsorbsFlaps` (`FlapAbsorbed`): an action property, by `Absorb`:
  with the cache on, an entry was put when TPM last gave a usable answer, or
  that is past the hard lifetime; and a leader about to report an error found
  nothing hard-fresh.  Waiters inherit it from their leader.

UdpFlows, for any number of readers, sources and elements and any limit
(`FlowsTypes`).

* `FlowsTable` (`TableInv`), `FlowsAddressOwners` (`AddressOwners`): by one
  invariant, the conjunction of both and the fact that no entry is from the
  future.  Every action is a removal of some elements, a move to the front, or
  one of the two branches of remember, and there is one lemma for each.
  `heard` grows with every datagram that arrives, read or not, so `Attribution`
  is no statement about the branches the code takes.

* `FlowsBoundedHolds` (`FlowsBounded`): by `Bound`, which adds that the list is
  a strict order.  The step that needs an argument is the eviction: a list
  above the limit has a back, because the element with the fewest others behind
  it has none (a least number, `LeastNatural`, from the well-foundedness of the
  naturals).

UdsServe, for any connections, any streams and any capacity of the queue
(`CapType`).

* `ConnOwnedHolds` (`ConnOwned`): by `Stage`, what the pc of a handler says of
  its socket, its wrapper and its place, and `QueueOK`, a queue without
  duplicates that holds exactly the connections placed there.
* `CloseWaitsHolds` (`CloseWaits`): by `Closers`: exactly one of the watcher and
  the owner found `closing` unset, and that one returns only after the join.

DtlsListener, for any datagrams, 4-tuples, idle timeout and number of sessions
(`BoundTypes`; `DatagramTypes`: header records are a sequence and lengths are
counts; `KeysCover`: `Key` has every 4-tuple that is read).

* `ReplyRoutableHolds` (`ReplyRoutable`): the lemmas on `Wire` show that
  `Encode` followed by the decoder is the identity on every frame that fits
  (`ReplyRoundTrip`).  The length of a block of records is the cardinality of
  its bytes, so that this needs no induction over the records: a decoder that
  stops elsewhere would have read a strictly smaller set of bytes.
* `SweepCoversLiveHolds`, `CloseEvictsHolds`, `EvictedForCauseHolds`: by one
  invariant.  `TableOK` says that a session can reply exactly while it is in
  the table and was evicted otherwise, `RecvOK` that the receive loop works on
  a session of the datagram's own 4-tuple and owes at most one OnAdmit, `HbOK`
  contains the sweep, `WalkOK` that a pass works with a deadline at least
  IdleTimeout ago and that the session it is about to delete was older than
  that or is the one a datagram had looked up and not touched when the pass
  took the lock, and `Closers` as above.  `EvictedForCause` is an action
  property and follows from the same lemma as the invariant's step.

Siit, for any packets, link MTUs, addresses and prefix, any size of a checksum
word and any number of fragment IDs (`SiitAssumption`; `PacketAssumption`: the
packets have the fields and widths of IP).

* One's complement arithmetic first: `Combine` is commutative and associative,
  the complement verifies, and each of the three partial updates
  (siit46PartialUpdateTransportChecksum, siit64PartialUpdateTransportChecksum,
  natPartialUpdateChecksum) turns a right sum into a right sum.  The all-ones
  word and zero both stand for zero, which is why the prefix must not sum to 0;
  64:ff9b::/96 sums to all ones, the value for which the updates change
  nothing, so the instance TLC checks takes another and the theorem covers all.
* Then one lemma for each translator, of what its result has in common with
  its input (`Siit46`, `OnTun4`, `Siit64`, `Nat66Src`, `Nat66Dst`,
  `TooBigReports`), and one for each way round (`AnswerMirrors`, `ErrorNames`,
  `ErrorArrives`: every report of a router does reach the client).
* `LengthHonestHolds`, `TransparentHolds`, `ChecksumHoldsAlways`: by an
  invariant that says at each place that the packet there is what the
  translators make of the one the exchange began with (`AtTun`, `AtNet`,
  `AtGot`, `AtHost`), and after an abort which packets it can have been
  (`AtAborted`).  The exceptions are in the properties: `LengthHonest` says
  over which packets SIIT46 runs out of range, `ChecksumHolds` that a UDP
  checksum leaves invalid only as a right sum of zero.
* `PathMTUSettlesHolds`: by `Informed`: the client goes by an MTU 20 below the
  narrowest link a router reported, or the news is on its way to it in a packet
  that translates.  `PathMTUSettles` alone is not inductive, because the link
  is known before the client is.

Every invariant and every action property that a passing run checks is proved.
Model-checked only: `GoroutinesEnd`, `PublishAnswered`, `CloseEnds`,
`ResolveReturns`, `ServedOrClosed` and both `CloseReturns`, liveness properties
(fairness and ENABLED are out of the prover's reach), and
`KeysFollowWhenSerial`, whose hypothesis the code does not ensure.  The
findings of `routable` and `uds_close` are counterexamples and need no proof.

## Plan

1. Safety lemmas the liveness properties rest on, stated for any number of
   goroutines: who holds `writeMu` can always release it, and who waits in
   `Publish` waits for a channel that somebody still serves.
2. An abstract specification of the bridge (a device is attached or not, its
   packets go to one of its transports) and `Bridge` shown to implement it in
   the behaviours without an overlap.

## Behaviour worth knowing

Seen while modelling; the properties are stated so that they hold with it.

* A DTLS session detached by a CONNECT loses its translator once that tunnel
  leaves, although the session lives on (bridge.go:422-429).
* CONNECT touches a row that another request may have reaped since the lookup
  (connect.go:167, cookie.go:173-174); the tunnel then has no cookie.
* A row promoted twice has two cookies, and reaping it forgets the newer one
  only (cookie.go:99, 193-194).  lookupToken rejects the older one because the
  row is expired, unless a CONNECT in flight touches the reaped row: the stale
  key then leads to a row that counts as valid again.
* `cstp.Server.Close` closes the channels and no tunnel (cstp.go:225, and
  152-153).  A tunnel published around it stays open without an owner until its
  own loops end it, and `udsserve.Server.Close`, which waits for the handlers,
  waits for it as for every other tunnel, contrary to main.go:327-331 (run
  `uds_close`).  It also waits for a request whose body never ends.
* The second caller of `StreamListener.Close` returns at once, although the
  comment (udshandoff/listener.go:158-159) promises the wait to every caller;
  with the context watcher first that is the owner.  `CloseWaits` speaks of the
  first caller.
* `touch` takes no lock (dtlsuds/listener.go:345), so a datagram looked up
  before an eviction pass may touch its session, and even be answered, between
  the pass's test of `lastSeen` and its delete (table.go:219-221): the session
  is evicted all the same.
* The heartbeat writes to the facade without a deadline
  (datagram_listener.go:281) and `Listener.Close` waits for the heartbeat before
  it closes the socket (dtlsuds/listener.go:318-324): a facade that stops
  reading holds Close until the context ends and the watcher closes the socket.
* A heartbeat blocked behind a peer that stops reading refreshes no binding
  (tunnel.go:323, cstp.go:133-135).
* When the context watcher closes the datagram listener first, `Listener.Close`
  does not wait for the receive loop (listener.go:314-315), and a session
  admitted after it is never evicted.  `CloseEvicts` says which case it is.
* The duplicate check of TLVs runs per block, so a type may appear both in the
  inner header and in the ERA block.
* Every row of the matrix names every ERA type, so the path that logs and skips
  an unknown one never runs.
* Any error of Accept ends the accept loop; runUDS returns at ctx.Done while its
  shutdown goroutine may still be at work.
* UDPListener is not used by the program, and evictIdle only by its tests.  A
  header on a cached flow is not read, so an address announced there changes
  nothing (udp_listener.go:176-178), and a flow remembered again under its
  unchanged source does not take the return path back (307-314), although
  337-341 says that the latest announcement wins.
* SIIT46 and NAT66 leave a UDP checksum that comes out as zero (siit46.go:344-347,
  376-378, nat.go:120): IPv6 has no such checksum, and a receiver drops the
  packet.  Run `siit` reaches it.
* The quote of an ICMP error is measured to the end of the slice
  (siit46.go:106, 200) and moved by the declared length (251-262).  An error
  that declares less than a header of its quote, with more bytes behind it,
  makes the move run out of range, and nothing recovers.  Run `siit` reaches it.
* SIIT: NAT66 does not rewrite the address of a packet whose transport is too
  short; it does not look past extension headers other than Fragment, and
  SIIT64 assumes a source in 64:ff9b::/96, so checksums are wrong otherwise;
  the quote inside an error carries the low 32 bits of the CLAT /128 as source;
  SIIT64 takes an ICMPv6 Unknown Next Header only with pointer 0 while SIIT46
  emits pointer 6; fragments grow by 28 bytes where the path MTU allows for 20.

## Not modelled, and why

Certificate and XML parsing, HTTP headers and MTU negotiation change no shared
state; the password verifier is one HTTP call whose answers are inputs of
`CstpServer`.  The legacy mode of main and its PROXY-protocol listener read one
header per connection.  NAT44 has no caller.  The tun device is system calls.
Logging, metrics and redaction have no behaviour a property is about.
crypto/rand, sync, time, net and net/http are taken as their documentation has
them.
