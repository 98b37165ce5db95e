# Chameleon in TLA+

A model of the parts of Chameleon in which goroutines, datagrams, clocks and
failures meet: path selection and reconnection, UDP sessions and their fragments
at both ends, authentication and proxied streams at the server, hole punching and
discovery through NATs, the transports below QUIC (port hopping and the
obfuscators), both congestion controllers, the monitor that notices a changed
network, and what the two commands acquire and give back. The modules are
translated from the Go sources; `PROJECT.json` names, for every definition that
models code, the lines it stands for.

    tlc -config Paths.cfg MCPaths                # a run: X.cfg with its MC module
    tlapm PathSelectProofs.tla                   # a proof: any module named ...Proofs

## 1. The system

A Chameleon client opens one QUIC connection to a server, authenticates by an
HTTP/3 request that to anybody else looks like a web page, and then proxies TCP
(a QUIC stream each) and UDP (QUIC datagrams, one session identifier per
association) through it. Below QUIC the packet connection may hop between
ports, disguise its datagrams, and be opened through two NATs with the help of a
rendezvous server (a *realm*).

| Part | State it keeps | Operations | What makes it correct |
|---|---|---|---|
| Path selection policy, `core/selector` | last reading, silence clock, candidates struck off | `Observe`, `SwitchFailed` | condemns only a silent path, walks the candidates once, gives up for good |
| Path switching, `core/client/path.go` | `pathMu` and the connection's address, estimates, congestion controller | `SwitchTo` | a switch is all there or not at all |
| Reconnecting client, `core/client/reconnect.go` | current client, closed flag, mutex | `TCP`, `UDP`, `Close`, `reconnect` | one connection at a time, dropped only when dead; `Close` is final and leaves nothing |
| Client UDP sessions, `core/client/udp.go` | identifier table, one channel per session | `NewUDP`, `Receive`, `Close`, `run`, `feed` | no send on a closed channel, no reader left behind |
| Fragmentation, `core/internal/frag` | fragment groups by packet identifier | `FragUDPMessage`, `Feed` | what comes out went in; bounded memory; no starvation |
| Server UDP sessions, `core/server/udp.go` | session table, per-session queue, socket and policy cache | `Run`, `sendLoop`, `receiveLoop`, `idleCleanupLoop`, `CloseWithErr` | no leaked socket, no foreign removal, no write past the policy |
| Authentication, `core/server/server.go` | per connection: flag, user, mutex; the online count | `ServeHTTP`, `ProxyStreamHijacker`, `handleClient` | one identity, one session manager, an exact count |
| Proxied streams, `core/server/server.go`, `copy.go` | per stream: state, two ends, two copiers | `handleTCPRequest`, `copyTwoWayEx` | one response, nothing left, ends propagate |
| Traffic statistics, `extras/trafficlogger` | online map, kick map, stream map | `LogTraffic`, `LogOnlineState`, `TraceStream`, `kick` | what is reported is what happened |
| Link monitor, `app/internal/linkmon` | burst held back, last snapshot, one-slot event channel | `produce`, `poll`, `loop`, `emit` | no burst held for ever, nothing dropped, no change missed |
| Discovery, `extras/realm/disco*.go` | session table, tag and address index, replay window, rotation goroutine | `AddDiscoSession`, `RemoveDiscoSession`, `SetDiscoSessionPeer`, `refreshTags`, `dispatch`, `Close` | a fresh packet finds its session, each number is taken once, the indexes follow the table |
| Hole punching, `extras/realm/punch*.go`, `nat.go` | attempt table, targets, source filter, rounds | `Punch`, `Respond`, `dispatch`, `ClassifyNAT` | what can be punched is, and the address returned works |
| Realm server, `app/cmd/server.go`, `extras/realm` | socket, mapping, registration, cached addresses | `run`, `heartbeatLoop`, `eventsLoop`, `respond`, `Close` | stays reachable, leaves nothing behind |
| BBR, `core/internal/congestion/bbr` | mode, windows, recovery; packet map, filters, ack points | `OnPacketSent`, `OnCongestionEventEx`, `SetMaxDatagramSize` | windows within bounds, a packet known until resolved |
| Brutal and pacer, `congestion/brutal`, `common` | ring of seconds, remembered losses, budget, three atomics | `OnCongestionEventEx`, `SetBPS`, `OnPathChange`, `Budget` | corrections land where the loss was counted, no credit of an old rate |
| Port hopping, `extras/transport/udphop` | two sockets, their readers, a queue | `hop`, `recvLoop`, `ReadFrom`, `Close` | nothing leaked, settings follow, the last socket is still heard |
| Gecko, `extras/obfs/gecko.go` | reassembly table, count per source | `writeFragmented`, `acceptChunk`, `gcExpired` | a lossy channel of whole packets, but for numbers that come round, in bounded memory |
| Salamander v2 and its clock, `extras/obfs`, `extras/timesource` | replay buckets, boot time, correction | `Obfuscate`, `Deobfuscate`, `Now`, `Bootstrap`, `Reconnect` | which repeated datagrams can be handed up again, how far off the time stamped can be |
| Firewall and server start, `app/cmd/server.go`, `app/internal/firewall` | rules in the kernel, closers, helpers | `runServer`, fillers, `SetupUDPPortRedirect`, `Close` | every port of the union reaches the listener, a graceful end leaves nothing |
| Mimic, `app/internal/mimic` | child, lock, supervisor | `Start`, `supervise`, `restart`, `adopt`, `Close` | `Close` returns and leaves no child |
| Client start, `app/cmd/client.go` | attempt, socket, mapping, modes | `runClient`, `Config`, `realmConfig`, `clientModeRunner.Run` | a failed attempt holds nothing, a failed mode ends the client |

The other parts are listed with their status in `PROJECT.json`.

How the parts interact. The application calls the reconnecting client, which
dials `core/client` and retries once a connection is found dead; each dial
evaluates the client command's configuration anew, and in realm mode punches
first. A polling loop (the shape of it is `drive` in
`tests/e2e/pathselect_test.go`) reads `PathStats` and `Current` from the client,
feeds `Selector.Observe`, calls `SwitchTo` when told to, and reports a failure
back with `SwitchFailed`. On the server, `ServeHTTP` starts a UDP session manager
per authenticated connection and the stream hijacker starts `handleTCPRequest`
per stream; both report to the traffic logger, whose refusal closes the
connection. UDP senders at both ends call `FragUDPMessage`; receivers keep a
`Defragger` per session. Below QUIC, `PunchPacketConn` and `DiscoPacketConn` take
their own packets out of the stream of datagrams, over an obfuscated connection,
over one that may hop. quic-go calls a congestion controller from its run loop;
`SetBPS` and `OnPathChange` come from other goroutines. The link monitor is
independent of the rest: its consumer re-enumerates its addresses.

What is hard here: readings that are stale when they are used, objects closed by
whichever of several goroutines comes first, state read without the lock it is
written under, one of two results deciding a stream's fate, timers re-armed by
the events they wait for, lossy datagrams with reused identifiers, clocks that
are corrected and stepped, resources acquired one after the other with a
failure between any two, and rules that outlive the process that made them.
`PROJECT.json` lists each of these hazards at its line.

## 2. The modules

| Module | Code | State and actions |
|---|---|---|
| `Selector` | `core/selector/selector.go` | the fields of `Selector` are variables; `Observe` is the disjunction of the reading without a connection and the live one, `Absorb` being what it makes of its memory before judging; `SwitchFailed` |
| `PathSelect` | the loop, `path.go`, `pathstats.go`, as the policy sees them | extends `Selector` with a connection that delivers, migrates, dies, is dropped and redialled, and with `Poll` and the four outcomes of `SwitchTo` |
| `Reconnect` | `reconnect.go`, `path.go`, parts of `client.go` | goroutines in `clientDo` and in `SwitchTo`, the two mutexes, `Close`, connections numbered by their dial |
| `ClientUDP` | `core/client/udp.go` | `run` with `feed` as a step of its own under the read lock, `NewUDP`, `Receive`, `Close`, `closeCleanup` |
| `UDPFrag` | `frag.go`, `sendMessageAutoFrag` and `SendMessage` of `server/udp.go`, the `Send` of `client/udp.go` | `FragUDPMessage` as an operator over byte sequences with the `uint8` count, `Feed` with sweep, duplicate test, eviction and size limit; a wire that loses, reorders and repeats |
| `ServerUDP` | `core/server/udp.go` | all four goroutines; `CloseWithErr` as its two critical sections; the dial under `connLock`; policy cache, hook and address override |
| `ServerAuth` | `ServeHTTP`, `ProxyStreamHijacker`, `handleClient`; `LogOnlineState` | one step per access to what requests and streams share |
| `ServerStream` | `handleTCPRequest`, `copy.go`; `LogTraffic`, `kick`, `TraceStream`, `UntraceStream` | the handler, the two copiers and their result channel, both peers |
| `LinkMonitor` | `linkmon.go`, `poll.go`, `watch_linux.go` | the producer (native watcher, which skips what it cannot parse, then poller), the debouncing loop, `emit`, the consumer |
| `Disco` | `disco.go`, `disco_conn.go` | callers between their three locks, the tag table by epoch, the rotation goroutine with its read and its rebuild apart, `nextSeq`, the reader and `accept` |
| `RealmPunch` | `punch_engine.go`, `puncher.go`, `punch_conn.go`, `nat.go` | both ends' `runPunch` by rounds, `newPunchPlan` with its tiers of probes, the server's demultiplexer; two NATs that map and filter |
| `RealmServer` | the realm half of `app/cmd/server.go`; `stun.go`, `portmap.go`, `client.go` as it uses them | boot by stage (socket, layers on it, mapping, lookup, request and answer of the registration), `run`, heartbeats, events, responses on their session's context and two STUN lookups as goroutines that share `stunEvents`; moves of the host, failing requests and a gateway that does not remove a mapping |
| `BbrSender` | `bbr_sender.go` | the sender is a record, its helpers are operators on it, and `OnCongestionEventEx` composes them in the code's order; what a profile sets (gains, the loss multiplier, the ack aggregation of startup, overshoot detection) is a constant, and the state when a sampled packet was sent is an input |
| `BbrSampler` | `bandwidth_sampler.go`, `windowed_filter.go`, `packet_number_indexed_queue.go` | the packet map, the ack height tracker, the recent ack points, the windowed filter |
| `Brutal` | `brutal.go`, `pacer.go` | the run loop's record and the three atomics other goroutines store to; slots by second, remembered losses, the gate, rebaselining |
| `ServerStart` | `runServer`, `Config` and its fillers, `firewall_linux.go`, `NewServer` | one process after another: the commands one by one, those of the clean-up too, what each failure gives back, what a kill leaves |
| `ClientStart` | `runClient`, `Config`, `realmConfig`, `realm_portmap.go`, `clientModeRunner` | attempts by stage with what they hold (STUN, the rendezvous request, the punch, the handshake and the authentication apart), the modes, the ways out |
| `Mimic` | `mimic.go`, `mimic_linux.go` | processes that start or share the child, the supervisor's wait, delay, launch and adoption, `Close` |
| `HopConn` | `udphop/conn.go`, `addr.go` | a record per socket, `recvLoop` per socket, which any error but a timeout ends, the queue, `hop`, deadlines and buffers, `Close` |
| `Gecko` | `gecko.go`, `gecko_frame.go` | `writeFragmented`, with one counter for all destinations and at any rate, `acceptChunk` as lookup, caps, store and hand-up, `gcLoop`, `Close`; `ImplementsDatagrams` maps it to `Datagrams` |
| `Datagrams` | | abstract: what is handed up was sent, whole, by the peer it is said to be from, or is put together from parts that clash |
| `SalamanderV2` | `salamander_v2.go`, `conn.go`, `timesource/*`, `timesync.go` | true, wall and monotonic time; the corrected clock; the query of the time servers one after the other; the window in whole seconds, the boot barrier and the replay buckets; restarts, and a client's reconnections, which build an obfuscator anew on the clock there is |
| `ServerConfigs`, `ClientConfigs` | | the configurations the runs start the two commands from |
| `PathSelectProofs`, `ReconnectProofs`, `ClientUDPProofs`, `ServerAuthProofs`, `ServerUDPProofs`, `GeckoProofs` | | theorems about the component each is named after (section 5) |
| `MCDatagramsProofs`, `MCNodeProofs` | | theorems about two of the sums below: those of the components above, and those of the other parts with their own invariants |

The MC modules give constants their values. Four of them are *sums*: a variable
`part` is chosen at the start, the behaviour is one of that component, and the
others keep their initial values. A sum's state space is the union of its parts',
so nothing of a part is lost; `INSTANCE ... WITH` gives each part its own
variables and constants. Where a part is proved about, the sum instantiates its
module of proofs, which extends it, so that the lemmas can be cited for the sum.

| MC module | Parts |
|---|---|
| `MCDatagrams` | `Disco`; `ServerUDP` twice (two sessions in turn; one session and two addresses); `HopConn`; `Gecko`; `SalamanderV2` |
| `MCPaths` | `UDPFrag`, `RealmPunch` |
| `MCNode` | `BbrSender`, `BbrSampler`, `Brutal`, `ServerStart`, `ClientStart`, `ServerAuth`, `ServerStream`, `ClientUDP`, `LinkMonitor` |
| `MCLifecycle` | with fairness: `ServerUDP`, `ServerStream`, `ClientUDP`, `Mimic`, `ClientStart`, `ServerAuth`, `LinkMonitor` |

A property of a sum names several properties of one module where they are about
one piece of state. Definitions such as `UntriedForgetful` or `ClearedAhead`,
each before the definition it distorts, are plausible mistakes in the code;
replacing the definition by it must break the property `PROJECT.json` pairs it
with. They are used by nothing.

Abstractions. A datagram is its session, its target and whether it completes a
message; a payload in `UDPFrag` is a sequence of bytes that know where they
came from. Addresses keep the distinctions their code makes: v4 and v4-in-v6 in
the selector, host and port in `RealmPunch`, the network they belong to in
`RealmServer`. A disco tag is a session and an epoch; two sessions may be made to
collide. In `ServerUDP` an entry the program no longer refers to is used for the
next session, so that a bounded number of entries stands for any number of
sessions; in `BbrSender` a packet is its age. A configuration is a record of the
alternatives its fillers tell apart. Cryptography is ideal. Time is a counter, or
an age that stops growing where nothing tells larger ages apart.

Taken from outside the repository, as the code uses it: quic-go (counters,
contexts, loss detection, `SetRemoteAddr`, `ResetPathState`, which fails when the
connection ends; with the path manager off a connection follows the source
address of an accepted packet); the HTTP/3 server, whose `ServeQUICConn` returns
after its request handlers have; outbounds, hooks and authenticators, which
answer anything; the kernel's network notifications, NATs, the rendezvous and
STUN servers, the gateway, `nft`, `iptables` and `mimic`.

## 3. The runs

Every passing run explores its whole state space. Deadlock is not checked: each
modelled system may stop (a bound is reached, all is closed, or nobody calls);
that what should end ends is stated as liveness.

**PathSelect** -- three configurations (two candidates, one of them written
v4-in-v6; no keep-alive; no candidates), three hosts, round trips 0 and 1, eight
polls, one packet per connection. Eight time units hold the longest walk: a
threshold per candidate and one more. One packet is enough for a counter to
rise, stand and fall.
`OnlySilenceCondemns`: a path is left only after the connection really was
silent for the threshold applied. `EachCandidateOnce`: no address is ordered
twice on a connection that has not moved of itself. `GiveUpStands`: a give-up
is repeated while nothing is different. `NoSwitchOnceGone`: no order after
`ErrNoConnection` until a replacement is seen. `SilenceEndsInGiveUp`: on a
silent connection the walk is over in one threshold per candidate and one more.

**Reconnect** -- two callers, two selectors, two dials: the least in which a
caller holds a client another has replaced, and two switches contend for one
connection. `HeldAndWhole`: no interleaving of switches leaves quic-go's default
controller or another path's estimates, a live connection is the one held unless
a stream failed on it, and nothing lives after `Close`. `CallsEnd`: every call in
progress at `Close`, and every switch, ends.

**Datagrams** -- *Disco*: two sessions under one identifier whose tags collide, two
callers with three calls, an epoch of two checks, a replay window of two
(`AcceptedOnce`, `IndexesFollowTable`, `FreshFindsItsSession`). The sessions are
interchangeable, and are used in ascending order here. *ServerUDP*: one identifier,
two entries, a session and its successor under the same identifier, which is where a
late `ExitFunc` could remove the wrong one (`ExitRemovesOwn`, `OpenIsRegistered`); then
one entry, two addresses of which the policy accepts one, a hook that may rewrite
the other into it and a cache of one decision (`WritesAllowed`).
*HopConn*: two hops, so that a socket is closed by one, two settings of deadlines and
buffers, a queue of one, reads that fail, one server port, since nothing depends on
which, and five interval configurations (`SocketsAsAsked`). *Gecko*: two sources, one of which sends three packets, here or
elsewhere, under two message numbers, so that it comes round to its first; caps of two,
entries that live for one step and a clock of two (`EntriesAccounted`, and
`ImplementsDatagrams`, the refinement). `gecko.go:147` counts messages in a `uint8` that
all destinations share, and paces nobody: about 21 long-header packets a second are
enough for a number to come round within the 8 s of `geckoReassemblyTTL` and the 4 s of a
round of `gcLoop`. Nothing is assumed about that. The abstract channel may hand up a
packet put together from the parts of others of the same source, provided two of them
were sent under one number within `Hold`, the life of a datagram, of an entry and of a
round of `gcLoop`; otherwise a packet is one that was sent, whole, and never one of which
a chunk was not written.
*SalamanderV2*: one datagram, two obfuscators (of one process or two), one step of the
system clock or one suspension, three time servers of which each fails, is right or is
nine units wrong and takes up to one unit, a second of two units, a window of one second,
nine units of time (servers are asked in the first three, and a clock they corrected is
followed for six). The system clock starts unset, just before the build time or ahead,
with a peer whose clock is ahead by five, behind by two, and ahead (`ClockStarts`): the
least in which a corrected clock is slow by the time the servers took, a datagram is
stamped later than the obfuscator's own start, and a bucket is cleared and its datagram
comes again. `HandedUpOnce` says when that can be: for the same obfuscator, once its clock
has fallen back by more than the window less a second (a time stamp is in whole seconds,
`Unix()`, while the buckets turn by full times); for a later one, if its clock fell back,
or the datagram was sent less than a second and the peer's lead before it was built. The
second half bounds the time that is stamped: behind by the servers' error and the time
they were waited for, ahead by that error and a step that goes unnoticed.

**Paths** -- *UDPFrag*: `Intact` compares `FragUDPMessage` with what it should
do for every payload length to 13 and datagram size to 9, the counter counting to
4, so that both sides of its limit are met; then three payloads of two fragments,
the first of them possibly of three and over the size limit, with three
identifiers drawn freely, a table of two groups, one repeated datagram and a
clock past the timeout (which a run with a third payload does not reach). With
`UndisturbedCompletes`, a payload whose group is neither timed out nor displaced
comes out, and the table accounts for what it holds.
*RealmPunch*: two dials, or one whose event is delivered twice, or one lost
packet; every pair of endpoint-dependent or independent mapping and filtering.
`PunchableIsPunched`: what the plan can reach is reached; `PunchedPathWorks`: the
address returned is one the other end hears from.

**Node** -- *BbrSender*: the conservative profile, windows of one and two packets of two
sizes, bandwidths 1 and 2, one loss (`WindowInBounds`). *BbrSampler*: four packets, three ticks; a packet
threshold of three, so that one can be taken for lost while the next three are
acknowledged (`KnownUntilResolved`). *Brutal*: a ring of two seconds, three packets,
three seconds, one `SetBPS` or `OnPathChange` (`CorrectionsLand`). *ServerStart*:
eighteen configurations, two processes one after the other, two failing commands, be they
of the set-up or of the clean-up, whose errors are ignored: one of those costs only the
table or the chain it is about (`PortsReachListener`). *ClientStart*: three attempts and two failures
(`NothingHeld`). *ServerStream*: one stream whose user is kicked up to twice
(`NothingLeft`). *ServerAuth*: two connections of two users, two requests each;
`OnlineExact` rests on a client that waits for its answer before it opens streams,
which is what `client.go` does, since the server reads `authID` without the mutex.
*ClientUDP*: three sessions, channels of one (`RoutedRight`); identifiers do not wrap
onto an open session within the bound, in the code that takes 2^32 sessions on one
connection. *LinkMonitor*: two kinds of change with two values each, three changes, a
raw buffer of two: enough to overflow it, for a burst that re-arms its timer beyond
`MaxDelay`, for a change before the watcher is chosen, for a message it cannot parse and
for a change undone between polls (`NoChangeMissed`, whose exceptions these are).

**RealmServer** -- one move of the host, one punch event, two failing requests,
three sessions: a heartbeat may fail after the move and the registration after
that. `NothingLeftBehind`: a boot that failed, wherever it did, holds no socket, no
mapping is left but the one `NewPortMapper` loses or the gateway would not remove (the
code tries once and ignores the error), and no session at the rendezvous but one that was
being registered when the boot failed or `Close` came, or that could not be told.
`StaysReachable`: a forgotten session is replaced, a punch event is answered with a punch
unless its session, whose context the responder has, ends first, and an address that stays
is published unless the heartbeat that carried it failed.

**Lifecycle** -- liveness of seven components with smaller bounds, which its
comments name: `SessionsEnd`, `AllEnd`, `NoReaderStuck`, `MimicEnds`,
`ModeFailureIsFatal`, `GoneGoesOffline`, `StaleIsRefreshed`. What must have been
given back by then is in the run Node. `ModeFailureIsFatal` has the alternative that the
process waits for ever for an answer to a rendezvous or an authentication request: see
section 4.

Fairness. A goroutine that can run does (weak fairness of its steps). Strong
fairness is used in four places where the runtime gives it: a Go mutex hands
itself to waiters in turn (the switches of `Reconnect`), and a `select` chooses
among ready cases at random (the idle cleaner's stop, a copier's read against its
peer's close) or an enumeration of interfaces succeeds now and then (`PollTakes`).
A read on a closed connection returns; a QUIC handshake, a punch and a STUN lookup have a
timeout, but not the client's rendezvous request (`http.DefaultClient` with
`context.Background`) and its authentication request (`RoundTrip` without a context),
whose answers nothing promises; a stopped child exits; time passes. In `Reconnect` a dial
ends: what `CallsEnd` says after `Close` starts from a mutex that is free. Nothing obliges a peer, a server or an
application to send, to answer or to close, but a peer takes what it is sent.
`connectedFunc` is assumed to return.

## 4. Where the code and its words differ

Five runs end in a violation, on purpose:

- **ReconnectLeak**: a connection `clientDo` drops is never closed
  (`reconnect.go:82`, which makes the `Close` of line 40 unreachable): its
  packet connection stays open, and the permanent `Close` does not reach it.
- **ServerStreamKick**: `copyTwoWayEx` takes the first of two results
  (`copy.go:63`). When the traffic logger refuses in the direction that returns
  second, the client is not disconnected and the kick is spent.
- **UDPFragLogged**: a payload that has to be fragmented is logged whole and
  again in fragments (`server/udp.go:287`, `server.go:405`).
- **RealmRepublish**: `heartbeatLoop` notes the new addresses as published before
  the heartbeat has carried them (`app/cmd/server.go:688`); when it fails they are
  not sent again, although the comment at line 808 says a host that moves
  republishes on the next heartbeat.
- **ServerStartPanic**: a union of one port needs no redirection, so the closer is
  a nil pointer in a non-nil interface (`app/cmd/server.go:350`), and a stop by
  signal, or an obfuscation that is refused, panics in it.

Others met while modelling. The properties name them as exceptions, or TLC gives
the behaviour when the exception is removed:

- *selector.go:558*, `EachCandidateOnce` without `~strayed`: a connection that
  follows a packet away from an ordered candidate leaves it unstruck, and it is
  ordered again; the comment at line 75 says each is tried once.
- *selector.go:551*, `OnlySilenceCondemns` without `~unseen'`: a replacement
  whose counter and address equal the last reading inherits the old silence.
- *selector.go:622*: line 456 says that after `ConnectionGone` the policy "gives
  up at once"; if `SwitchTo` had moved the address before the connection died,
  or a packet was counted, the next answer is stay. It orders no switch, which is
  `NoSwitchOnceGone`.
- *server/udp.go:375*: the idle scan and the closing are separate, so a
  session that was fed in between is closed with its message.
- *server/udp.go:291*, `Intact`: two payloads with the same random identifier
  and the same number of fragments are joined into one nobody sent.
- *frag.go:40*, `FragmentsFit`: a payload of 256 fragments or more would index
  past the slice. The datagram sizes and payload limits in use do not lead there.
- *client.go:270*, `DropsOnlyClosed` without `blamed`: an early end of one
  stream is wrapped like a closed connection, and the connection is dropped with
  everybody else's streams on it; it also outlives `Close`.
- *poll.go:78 and :96*, `NoChangeMissed` without `blind`: a change between the
  native watcher's end and the poller's first snapshot, or one undone between
  two polls while the consumer looked, is reported by nobody.
- *disco_conn.go:428*: `SetDiscoSessionPeer` looks the session up under one lock
  and enters it into the address index under another; a session removed in
  between stays in that index. No packet is led to it.
- *portmap.go:95*, `NothingLeftBehind`: when the gateway maps the port and then
  does not tell its address, the mapping is left to expire.
- *stun.go:128*: two lookups on one `PunchPacketConn` discard each other's answers;
  each then ends with its timeout and whatever it has.
- *app/cmd/server.go:519, portmap.go:134*, `NothingLeftBehind`: a mapping the gateway does
  not remove at once is left to expire, and so is a session whose first registration
  reached the rendezvous and was not answered.
- *app/cmd/client.go:902, core/client/client.go:142*, `ModeFailureIsFatal` without
  `[]Awaiting`: the rendezvous and the authentication request have no timeout and are made
  with the reconnecting client's mutex held, on which `Close` waits (`client.go:1091`): the
  client does not end while either is unanswered.
- *app/cmd/client.go*, `NothingHeld`: a realm attempt whose configuration
  `NewClient` refuses after punching keeps its socket.
- *app/cmd/server.go:1730 and :1735*: `logger.Fatal` runs no deferred call, so a
  server that fails after its redirection was set up leaves the rules; a later
  start with the same ports replaces them, one with others does not.
- *firewall_linux.go:98, 147 and 179*, `PortsReachListener`: the clean-up's commands may
  fail without a word; what they were to remove stays.
- *watch_linux.go:78*, `NoChangeMissed` without `blind`: a netlink message that cannot be
  parsed is skipped, and the change it told of with it.
- *udphop/conn.go:127*, `SocketsAsAsked`: any error but a timeout ends a socket's
  `recvLoop` for good, so a connection goes deaf until the next hop without anybody being
  told.
- *udphop/conn.go:133*: a reader that meets a deadline waits to queue it; with a
  full queue and no reader above, it is not ended by closing its socket alone.
- *gecko.go:147*, `ImplementsDatagrams` without `Blend`: two packets of one source under one
  number and with as many chunks, sent within `Hold`, may be joined into one nobody sent.
  QUIC above discards it.
- *salamander_v2.go:95*, `HandedUpOnce` without `Lead + Second`: the comment says that
  refusing what is stamped before `bootTime` is "the same thing as saying the replay set
  covers all of history before boot". A peer whose clock is ahead stamps what it sends
  before our start with a time after it, and the second of the start is let in whole; such
  a datagram that an earlier obfuscator handed up is handed up again. On the client this
  takes a reconnection only (`timesync.go:118`, `client.go:326`): every one has an empty set.
- *salamander_v2.go:323*, `HandedUpOnce`: a clock that falls back by more than a
  period less a second makes a datagram acceptable again whose bucket has been cleared.
- *policy.go:81*, `HandedUpOnce`: the chosen answer is the time its server replied
  (`sntp.go:161`), and is compared with the clock after the servers behind it were asked:
  the clock is set slow by up to a timeout for each of them.
- *clock.go:61*: a suspended host looks like a stepped clock, so a correction is
  retired although the system clock is as wrong as before.
- *bandwidth_sampler.go*: `maxAckHeightTracker.Update` leaves the event's `round` at zero, and `chooseA0Point`
  drops about half of the points it searches; *bbr_sender.go:1065* multiplies
  nanoseconds by bits per second in 64 bits, which overflows beyond 9.2e18.

## 5. The proofs

TLC's runs are small instances; the theorems hold for every value of the
constants that the named assumptions allow. Each module of proofs states the
inductive invariant of its component (checked with TLC on the component's run
before it was proved), proves it step by step, and derives the properties.

| Module | Theorem | States | Checked by a run as |
|---|---|---|---|
| `PathSelectProofs` | `TypeCorrect` | `Spec => []TypeOK` | `TypeOK` |
| | `BookkeepingHolds`, `PaceHolds` | `Spec => []IInv`, `Spec => []WInv` | |
| | `GoneIsFinal`, `SilenceOnly`, `WalkedOnce` | `Spec => NoSwitchOnceGone`, `OnlySilenceCondemns`, `EachCandidateOnce` | the same |
| | `GivesUpForGood` | `Spec => GiveUpStands` | `GiveUpStands` |
| | `SilenceAlwaysEnds` | `Spec => []SilenceEndsInGiveUp` | `SilenceEndsInGiveUp` |
| `ReconnectProofs` | `ClientsAccounted`, `HeldAndWholeAlways` | `Spec => []IInv`, `Spec => []HeldAndWhole` | `HeldAndWhole` |
| `ClientUDPProofs` | `TableHolds`, `NeverSendsOnClosed`, `SessionsRouted` | `Spec => []IInv`, `[]NoSendOnClosed`, `[](RoutedRight /\ EndedClosesAll)` | through `MCNodeProofs` |
| `ServerAuthProofs` | `UsersAccounted`, `CountedAndKnown` | `Spec => []IInv`, and the three invariants of the run | through `MCNodeProofs` |
| `ServerUDPProofs` | `TableKept`, `OpenSessionsRegistered`, `WritesObeyPolicy`, `ExitsRemoveOwn` | `Spec => []IInv`, and the component's properties | through `MCDatagramsProofs` |
| `GeckoProofs` | `BooksHold`, `AlwaysAccounted`, `Implements` | `Spec => []IInv`, `[]EntriesAccounted`, `ImplementsDatagrams` | through `MCDatagramsProofs` |
| `MCDatagramsProofs` | `OpenIsRegisteredAlways`, `WritesAllowedAlways`, `ExitRemovesOwnAlways`, `EntriesAccountedAlways`, `ImplementsDatagramsAlways` | of the sum, from the components' invariants | the name without `Always` |
| | `SocketsAsAskedAlways`, `HandedUpOnceAlways`, `AcceptedOnceAlways`, `IndexesFollowTableAlways`, `FreshFindsItsSessionAlways` | the hopping socket, Salamander v2, disco | the name without `Always` |
| `MCNodeProofs` | `OnlineExactAlways`, `RoutedRightAlways` | of the sum, from the components' invariants | the name without `Always` |
| | `WindowInBoundsAlways`, `KnownUntilResolvedAlways`, `CorrectionsLandAlways`, `PortsReachListenerAlways`, `NothingHeldAlways`, `NothingLeftAlways`, `NoChangeMissedAlways` | the congestion controllers, both commands, proxied streams, the link monitor | the name without `Always` |

Assumptions. `PathSelect`: configurations are of the type `New` takes, the terms
of the threshold, bounds and round trips are naturals, the zero address is none of
the addresses. `Reconnect`: "nobody" is no goroutine. `ClientUDP`: there is at
least one identifier and one place in a channel; `RoutedRight` needs `FewSessions`
too, that fewer sessions are opened than there are identifiers, 2^32 in the code:
after that `NewUDP` overwrites the entry of a session that may still be open, and
`NeverSendsOnClosed` is what still holds. `ServerAuth`: finitely many connections,
or there is nothing to count. `ServerUDP`: the policy and the hook are about the
addresses there are, queue and cache have a place. `Gecko`: caps, the range of numbers and
the period of `gcLoop` are positive, a packet is cut into two chunks at least; nothing about
the rate or the range. `HopConn`: there is a port, and a place in the queue.
`SalamanderV2`: four buckets at least, as in the code, and a window of whole seconds
(30 s). `Disco`: the skew is
less than an epoch (30 s against 120 s); the window is positive. `BbrSender`: windows
are ordered, the datagram sizes have a least one, bandwidths and round trips are
positive. `BbrSampler`: the transport's packet threshold is at most 3, which is
quic-go's; `leastUnacked` subtracts 2 from the largest packet acknowledged because of
it, and with 4 the map forgets a packet that is in flight. `Brutal`: rates and round
trips are positive, there is a slot. `ServerStart`: port unions are what
`ParsePortUnion` returns, ranges in order with a gap between any two. `LinkMonitor`:
the times are positive and `MaxDelay` is no less than `Debounce`. The
configurations of the two commands are those `ServerConfigs` and `ClientConfigs` list;
of them the proofs only use that they are of the type the command reads. Bounds are
numbers.

### The path selector

`OnlySilenceCondemns` and the others compare the policy's memory with the
connection's real history, so none is inductive. `IInv` is `TypeOK` and
`Bookkeeping`:

- `OrderIsOn`: the policy already counts an order that is under way as done;
  `SwitchFailed` relies on it to know what to put back.
- `ClocksBehind`: no clock is in the future, so a silence is not negative.
- `GoneExhausts`: `ErrNoConnection` closed the list and left no order.
- `NothingYet`, `BehindIsNew`: nothing has been ordered on a connection the
  policy has not seen, whether it has seen none or last read a larger counter.
  They let a fresh start clear `tried` without losing the walk.
- `SwapShows`: a counter behind the last reading means a replacement.
- `QuietCovers`: if nothing was heard since the last reading, the silence clock
  began no earlier than the last sign of life -- the running clock and the one
  `SwitchFailed` would put back, which is why both are in it.
- `OrderedStruck`: all addresses ordered on this connection are struck off but
  the one it is on or bound for. `Untried` excludes these two, so an order is new.

`WInv` adds what giving up needs. `GiveUpGrounded`: a give-up stands on a list
that has run out and a silence that has lasted, until there is a sign of life.
`Pace`: once a poll has followed the last event, `Due`, the earliest poll that can
condemn the path, plus a threshold for each candidate untried, is within
`Deadline`. A move adds a threshold and takes a candidate away; a refused one puts
the older silence clock back, so the next poll moves on at once; one that fails half
way (`SwitchDiesInReset`) leaves the connection where the policy does not expect it,
which costs a poll, but ends the walk: hence the `+ 2` in `WalkTime`.

`Poll` disturbs all of them; its case is split into what `Absorb` makes of a
reading (`AbsorbSample`, `SilentReading`) and what `ObserveLive` may answer
(`ObserveLiveCases`, `Judgement`). `FirstMember` shows, by well-foundedness, that
`next()` returns a candidate of a non-empty set.

### The reconnecting client

`HeldAndWhole` says that a client nobody holds is closed and one in use is whole.
It needs the locks: `DialsAlone` (whoever holds `m` dials, and `client` is nil
meanwhile), `OneSwitchEach` (`pathMu` of a client is with the goroutine inside its
`SwitchTo`), `PickedBefore` (a goroutine acts on a client that was dialled before),
and the progress of a switch, `RestoredSoFar`, which is what makes the client whole
when the lock is released; `DropsBlamed` says why a live client may be dropped.

### UDP sessions of the client

`TableOpen` (the table has open sessions under their own identifier), `FeedsTable`
(the session `feed` looked up stays in the table, since `feed` has the read lock),
`OwnMessages` and `EndedIsClosed`. With `FewSessions`, `InSequence` says that
identifiers were given out in order and are all different.

### Authentication

`OneAtATime` is what `authMutex` gives, `IdentityKnown` and `ToldIsSettled` that the
identity is stored before anybody is told and does not change after. The exact
count is then shown per step: `LogOnline` adds a connection that was not among a
user's, the end of the connection removes one that was.

### UDP sessions of the server

`TableExact`: the table has exactly the sessions whose `ExitFunc` has not run. To
keep it one has to know who may run `ExitFunc`: `LifeInOrder` (closing comes before
leaving, and whoever dials holds `connLock`, so nobody closes meanwhile) and that
one goroutine at most -- the sender, the receiver, the cleaner or `Run` -- owes a
session its `ExitFunc`, the one whose `CloseWithErr` found it open. An entry is used
for a new session only when no goroutine refers to it (`UnusedIsFree`). That `Run`
leaves nothing open rests on the last cleanup's list having every session still in
the table. `WritesAllowed` has its own part: what the cache remembers is the
policy's answer, and the override address was accepted.

### Gecko

`TableOK` has the books: finite, one entry per key, `perSource` a count, both caps.
`EntryOK` and `FrameOK` say that what each entry holds and each chunk under way was sent by
its source, under its number and in its place, and how long ago at most (`PieceOK`). The
chunks of a complete entry are of one packet, which was then written whole, or two of them
are of different packets sent within `Hold` of each other, since the oldest is no older
than that and the newest no younger than now (`AssembledOK`): a `Deliver` of `Datagrams`
either way (`StepImplements`).

### The hopping socket

`HopInv`: a socket is open exactly when it is the current or the previous one of a
connection that is open (`HopOpen`; its loop has ended if a read failed), it bears what was asked for last (`HopSet`), and
so does what is kept for the next (`HopAsked`). That `SetDeadline` may be followed by
one for reading alone is why `HopAsked` needs `HopAll`: the next socket is given the
first and then the two others.

### Salamander v2

`HandedUpOnce` is about a datagram that comes back after its bucket was cleared.
`SaltKept`: a datagram handed up by this process is in the bucket that was turned to
k periods ago and bears no later time than was acceptable then, or is gone with that
bucket, k being the number of buckets. With four buckets of one skew each, what is
gone is no longer acceptable, within a second. This needs the clock: `SaltAsking` (while
the servers are asked, what their answers have to do with the time now, and how long it
has taken), `SaltClock` (what a correction amounts to while most of them were right) and
`SaltSet` (how far the set has turned, by whichever clock turns it); over restarts and
reconnections it is the boot barrier, `SaltBoot`, with the peer's lead.

### Disco

`WinAt` relates a replay window to the numbers it took: the bits are the ones among
the last `ReplayWindow`, and what was refused was one of them or older. `DiscoTables`:
both indexes are of the registered sessions, whose tags are the three around the
table's epoch. `DiscoTicker`: whoever holds `tickerMu` is at one of the three places
after taking it, and when no caller will look at the table again, the goroutine runs,
or is being started, exactly if a session is registered. `DiscoEpochs`: the table is of
this epoch or of the one a check ago, in which case the goroutine's tick is due. A
packet within the skew has a tag of one of three epochs, so it finds its session in
both cases.

### BBR

`BbrInv`: the congestion window is within its bounds after each helper of
`OnCongestionEventEx` (`BbrCore`, kept by one lemma per helper), the recovery window
above its minimum only once the handler has returned, if there is a recovery.

`SampInv` is the sampler's state with the transport's. `SampHeld`: what is in flight
is in the map. An acknowledgement that leaves a packet p in flight has a largest
packet below p + `PacketThreshold`, so the map is cut at or below p. `SampFilter`: a
filter's three estimates are ordered by value and by time; `Update` keeps that
because a sample that is inserted replaces those it beats, and one that ages is
replaced by the next (`SampInserted`, `SampAged`); the events the tracker stores again at
time zero keep it because all of them are then at zero. `SampAscend`: the candidates are
in order up to the point that would be appended next, which never goes back
(`SampRecentUpdate`). The packets of one event are taken in turn by a recursive function:
that it exists (`SampFoldExists`) and that each value of it keeps the invariant
(`SampAllPackets`) are shown by the least number for which it would not be so, from the
well-foundedness of the naturals, which stands in for induction.

### Brutal

`BrutalBooks`: a slot's second is at its place in the ring and no later than now, and
for every slot the losses remembered of its second are no more than it counts; so a
correction never takes away what is not there. Credit of an earlier rate is only there
while `SetBPS` is between its two stores or the request to drop it has not been seen.

### The server's firewall

`FwInv`: the rules in the kernel are those that were there before the process and
those its closers undo, or in a table or chain one of them failed to (`FwBooks`); while the commands are being given, the ones before
the next are done, in the order of `setupUDPPortRedirect` (`FwProgress`); a table or a
chain is there whenever something in it is (`FwSound`). `FwCommands` describes that
sequence of commands for any union: who comes after whom, and that each range but the
listener's has its rule.

### The client's start

`DialInv`: of an attempt that is over, one that is not up holds nothing unless
`NewClient` refuses its limits (`DialOver`); of the running one, the stage says what it
holds (`DialAt`).

### Proxied streams

`StreamInv`: where a handler is says which ends are open, what was logged and what the
client has been sent, per stream (`StreamAt`); a step on one stream leaves the others as
they are, and a connection that ends only excuses what was not sent.

### The link monitor

`LinkInv`: with what the properties say of the counts and of what the consumer has not
seen, where the loop is says whether there is an event to hand over (`LinkHand`), and a
burst that is held has a timer that ends within `MaxDelay` of its first change
(`LinkHeld`).

### The sums

A step of a sum is a step of one part with the other parts' variables unchanged
(`PartsStep`), so the inductive invariants of the parts are invariants of the sum
(`PartsAlwaysHold`), and the properties follow with the components' own lemmas.

### Only model-checked

Liveness (`CallsEnd`, `StaysReachable` and the temporal properties of the run
Lifecycle): the prover does not do fairness or ENABLED. `Intact` and
`UndisturbedCompletes` of `UDPFrag`, `PunchedPathWorks` and `PunchableIsPunched` of
`RealmPunch`, and `NothingLeftBehind` of `RealmServer` are invariants without a proof:
the first two compare byte sequences cut and joined by folds, the next two are about
searches that end by a bounded number of probes, which `RealmPunch` only has on a
small port space.

## 6. Not modelled, and the plan

Left out for good: the wire codec, padding and byte formats of sniffers, which are
functions of byte strings without state; cryptography; web pages; the parsing of
configuration; sharing links; the speed test. BBR's floating point estimates are
small integers here, so nothing is shown about their precision.

Within the modelled parts: `Sample` reads statistics and address in two calls and
is one step; the bandwidth negotiation of the authentication headers; FastOpen's
deferred response; disco's padding to recent lengths; `StartPump` and `StopPump`,
which nothing calls; the BSD and Windows link watchers, which have the Linux one's
interface.

Seen only from their callers: outbounds, resolvers and ACL (they answer or fail),
the proxy listeners and the multiplexer they share (modes that run or fail). The
dual-stack race of the direct outbound, the fast-open connection and the UDP
forwarding table would be the next modules. The parts of a sum do not interact;
`Datagrams` is implemented by `Gecko` alone, and an abstract relay of payloads that
`ClientUDP`, `UDPFrag` and `ServerUDP` implement together is not stated.

Proofs left, in order: `NothingLeftBehind` of `RealmServer`, whose resources are
acquired and given back as in `ClientStart`; the table of `UDPFrag` (what it accounts
for, its caps), and then `Intact` with the sampler's way of doing induction;
`PunchedPathWorks`, from an invariant on what each NAT has mapped.
