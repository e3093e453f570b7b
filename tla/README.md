# A TLA+ model of Left4Proxy

Left4Proxy carries the UDP traffic of a Left 4 Dead 2 player to a game server
over whichever path is best: a direct one, one through a relay (frp, with the
PROXY protocol), or one punched through NATs. A *client* listens where the game
connects to, keeps several *candidates* (a socket and a server address each), and
sends game data over the best of them, inside an authenticated session. A
*server* opens the packets, keeps one upstream socket per session towards the
game server, and sends the replies back to where the player's data came from.

The modules here model what both programs do concurrently, over a network that
loses, repeats and reorders, and across crashes and restarts; TLC checks them on
small instances, and TLAPS proves for every instance each safety property TLC
checks there. Every definition is a translation of Go code; `PROJECT.json` names the
lines ("map").

## Inventory

| Component | State | Operations | Neighbours | What is hard | What makes it correct |
|---|---|---|---|---|---|
| Secure session `pkg/security/session.go` | send counter (atomic), exhausted, closed, keys, replay window | `NextSeq`, `Seal`, `Open`, `Close`, `ReplayWindow.Accept` | called by every goroutine of client and server that sends or receives | claiming a number, sealing and closing are separate steps of many goroutines; repeated and reordered packets; a counter that ends | no nonce twice; nothing sealed with wiped keys; each packet handed on once; nothing fresh refused |
| Handshake `client.go`, `server.go`, `session.go` | client: pending request, session, number of the adopted request; server: session table, response cache | `sendHandshake`, `handleHandshakeResponse`, `resetSecureSessionForReconnect`; `handleHandshake`, eviction, reaping | pinger and CLI send; every candidate's read loop adopts; the server's read loop answers | one request over several paths; late responses; restart of the server; reset in two critical sections; requests that age | one session per request; the first answer wins; client and server end with the same session |
| Server session `server.go` | allowed senders, return path, migration window, upstream socket, last activity | `handlePacket`, `forwardToUpstream`, `readUpstreamLoop`, `cleanupSessionsLoop`, `Stop` | read loop, reader per socket, cleaner, caller of Stop | the check, the opening and the forwarding of a packet are separate; sockets are replaced while their readers leave; Stop waits | one upstream port per session; both directions live; replies follow the last game data; Stop returns |
| Punch worker `server.go` | punch target and expiry, worker flag, wake token | `CmdPunchInit`, `punchProbeLoop`, burst | read loop and worker | a worker that leaves while a request comes in | one worker, no request lost, no worker left |
| Public endpoint `server.go`, `stun_client.go`, `upnp.go` | published endpoint, UPnP cleanup, STUN transactions | `discoverPublicEndpointLoop`, UPnP task, `updateServerPublic*`, `broadcastPunchOffer`, `Stop` | read loop, two tasks, the sessions | two sources of one value; late reflections; Stop during the mapping | a mapped endpoint stays; the mapping is released; sessions are told |
| Client liveness `client.go` | per candidate: last activity, last handshake, online, path class; the session | `pingProbeLoop`, `candidateReadLoop`, `handleServerPacket`, reset | pinger and read loops | revival during a round; throttled handshakes; giving up the session | fail closed; come back after any outage, in every mode |
| Client route `client.go` | candidate list, best and previous candidate, mode | `SetMode`, `selectBestCandidate`, offers, `establishPunch`, `retirePunchCandidate` | CLI, pinger, a read loop per candidate, a prober per punch candidate | an operator's switch in the middle of offers and selections | relay-only leaves no punch socket; the route is listed and allowed |
| Choice by round-trip time `client.go:1175-1295` | best and previous candidate, end of the window of sending twice | `selectBestCandidate` | pinger and read loops call it; it reads measurements of others under their own locks | what it read changes before it installs; ties and thresholds | a selection nothing disturbed leaves no worthwhile improvement behind |
| Game socket `client.go:1298-1400` | address of the game | `localReadLoop`, `writeGamePacket` | copies the route, sends over it without a lock | the route changes, and changes back, between copy and send | a datagram never takes one path twice, nor one the mode forbids |
| Client start and stop `client.go:223-360, 1919-1970` | tasks registered under `lifecycleMu`, the gate, sockets | `Start`, `startTask`, `Stop` | readers, probers, bursts, NAT detection, hole puncher, operator | Stop between any two steps of a creation | Stop returns, and leaves neither socket nor task behind |
| PROXY sources `server.go:436-603`, `pkg/proxyproto` | state per source, trusted networks; per session the source and address it was made under | observe, record, prune, parse, classify | read loop, cleaner | headers that come once per flow, lost or late; a bounded table that forgets; sources used again | a session is told relay or direct, and its address, as its handshake came |
| Shared secret file `pkg/security/secret.go` | the key file, temporary files | `LoadSecret` | other processes on the same directory, kills and power failures | creation by several at once, cut anywhere | whoever runs, runs with the one key |
| Hole puncher `pkg/stun/holepunch.go` | timer goroutine | start, stop, set session | started and stopped by the client | | ends before Stop goes on |
| STUN validator `stun_client.go:100-250` | pending transactions | add, validate, expire | the server's discovery | late and repeated answers | in `PublicEndpoint` as far as the server uses it |
| NAT detector `pkg/stun/nat_detector.go` | one flag in the client | detect | start and operator | asked for twice, or during Stop | one at a time, none after Stop |
| Router `pkg/router` | metrics and activity per path class | `UpdateMetrics`, `SetInactive`, `SetMode` | display and logs only | one entry per class, several candidates | the display follows the candidates |
| Transport wrapper, endpoint normalisation, codec, configuration, CLI, terminal, mains, build script | small or none | | | see "Not modelled" | |

## Modules

| Module | Models | State and actions |
|---|---|---|
| `OnceChannel` | the promise of one direction of a session: a number is sealed at most once, delivered at most once, and only after it was sealed | abstract |
| `SessionAgreement` | the promise of the handshake: an ID is issued once, a request has one live session, the client holds only issued sessions and goes from one to another only by giving it up or for another request | abstract |
| `SlidingWindow` | the replay window as a set of offsets from the newest number | `Fresh`, `Commit` of `ReplayWindow.Accept` |
| `ReplayWindow` | the same with the code's shifts, masks and unsigned arithmetic | one action for an accepted, one for a refused number |
| `SecureSession` | a sender with several goroutines, the network, a receiver with several | one action per lock held or atomic operation: the gate, load, exhaustion and compare-and-swap of `NextSeq`; `Seal`; key check and `Accept` of `Open`; `Close` at both ends |
| `Handshake` | client and server agreeing on a session | `sendHandshake` in its two parts; reset in its two; verification and adoption of a response apart, as two locks guard them; `handleHandshake` with and without a cached response, and with eviction; reaping, pruning, restart, ageing |
| `ServerSession` | one session until the last goroutine that holds it has ended | a datagram that is read (`ReadDatagram`) and perhaps handled after Stop has cancelled; `handlePacket` cut at its critical sections (`Receive` or `Discard`, `OpenPacket`, `Authorize`, `SetReturnPath`, `Dial`/`Write`), the readers, purge by cleaner, eviction or Stop in three steps under `sessionMu`, `Stop` |
| `PunchWorker` | CmdPunchInit and `punchProbeLoop` | the handler's four steps, each branch of the worker's select, each probe of a burst, the end of window, session and server |
| `PublicEndpoint` | STUN discovery, UPnP, handshakes and Stop | read loop, UPnP task with each of its requests to the router (discovery, mapping, external address, undo), discovery loop and Stop, cut at `serverPubMu`, `sessionMu` and `lifecycleMu`; the NAT, the router and the STUN server outside |
| `Reconnect` | the pinger's rounds against the read loops | `Tick`; per candidate what the pinger reads of it (`Look`) and, in a later step, what it stores (`StoreOnline`, `StoreOffline`), so that a read loop's revival in between is overwritten; the end of a round; Pong with and without PathHint, handshake response, an established punch; faults of paths, datagrams and server |
| `ClientRoute` | candidates, route and mode | SetMode, selection, retirement, creation of punch candidates, cut at `candidateMu` and the candidates' locks |
| `RouteChoice` | `selectBestCandidate` and the game's reader | a scan that reads one candidate at a time (mode, liveness, round-trip time), the comparison with the current route, the window of sending twice; `localReadLoop`'s copy and its sends; measurements, silence and `SetMode` at any point |
| `Lifecycle` | the client's tasks and sockets | `Start` in its steps; a candidate's socket, entry, reader and prober as separate steps of whoever makes it; retirement; NAT detection; `Stop` in its six steps |
| `ProxySource` | the server's table of sources | a datagram with or without a header (`observeProxySender`, acceptance, `classifyPacketPath`, handshake), pruning, end of a session, restart; relays that open flows, lose headers, and use a source again |
| `SecretFile` | `LoadSecret` of several processes | one action per system call (read, create, write, sync, link, reread); the directory is not synced; kill and power failure at any point |
| `ServerParts` | `PunchWorker`, `ReplayWindow`, `ProxySource` | one run of three parts |
| `SecretAndRoute` | `SecretFile`, `RouteChoice` | one run of two parts |
| `ClientParts` | `ClientRoute`, `Lifecycle` | one run of two parts |
| `SecureSessionProofs`, `HandshakeProofs`, `ServerSessionProofs`, `ServerPartsProofs`, `PublicEndpointProofs`, `ReconnectProofs`, `SecretAndRouteProofs`, `ClientPartsProofs` | theorems about the module or composition they are named after | |

`SecureSession` uses `SlidingWindow` and instantiates `OnceChannel`; `Handshake`
instantiates `SessionAgreement`, with all answers in the network as the sessions
issued and those of them in the server's table as live. The others
stand on one another by abstraction: `Reconnect` takes a handshake for one
exchange that `Handshake` shows in detail; `ClientRoute` takes liveness and path
class as changing freely, which `Reconnect` determines, and the choice among
eligible candidates as free, which `RouteChoice` makes; `Lifecycle` takes
retirement for two steps that `ClientRoute` orders; `Reconnect` takes the class a
Pong tells as given, which `ProxySource` decides; `ServerSession` and
`PunchWorker` see authentic packets only, which `SecureSession` provides.

`ServerParts`, `SecretAndRoute` and `ClientParts` are not products: the parts they
hold share no state, so each behaviour chooses one part that runs while the
others stay where they begin. A property of one part holds in the whole exactly
if it holds of that part alone, and the states are the sum, not the product.

Where a run needs no definitions besides constants, its `.cfg` instantiates the
module directly. Operators marked "mutant" next to a definition are plausible
mistakes in that definition; no specification uses them, and each makes TLC
refute one property (`PROJECT.json`, "mutants").

## Runs

| Run | Shows | Bounds, and why they do |
|---|---|---|
| `session` | nonces are unique, wiped keys seal nothing, delivery at most once, refusals justified, `SecureSession` implements `OnceChannel` | two writers race for a number, two readers for a packet; three numbers, so that the counter ends and the window of two slides; 486 000 states |
| `handshake` | one live session per request, `Handshake` implements `SessionAgreement` (so no swap within a request), agreement in the end | two senders and a reader (for several see `HandshakeProofs`); one fault (restart, reaping, eviction, outage) and one request that ages; five requests and seven sessions are more than any behaviour with these faults needs, which the run shows by passing: with fewer it fails by running out; 173 000 states |
| `server_session` | one upstream socket, read until closed; a reply is addressed to where the last game data came from; Stop returns | two sources, so that a candidate can differ from the route; two sockets, so that an old reader meets a new socket; 362 000 states |
| `server_orphan` | a purged session can acquire a socket (known problem 1) | one source, two sockets |
| `server_parts` | one punch worker, a burst for each request, the worker ends; the replay filter's bit arithmetic is the sliding set; a session is told its path and address right | *punch worker*: two targets, three requests (one that starts, one that retargets, one that meets the exit), two probes in a burst; *replay window*: a mask of five bits and fifteen numbers: jumps by less than, exactly and more than the mask; *PROXY sources*: a trusted relay and an untrusted source, two clients, three flows, so that a source is used again, and a table for one source, so that each new source drives the other out; 32 000 states |
| `public_endpoint` | UPnP wins, the mapping is released, sessions are told, the endpoint follows the NAT | one change of the NAT, two transactions so that an old answer meets a newer one; every request to the router may fail; 320 000 states |
| `public_endpoint_missed` | a session can miss the mapped endpoint (known problem 4) | one client |
| `reconnect` | after the faults a live session and a route, and every relay and direct candidate usable again; until then no route silent for longer than 15 s and a round, nor in a game a punched one for longer than 2.5 s and a round | a candidate of each class; two faults, so that one meets the recovery from the other; thresholds of two rounds keep the order (retry not longer than stale) and make the throttle of greetings pass over a round; a read loop may revive a candidate between the pinger's read and its store; 352 000 states |
| `reconnect_relay_only` | relay-only may never come back (known problem 2) | one relay, one fault |
| `reconnect_punch` | a punch candidate put offline in a game does not come back (known problem 3) | a relay and a punch candidate, no fault |
| `client_modes` | no punch socket survives relay-only; the route is listed; a forbidden route is on its way out; Stop returns and leaves nothing behind | *route*: two switches (out of relay-only and back), one punch candidate, of which the limit of listed candidates is tested too; *life*: one configured, one advertised and one punch candidate, the operator and every task; 462 000 states |
| `secret_and_route` | all processes run with one key; a game datagram takes no path twice and none the mode forbids; an undisturbed selection leaves no worthwhile improvement behind | *secret*: two processes, two keys, two kills or power failures; *route*: two candidates, a relay beside a direct path and a punched path beside one in the LAN; round-trip times 39, 44, 48 around a margin of 5: less than, exactly and more than it apart; 2 371 000 states |

Deadlock is checked in every run: a system that has stopped (`Stopped`, `Ended`)
stutters explicitly, so any other standstill is reported.

### Fairness

Fairness stands only where the code provides it.

* `Handshake`: the pinger runs on a ticker, readers and the server's loop run
  when a datagram is there, and a datagram that is repeated for ever gets
  through. Strong fairness of `SendRequest` says that drawing random bytes does
  not fail for ever. Restarts, reaping, eviction and outages are bounded by
  `MaxFaults`; nothing else ends them.
* `ServerSession`: goroutines that can run do. The reader's exit is strongly
  fair, since it looks at its socket between any two reads, which time out after
  a second; so is Stop's wait for `sessionMu`, as Go's mutexes do not starve a
  waiter. No packet need ever arrive.
* `PunchWorker`: a `select` chooses among ready branches at random, so a branch
  ready again and again is taken in the end. The window need not ever close.
* `PublicEndpoint`: requests are repeated for ever, and not all are lost.
* `Reconnect`: the ticker ticks, the pinger goes through its candidates and
  stores what it has decided about each, an outage ends, what is sent on a working path
  is answered within a round unless its loss is one of the counted faults.
* `Lifecycle`: once Stop has closed the gate some goroutine that can run does.
  This is one weak fairness for all of them together, the weakest there is; it
  suffices because what is left to do is bounded. Before Stop nothing is assumed.

`SecretFile`, `RouteChoice`, `ProxySource` and `ReplayWindow` claim safety only. In a
run of several parts the fairness of one asks nothing of the others: what a part
is fair to is never enabled where that part begins.

## Proofs

| Module | Theorem | For every |
|---|---|---|
| `SecureSessionProofs` | `TypeCorrect`, `NonceUniqueness`, `WipedKeySealsNothing`, `AtMostOnceDelivery`, `RefusalIsJustified`, `SessionImplementsOnceChannel` | number of writers and readers, window, counter width |
| `HandshakeProofs` | `TypeCorrect`, `RequestHasOneSession`, `FirstAnswerWins`, `HandshakeImplementsAgreement` | number of senders, readers, requests, sessions and faults |
| `ServerSessionProofs` | `TypeCorrect`, `OneSourcePort`, `BothDirectionsLive`, `RepliesGoToGame` | number of sources and upstream sockets |
| `ServerPartsProofs` | `PartsTypeCorrect`, `AtMostOneWorker`, `ArithmeticRight`, `ToldRight` | number of goroutines, targets, requests, length of burst; width of the mask, number of packets; sources, trusted or not, clients, flows, size of the table |
| `PublicEndpointProofs` | `TypeCorrect`, `NoMappingSurvivesStop`, `ReflectionNeverWins`, `SessionsAreTold` | number of clients, endpoints, transactions, changes of the NAT |
| `ReconnectProofs` | `ReconnectTypeCorrect`, `FailsOverFast` | number of candidates of each class, thresholds, faults |
| `SecretAndRouteProofs` | `BothTypeCorrect`, `AllShareOneKey`, `SentOnceAndAllowed`, `SelectionNearBest` | number of processes, keys, kills and power failures; number and class of candidates, round-trip times, margin |
| `ClientPartsProofs` | `PartsTypeCorrect`, `RouteIsListed`, `NoPunchUnderRelayOnly`, `ForbiddenRouteEnds`, `NothingForgotten` | number of endpoints, punch candidates, sockets, switches; initial mode; length of the list |

Every invariant, action property and refinement of a passing run is a theorem of the
specification that run checks; only liveness is not. The theorems about a run of
several parts are proved part by part: a step of one part leaves the variables of
the others alone, so the invariants of the parts together are inductive.

The assumptions are those named in the modules (`WindowAssumption`,
`HandshakeAssumption`, `ServerSessionAssumption`, `PunchWorkerAssumption`,
`PartsAssumption`, `PublicEndpointAssumption`, `ReconnectAssumption`,
`RouteAssumption`, `ClientRouteAssumption`, `LifeAssumption`): bounds are natural
numbers, sizes are not zero, and names that stand for "nothing" are not among the
things they stand beside. The runs evaluate each of them.

*Session.* That no number is sealed twice is not inductive: a writer between its
compare-and-swap and `Seal` holds a number that is not sealed yet. The invariant
adds that numbers held and numbers sealed are different from one another and not
above the counter; since the counter never wraps (the gate, and the check of the
loaded value), a successful swap claims a new one. At-most-once delivery needs
that the window remembers everything delivered that it would still accept. The
refinement follows: each step seals one number, delivers one, or is a stutter.

*Handshake.* Answers stay in the network for ever, so the invariant relates them
to what the server remembers: a live session that an answer names is the one
cached for its request, or the request is too old to be answered again (`Cached`);
so no two answers to a request name live sessions (`OnlyOne`). The
adoption rests on `Accepted`: the number the client compares late answers with is
its session's own. The refinement adds that whatever the client holds, or a reader has
verified and not yet adopted, the server sent (`HeldSent`): readers may hold
answers across resets and restarts, and no step takes an answer back. A new
session maps to an issue because its ID is above all in the network and because
`Cached` leaves its request no live session, unless it is too old to be answered. `FirstAnswerWins` (a session
in use is never swapped for another of its request) is a corollary: only giving up
or another request changes what the agreement's client holds.

*Server session.* A reader unpublishes its socket one step after it decided to
leave, and Stop closes what is published. The invariant says that while the
server runs an open socket is the published one and is read, that a reader which
leaves does so from a closed socket, and, by itself, that at most one is open.
`RepliesGoToGame` follows the return path itself: it is the source of the last game
packet, except between the two steps in which the read loop lets one through and
takes its source over, and then the packet at hand has that source
(`PathFollowsGame`).

*Punch worker.* A second worker would appear two steps after the decision that
one is needed. The invariant says that `punchWorker` is set exactly when a worker
runs or the handler has promised to start one, and that these exclude each
other; the worker that leaves clears the flag rightly because it was the only
one and nothing was promised.

*Public endpoint.* `Owned` gives the mapping one owner at a time: the UPnP task,
which publishes the cleanup or undoes the mapping itself, then `upnpCleanup`, which
only Stop takes, and not before the gate is closed. `Fixed` says that a mapped
endpoint is announced only under a published cleanup, to which reflections defer.
`Told` says that outside a broadcast the sessions know what STUN found, and within
one that what is being sent is what they lack.

*Replay filter.* That the mask stays in its word is inductive, and implies the
property; the work is in what a shift, a truncation and an addition do to single
bits (`BitOfShifted`, `LowBits`, `BitOfSet`): the bit at offset k is the parity of
the quotient by the k-th power of two, so multiples of higher powers do not
disturb it and adding a power where the bit is clear carries nothing upwards
(`SameAbove`). The library's induction theorems take an operator as a parameter,
which the provers cannot instantiate; what is needed of the powers is proved from
the least counterexample instead, which exists because < on the naturals is well
founded (`LeastNat`). That includes that the recursive function `Pow2` is one
(`Pow2Rec`): finite tables of powers exist, agree, and so make up a function with
that equation, which is what CHOOSE then picks.

*Liveness of paths.* `FastFailover` speaks of the last step of a round. `Sifted` says
that in a game each punch candidate the round has visited is offline or was heard
lately, however the read loops revive them in between; of the one between read and
store it says that, if the pinger is about to put it online, it was heard, which no
other step takes back. So what the selection takes at the end was heard.

*Choice of the route.* A datagram the game's reader has copied was sent nowhere
before its first sending, and over the current path at most before its second
(`SentSoFar`); each sending looks at the mode again. The selection's candidate is the best of
those it has read, as long as nothing changed (`FoundBest`); from there to the margins
of `Keeps` it is arithmetic.

*Client route.* What each property lacks is who still has to act. A retired
candidate is listed only while a goroutine is about to remove it (`BeingRemoved`);
under relay-only SetMode knows what it has yet to retire, and nothing is appended
meanwhile, since the mode is SetMode's own (`YetToRetire`, `SetterPlaces`); and a
selection that read another mode than the current one leaves SetMode waiting to
select after it (`SetterWaits`).

*Start and stop.* Who owns a socket changes hands: its maker, the candidate list, its
reader, the operator. `ReadersListed` says that a registered reader's socket is in
the list Stop goes through, or closed by then; `MakersKnow`, for each step of
making a candidate, whether its socket is listed, read or closed by now; and
`Undone` that what Stop has closed and waited for does not come back.

*Secret file.* The file is linked only after its contents were synced
(`SyncedBeforeLink`), so what is in it, on disk or in the cache, is a whole key
(`OnDisk`); and what a process has read or created and not yet run with is what
the file holds (`ReadIsCurrent`, `LoadedIsKey`).

*PROXY sources.* What a datagram is told depends on the table or on the session.
The table's entries are true of the flows, as far as there are entries (`TableTrue`),
and the session holds what it was made under (`SessionTrue`); of order and size of
the table nothing is needed there. That the table holds each source once, and no
more than its bound, is `RecentOK`: moving a source to the end removes its one
occurrence first, and only what was new makes the oldest leave.

Only model-checked: liveness under fairness (`Reconnects`, `AllRecover`, `StopReturns`,
`Probed`, `WorkersEnd`, `FollowsNat`), which needs ENABLED and this prover cannot do;
and the runs that expect a violation. No module uses a RECURSIVE operator.

## Known problems

1. **A purged session can acquire a socket** (`server_orphan`). A game packet
   opened before the cleaner purges its session and forwarded after it dials a
   new upstream socket and starts its reader (`server.go:1299`). The session is
   out of the table, so nothing closes them before the server stops.
2. **relay-only may never come back** (`reconnect_relay_only`). Under relay-only
   the pinger greets only candidates without a path class (`client.go:1828`). After
   the session was given up one handshake goes to each candidate; if it is lost,
   a client whose relays were classified sends nothing any more.
3. **A punch candidate put offline in a game does not come back**
   (`reconnect_punch`). In a game a punch candidate is put offline when its last
   packet is older than 2.5 s (`client.go:1789`), which it always is at a tick
   three seconds after the last ping. The pinger leaves greeting it to its
   establishing goroutine (`client.go:1823`), which ended when it was
   established; so there is no ping, no greeting, and no fallback to it while the
   game runs. For up to 30 s after the last PunchInit the server's own probes still
   keep it heard (`server.go:907`); `Reconnect` leaves them out, and the run shows
   what happens after that.
4. **A session can miss the mapped endpoint** (`public_endpoint_missed`). The UPnP
   task broadcasts while the read loop has read the endpoint for a handshake's
   response and has not listed the session yet (`server.go:1027`, `1050`). Between
   the read loop's own steps this cannot happen (`DiscoveryReachesSessions`).

Observed while reading, without a run of their own:

* A Pong alone makes an unclassified candidate a relay (`client.go:1657`); if the
  PathHint before it is lost, relay-only may use a direct path until the next.
* The comment at `server.go:1206-1212` says that a multiplexing relay cannot mix
  one client's address into another client's session; but while the table knows
  the source its address is preferred (`1214`), whoever's header brought it.
  `PathToldRight` claims the address only while one client used the source.
* After a restart of the server, or when the header was lost, a relay's flow is
  classified as direct until a new flow brings a header.
* Releasing the UPnP mapping is best effort (`src/README.md:167`): a mapping whose
  answer was lost is not undone, and `MappingReleased` speaks of those the router
  confirmed.
* Selection: a LAN candidate is hidden if the lowest round-trip time is a WAN
  candidate's and the margin is not reached; between two LAN candidates there is
  no hysteresis. `NearBest` states what is left of "best".
* The operator's goroutine is not among those Stop waits for; it closes the socket
  it was making by itself (`NothingRemains`). That `startTasks(3)` is refused in `Start`
  cannot happen, since Stop waits for Start.
* The cleaner may delete a session that a packet has just refreshed
  (`server.go:1430`); the client reconnects.

Hazards met by no property, and not in the list of `PROJECT.json`: the full
response cache (`server.go:1053`), `allowedSenders` that only grows (`1238`), a
reader that unpublishes its socket at Stop without closing it (`1325`, the socket
closes with the process), an offer of the reflected endpoint that is sent after
that of the mapped one (`656`), two offers of one endpoint on two read loops
(`client.go:636`), and the display's entry per class (`1818`).

## Abstractions

* Cryptography: a packet verifies exactly under the key that sealed it; nonces
  of requests are fresh; session IDs do not repeat, as the server's counter
  starts at a random place.
* Clocks: client and server agree; ages are counted in the classes the code tells
  apart.
* The response cache is taken not to be full (4096 new requests in two minutes).
* `Reconnect` and `ClientRoute` leave round-trip times out: any eligible candidate
  may be chosen. In `RouteChoice` candidates stay, and keep their class; their
  times, their liveness and the mode change freely.
* `ProxySource`: addresses are those of sources and clients themselves; a header
  names its client, names nobody, does not parse, or is absent. Pruning drops any
  number of the sources unseen for longest.
* `Reconnect`: a candidate's class, which the pinger reads twice in a row
  (`client.go:1774`, `1777`), is read once; the server's probing of a new punch
  candidate is left out (known problem 3).
* `SecureSession` has one session object at each end. A client that verified a
  response before a reset and adopts it after makes a second object with the same
  keys, whose counter starts anew; `NonceUnique` does not speak of the two together.
* `PublicEndpoint`: a delete the router is asked for is taken to succeed.
* `SecretFile`: a power failure loses what was not synced, or keeps it; a process is
  killed between two system calls.
* `Lifecycle`: each punch candidate is made at most once, and switching modes is
  making and retiring candidates.
* A message is its command and source; formatting and logging are left out.

## Not modelled

The router is display only: no packet is forwarded by it. The transport wrapper is
used by no other package. The classification of the NAT is sequential and only
shown; endpoint normalisation, codec and configuration are string and byte
handling without state; CLI, terminal and mains are input and output; the build
script cross-compiles. Of modelled parts: the STUN exchange of a punch socket,
which local socket a reply goes to, the hole puncher's target (no probe uses it),
the bounds of `allowedSenders` and of the log tables.

## Plan

1. Abstract specifications of what a component promises, and the detailed ones
   proved to implement them, as `SecureSession` does `OnceChannel` and `Handshake`
   `SessionAgreement`: for `ServerSession` one socket at a time, for `SecretFile` one
   key, which only a power failure that nobody survives may lose.
2. A larger instance of `ClientRoute`, with two punch candidates and one socket per
   endpoint, for offers that race one another.
3. `Router`, composed with the liveness of candidates.
