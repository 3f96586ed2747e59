# A TLA+ verification of kinbridge-server

kinbridge-server is a rendezvous server (`hbbs`), a relay server (`hbbr`), a
small HTTP API (`kinbridge-api`) and a desktop program for Windows that controls
the servers (`ui`). Clients register an id, a machine uuid and a public key with
hbbs; a client A that wants to reach B asks hbbs, which tells B and passes B's
answer to A; if no direct path exists both connect to hbbr with the same uuid
and are joined. kinbridge-api hands the short-lived tokens out that start a
session.

This directory models the state those programs keep, checks it with TLC on
small instances, and proves the central properties with TLAPS for every value
of the constants. Every definition names its lines in `PROJECT.json` (`map`).
Operators called `Mut_...` are not part of any specification: each is a
plausible bug in the definition that follows it, and shows that a property is
able to fail.

## Inventory

| component | state | operations | what makes it correct |
|---|---|---|---|
| IP blocker (`rendezvous_server.rs`, `peer.rs`) | `IP_BLOCKER`: per address a request counter and a set of ids, each with a time | `check_ip_blocker`, command `ib` | bounded bursts and ids per window; a block ends by itself |
| Peer registry (`rendezvous_server.rs`, `peer.rs`, `database.rs`) | `PeerMap` in memory, table `peer`, `IP_CHANGES` | RegisterPeer, RegisterPk, loads by spawned tasks, command `ic`, restart | an id stays with its machine; keys come from their machine; memory and database agree; online means reachable |
| Hole punching (`rendezvous_server.rs`) | `tcp_punch`: address to the write half of A's connection | PunchHoleRequest, RequestRelay, PunchHoleSent, LocalAddr, RelayResponse, refusal, end of the connection | the answer reaches the asker, once; no sink is leaked |
| Relay server list (`rendezvous_server.rs`, `common.rs`) | `relay_servers0`, `relay_servers`, the `Data` channel | timer, `check_relay_servers`, commands `rs` and `aur` | never without a relay; settles on those that answer |
| Punch log and online status (`rendezvous_server.rs`) | `PUNCH_REQS`, the time of each peer's last registration | PunchHoleRequest, OnlineRequest, command `pr` | no close duplicate, no request unseen; the bit of a peer is its state |
| Pairing (`relay_server.rs`) | `PEERS`, `USAGE`, one task per connection | RequestRelay, 30 s timer, relay begins, reports, ends | exclusive pairs; nothing parked for ever; reports follow relays |
| Relay traffic (`relay_server.rs`) | the locals of `relay`, `BLACKLIST`, `BLOCKLIST`, the settings | the select loop, limiters, the commands, `check_params` | tables obeyed with bounded delay; a downgrade is earned; silence ends a relay |
| Key file (`common.rs`) | `id_ed25519`, `.pub` | `gen_sk` of hbbs and hbbr | one key over all crashes and restarts |
| Sockets and watchdog (`rendezvous_server.rs`) | sockets, unanswered probes | start, re-binding, `test_hbbs`, signals | a dead server ends, a living one does not |
| Sessions (`kinbridge-api`) | tokens and keys in flight | start, resolve, end | live keys for the right session |
| Event sockets (`kinbridge-api`) | `EventHub` | `/ws/events` | sockets end with their session |
| Desktop UI (`ui/`) | two bounded channels, state of presenter and view, running scripts | presenter, view, page, watcher, service scripts | the view follows the presenter; exit and status get through |

Components meet as follows. hbbs is one `io_loop` (UDP, timer, channel) plus a
spawned task per TCP connection and per UDP punch request; all share `PeerMap`,
`tcp_punch` and the static tables through async locks, and are interleaved at
every `await`. RegisterPk goes through the IP blocker and then the registry; a
punch request goes through the registry (a load from the database if needed),
the online test, the punch log and then `tcp_punch`. Tasks reach `io_loop`
through the `Data` channel. hbbr is one task per connection over `PEERS` and
`USAGE`; a task that found its partner runs `relay`, which reads the tables the
commands write. kinbridge-api is single-threaded and interleaves at `await`.
hbbs and hbbr share only the key file. The desktop program is three threads and
the scripts it starts.

What is hard: values read before an await and used after it (loads, relay
checks, token verification); locks released between two steps of one operation
(lookup and park in hbbr); timers that outlive what they were set for; a task
that does not look at its tables while it waits elsewhere; tables keyed by an
address that several clients share behind a proxy; two stores or two files
written one after the other; bounded channels in both directions; and counters
and casts at their edges. `hazards` in `PROJECT.json` lists each at its line
with the properties aimed at it.

## Modules

| module | models | theorems |
|---|---|---|
| `IpBlocker` | `check_ip_blocker`, clean-up | `IpBlockerProofs` |
| `PeerRegistry` | memory, database and log of peers | `PeerRegistryProofs` |
| `HolePunch` | `tcp_punch` | `HolePunchProofs` |
| `RelayServers` | the relay lists | `HbbsListsProofs` |
| `PunchRequests` | online test, online bits, the `i32` cast, `PUNCH_REQS` | `HbbsListsProofs` |
| `RelayMatch` | what pairing promises (abstract) | implemented by `RelayPairing` |
| `RelayPairing` | `make_pair_` and its tables | `RelayPairingProofs` |
| `RelayTraffic` | the loop of one relay | `RelayTrafficProofs` |
| `ServerLife` | key file, start, re-binding, watchdog of both servers | `ServerLifeProofs` |
| `SessionApi` | session endpoints | `UiAndApiProofs` |
| `DesktopUi` | presenter, view, watcher, service scripts | `UiAndApiProofs` |
| `MC_*` | instances for TLC | |

How state and actions correspond to the code:

* **IpBlocker.** `ipBlocker[ip]` is the entry of `IP_BLOCKER`; its times are
  ages that stop one past their window. `CheckIpBlocker` is one call under the
  lock: `AfterCheck` is the new entry with the early returns, `Passes` the
  result. `burst`, `lull` and `seen` are history: what was really let through.
* **PeerRegistry.** `mem` is the `PeerMap`, `db` the table, `ipChanges` the
  log. `io` is the program counter of `io_loop` inside RegisterPk: it stops at
  the query of `get_or`, between the write of memory and the write of the row,
  and before the answer OK, which a crash or a failing send may lose. `task` is
  a spawned punch request that looked up an id, queried the row and has not yet
  inserted it. `DbFaults`, chosen from `FaultModels` when a behaviour begins,
  says which queries may fail in it. `Restart` empties memory and keeps the rows.
  `uptime` is how far the clock can go back: `ExpiredAge` is an hour if it can,
  and nothing otherwise (`unwrap_or(now)`). `owners`, `lastPk`, `unanswered`
  and `raced` are history: the machines an id was confirmed for, the key last
  confirmed, a key stored since whose OK was not sent, and whether a load
  replaced an entry newer than the row it had read.
* **HolePunch.** `pc[c]` is the task of a connection, `sink[c]` where its write
  half is, `tcp_punch` the table, `signals` what was forwarded to peers, who
  answer whenever and as often as they like. An answer takes the sink out of the
  table (`SendToTcp`) and is written to it later, by another task (`Write`);
  only a refusal is waited for by its own task (`Refused`). A connection may ask
  any number of times. `AddrOf` gives the address a connection is filed under;
  behind a proxy several have one. Websockets (`Ws`) are never sent
  FetchLocalAddr.
* **RelayServers.** A check holds the list it is about, the servers still to
  probe and those that answered. `up` is which servers accept a connection.
* **PunchRequests.** One action per request. `elapsed` keeps the width of the
  cast: `HALF` stands for 2^31 and `AsI32` wraps. Both handlers use the one test
  `AsI32(...) < REG_TIMEOUT`; only the punch request loads a peer and records.
  `peers`, `states` and `punched` are the last answers, until something happens.
  A byte of `states` is the set of its bits that are 1; `BitOf` is the shift
  `7 - i % 8`. Two simplifications: any id may register at any time (what
  `update_addr` asks of it is in `PeerRegistry`), and an OnlineRequest looks at
  all its peers in one step, where the code awaits a lock for each; the bit of a
  peer depends on that peer alone.
* **RelayPairing.** One task per connection with the steps of `make_pair_`:
  lookup (one lock), park (another), sleep, wake and remove by uuid; or enter
  the relay, report, leave. A relay may report and end at any time. A connection
  name is used again when its task is over and its stream closed or taken.
* **RelayTraffic.** The select (`Recv`, `Closed`, `TimerTick`, `Timeout`), the
  wait for the limiters (`Charged`), the write to the other side (`Sent`) and
  the rest of the loop are steps: `NoLook`, or `Measure`, the lock of BLOCKLIST
  (`Blocked`, `NotBlocked`), the lock of BLACKLIST (`Look`), the lock of USAGE
  and the comparison (`Judge`). Time passes only while the task waits, for a
  lock up to `LOCK_WAIT`. `elapsed` counts milliseconds of `MS` units and loses
  what `as_millis()` truncates and what the locks take between the measurement
  and the new `tm`. `due` keeps tokio's rule that a late timer fires at once.
  How long a limiter makes a message wait is arbitrary.
* **ServerLife.** `pc[s]` is how far a process is between two calls on the key
  files; `Killed` may end it anywhere, `FileFails` and `OpenFails` make a call
  fail. `WaitOver` may end hbbr's wait at any moment; `ahead` and `late` record
  whether an hbbs that was generating when it began is still at it. Of
  the watchdog, `quiet` are the seconds since `last_time_recv`, rounded up,
  `probe` and `answer` the datagrams under way.
* **SessionApi.** Handlers wait in `minting` for Headscale; tokens age and keep
  as history how long that took (`waited`).
* **DesktopUi.** `out` and `click` are events whose `send` has not returned; a
  full channel disables the step that ends it. The view handles a click inside
  an iteration of its loop, so it does not drain its channel meanwhile. Scripts
  run on their own once the command is given; any line may have no effect, and
  the script goes on. `faulty` is history: a line failed, scripts overlapped, or
  a restart changed what runs, since the last command that had the services to
  itself.

## Runs

| run | expects | asks |
|---|---|---|
| `ip_blocker` | pass | how many requests and ids get through, and do blocks end |
| `registry` | pass | identity, keys, log and reachability under a racing load, restarts, lost answers, failing queries and a clock that began at boot |
| `hole_punch` | pass | clients that share an address and one that does not: no leak, no second answer, the direct client gets its own answers |
| `hole_punch_proxied` | violation | does the peer's answer reach the asker behind a proxy |
| `relay_servers` | pass | no check empties a list that has servers; it settles on answering servers |
| `relay_servers_stale` | violation | are only configured servers handed out |
| `punch_requests` | pass | bits, byte edges, wrap of the cast; dedupe and coverage over the searched tail |
| `relay_pairing` | pass | exclusive pairing, refinement, reports, early drops, parked streams leave |
| `relay_traffic` | pass | black list, downgrade and silence of a relay, and does a blocked one end |
| `server_life` | pass | one key, and the watchdog ends what is dead and nothing else |
| `desktop_ui` | pass | view and presenter in step, services together, exit and status over full channels |
| `session_api` | pass | which keys resolve hands out |

The two violations are findings:

1. Websocket clients behind a proxy are filed in `tcp_punch` under their public
   IP with port 0. Two of them share an entry, and the answer for one is written
   to the other.
2. A relay check that began before the command `rs` and ends after it puts the
   old servers back. With a new list of at most one server no later check
   corrects that.

The passing runs also say precisely where the code is weaker than one might
read it:

* The limits of the IP blocker let two more through than their numbers.
* `ConfirmedKeyStored`, `MemoryMatchesDb` and `KeyOrAddressKept` hold until a
  spawned load replaces a newer entry (`raced`), and where no query fails;
  `IdentityPinned` and `KeysVouched` hold in spite of such loads. After a commit
  whose OK was lost the stored key is the later one, not the one last confirmed.
  `IdentityPinned` needs lookups and inserts that do not fail: a failing lookup
  makes a known id look new, in memory.
* `OnlineHasAddress` excepts a peer made or loaded while the clock was younger
  than an hour: it looks online, without an address, until `REG_TIMEOUT` is over.
* `SilentShownOffline` promises nothing after 2^31 ms of silence.
* `AnswersReachAsker` and `RefusalIsTold` are for connections that share their
  address with no other; the rest may lose an answer to another. An entry goes
  with an answer or with its task (`EntriesAlive`). Each message restarts the
  30 s of the read, so a client that keeps asking keeps its entry.
* `NeverWithoutRelay` is about configured lists that have servers. The command
  `aur` sends its argument as a new list, and if the word does not resolve the
  configured list is empty.
* `DowngradeFair`: `elapsed` runs behind the relay's true age, by less than a
  millisecond and the wait for the locks at each look. A relay that uses
  between the part `SECOND / STRETCH` of the threshold and all of it may be
  downgraded.
* `EarlyDropMeansReuse` allows a stream to be dropped before its 30 s if an
  earlier connection of the same uuid still has its timer running.
  `TcpRelayReported` excludes relays behind a proxy.
* `BlockedRelayEnds` needs both sides to keep reading: while `relay` writes to a
  side that does not, it looks at no table and no timer.
* `OneKey` needs that no call on the files fails (a file that exists and cannot
  be opened is replaced), that hbbs is not started into the wait or the
  generation of an hbbr, and that a generation of hbbs which hbbr's wait began in
  takes no longer than the 300 ms (`late`): otherwise each generates a key.
* `EndsOnlyTheDeaf` excludes a `test_hbbs` that did not get to run for a second:
  its select may take the tick before the answer that is waiting. It speaks of
  silence; an error of the test's own socket (`ProbeFails`) ends it too.
* `ExitWorks` and `StatusShown` exclude `Stuck`, which is reachable: the view
  blocks in the handler of a click while the presenter blocks in a send to the
  view. `RunTogether` excludes what a failing line, overlapping scripts or a
  restart leave behind, until the next start or stop that runs alone and whole.
* `ResolvedKeyAlive` does not say that every key is alive: Headscale may be slow
  and a token may live longer than a key (`KINBRIDGE_JWT_TTL_SECONDS` up to
  3600 s against ten minutes). It says how slow it must have been.

### Bounds

Limits and windows are at the smallest value that separates before, at and past
the limit; times stop at or one past the last value a guard compares with, so
nothing that a longer clock could tell apart is lost.

* `ip_blocker`: one address (entries never meet), five ids against a set that is
  full after three.
* `registry`: one id (rows and entries of different ids never meet), two
  machines of which one changes its key, one address and loopback, one load that
  races io_loop and may do so again and again; the proofs cover any number at
  once. The two keys of the first machine are interchangeable (symmetry). No
  query fails, updates may, or any may: each property says which it needs. The
  clock begins at zero with a boot (`MAX_UPTIME`: past it nothing changes), and
  a process may also start again on a machine that has run on.
* `hole_punch`: two connections on one address, so that one replaces the other
  and removes what the other parked, and one with its own; requests without
  bound. The two are interchangeable (symmetry). More on one address add longer
  chains of the same; the proofs cover any number.
* `relay_servers`: two servers plus the word given to `always-use-relay`, lists
  of zero to two, two overlapping checks (a probe ends within 3 s, the period of
  the timer), `MAX_COMMANDS` and `MAX_FLIPS` one, `MAX_QUEUE` two.
* `punch_requests`: `TAIL` two, shorter than the four pairs and the log
  (`MAX_LOG`); requests of 0, 1, 2, 8 and 9 peers; `MAX_AGE` goes past the wrap
  and back into positive values.
* `relay_pairing`: four connections, for two relays at a time or a chain of
  replacements, of one uuid: connections of different uuids meet in no entry of
  `PEERS`, and the theorems cover any number of both.
* `relay_traffic`: two units to a millisecond and one millisecond to a second, so
  that a look can be missed and a truncation lose a fraction; half a second for
  a lock; a timer as long as a second; messages that are empty or fill
  `MAX_TOTAL`, enough to cross the threshold that is not zero; one start check,
  which the environment leaves alone; `SILENCE` zero, so that a relay ends at the
  first tick after a whole second; `MAX_AGE` past the longest silence, with room
  for a second look. One relay: relays share only tables and settings, and the
  limiter whose waits are arbitrary.
* `server_life`: two keys, so that each server generates one or one server two;
  `LIMIT` three.
* `session_api`: a key outlives a token by one unit and Headscale takes zero to
  three (`MINT_DELAY`): answers that leave a live key, just leave one, and do
  not; `MAX_TOKENS` two.
* `desktop_ui`: channels of two events, two clicks or page loads (`MAX_CLICKS`):
  both channels can be full while a click waits, two commands can overlap, and
  changes of files come without bound. Both services run at first; a stop leads
  to the other start. One log file: that the file shown follows the one selected
  is proved for any set of them.

`CHECK_DEADLOCK FALSE` is set where a bound ends the behaviour (`HolePunch`,
`RelayServers`) or the program exits or is `Stuck` (`DesktopUi`).

### Fairness

Time passes, and a task that can run is run: tokio's scheduler, Node's event
loop and the threads of the operating system guarantee no more, and no client
owes a step.

* `IpBlocker`: `WF(Tick)` only; clients may retry for ever.
* `RelayPairing`: `Tick`, and the steps of a task that wait for nothing but a
  lock or its own timer. `RelayEnd` is not fair.
* `RelayServers`: the channel is drained, the timer starts checks, a probe ends
  (3 s timeout). Commands and servers going up or down are not fair.
* `RelayTraffic`: `SF(Tick)`, because messages may come without end but time
  passes between them; the task's own steps, the locks and the limiters. That a
  lock of a table takes less than a second (`LOCK_WAIT < SECOND`) is an
  assumption: the tables are locked for single lookups and inserts. `Sent` is
  not fair: a client may stop reading.
* `ServerLife`: seconds pass and tokio runs `test_hbbs`. Nothing makes io_loop
  answer, and no supervisor has to start a server.
* `DesktopUi`: each thread runs when it can. `SF(PresenterCheck)`: the
  presenter's clock passes the second while it sleeps again and again.
  `SF(ClickSend)`: crossbeam wakes the waiting senders of a channel in turn. Page
  and watcher are not fair.

`PeerRegistry`, `HolePunch`, `PunchRequests` and `SessionApi` state no fairness:
only safety is checked of them.

## Proofs

All theorems hold for arbitrary constants that satisfy the named ASSUMEs. Every
invariant and every action property that a passing run checks is stated by one.
`HbbsListsProofs` and `UiAndApiProofs` are each about two modules and extend
both, which is why the specifications of `RelayServers` and `SessionApi` have
names of their own (`RelaySpec`, `ApiSpec`).

* `IpBlockerProofs`: `LimiterInvariant`, `BurstIsBounded`,
  `DistinctIdsAreBounded`. The bounds are not inductive; `Accounting` is. The
  counter dominates the history of the burst while it lasts (`BurstCounted`),
  and all but one of the ids let through are recorded (`IdsRecorded`): the one
  that made the entry, or a known one that found the window expired.
* `PeerRegistryProofs`: `RegistryTypes`, `OnlineReachable`, `IdentityIsPinned`,
  `KeysAreVouched`, `MemoryIsTheDatabase`, `ConfirmedKeysAreStored`,
  `RowsChangeByHalves` and `LogsAreCurrent`. `OnlineReachable` strengthens the
  property with what holds of an entry whose age is below `REG_TIMEOUT`, and
  assumes nothing of the clock: an entry without an address that looks young was
  made too early. `IdentityIsPinned` assumes `ReliableLookups` (no `get_peer` or
  `insert_peer` fails; updates may). Its invariant says that whatever io_loop or
  a task carries of an id with a row, has the uuid of the row: rows are never
  deleted, a load can only bring the row's uuid back, and a second insert of an
  id is refused by the table. `KeysAreVouched` assumes nothing of the database.
  Its invariant (`VouchedInv`) says that a peer with a guid has a row of the
  same uuid, so that `update_pk`, which does not write the uuid, puts a key only
  to its own machine. The next three are about ids that no load raced with and a
  database that does not fail, as the properties are, and rest on one invariant,
  `InStepInv`: entry and row agree except while io_loop is between its two
  writes, and then what it is about to store is what it wrote to memory,
  differing from the row in key or address but not both; while it waits to
  answer, the row holds the key it will confirm, and an answer that is lost
  leaves that key in `unanswered`; a row that io_loop fetched is still the row;
  so is one that a task fetched, while the entry is missing. A load that would
  break this sets `raced`, which stays set (`RacesStay`). `LogsAreCurrent` needs
  nothing of the database: a log belongs to an entry in memory and io_loop makes
  none while it is fetching the peer (`LogInv`).
* `RelayPairingProofs`: `PlacesInvariant`, `NoCrossTalkAlways`, `Refinement`
  (`Spec => RefinesMatch`), `ReportsFollowRelays`, `TcpRelaysReported` and
  `EarlyDrops`. `Places` says
  where every stream is and ties PEERS, tasks and partners together; with it each
  step of `make_pair_` is a step of `RelayMatch` or leaves `waiting` and `links`
  alone, and a stream is dropped only by its own timer or another of its uuid.
  The two theorems about USAGE are inductive together (`UsageInv`).
* `RelayTrafficProofs`: `Typed`, `BlacklistIsFollowed`, `SilenceIsBounded`,
  `DowngradeIsFair`. The invariant bounds the time since the last look by what
  the timer still owes (`LookInv`), the silence likewise (`SilenceInv`), says
  that `blacked` is the table as it was at the last look (`BlackedInv`) and bounds
  the relay's age by `elapsed` and `tm` from both sides (`AgeInv`): each look adds
  a truncated measurement of at least a second, and loses less than `MS` and one
  wait for a lock.
* `ServerLifeProofs`: `Typed`, `OneKeyForEver`, `TheDeafEnd`. `TurnInv` says that
  only one server generates at a time, `FileInv` what the file holds while it
  does; `ProbeInv` that a test that keeps up sends a probe for every second.
* `HbbsListsProofs`: `LogDeduped` and `ForwardedAreSeen` for every length of log
  and tail. `Deduped` alone is not inductive: `OldestFirst`, that ages fall along
  the log, is needed, because the search stops at the *last* entry of the pair
  and its age has to speak for the earlier ones. That there is a last one is an
  argument by well-foundedness (`LastPosition`). `RecentAreOnline` and
  `SilentAreOffline` for requests of every length: the answer is the one memory
  gives now (`Current`), each position has a bit of its own (`PlacesHaveBits`,
  `BitMeansShown`), and `AsI32` keeps a time below `HALF` (`AsI32Keeps`).
  `RelayAlways`, because an empty result is never sent.
* `HolePunchProofs`: `NoLeakedSinks` and `NeverAnsweredTwice` for any sharing of
  addresses; `DirectAnswers` and `DirectRefusals` for every connection that is
  `Alone` at its address, whatever the others do. `Inv` says where a sink can be
  once it was written to; `ToldInv` adds that the sink of a connection that is
  alone leaves the table only with an answer or with its task.
* `UiAndApiProofs`: `ServicesRunTogether`: a script that runs alone and without
  failing is at one of six places, and at its last line has already seen to the
  other service (`OneScript`). `ViewFollowsPresenter`: `Shows` says that the
  last event of a kind in the channel or in the presenter's pending send carries
  what the presenter holds or, without one, that it is shown; a receive at the
  head, an append at the tail and a full channel keep that (`ViewInv`).
  `KeysAlive` from the fact that a key is older than its token by exactly what
  Headscale took; it assumes nothing of the times.

Only model-checked: all liveness (`LimitsLift`, `SettlesOnAnswering`,
`ParkedLeaves`, `BlockedRelayEnds`, `DeadSocketGoes`, `ExitWorks`,
`StatusShown`), because fairness and ENABLED are beyond the prover.
`RelayMatch` states no fairness, so `Refinement` is the whole of its refinement.

## Not modelled

The bytes of the protocol and `hbb_common` (an empty submodule here); the
encryption handshake; geo lookups; the choice of one relay of the list; how long
`limit-speed` and `total-bandwidth` make a message wait; the window, the
blinking title and the unreachable command `pause` of the desktop program;
stateless API routes (devices, help requests), the checks of one header and
start-up; the event sockets of kinbridge-api, whose handlers only add a socket
to the hub or take it off, and `EventHub.publish`, which nobody calls (the
comment at `ws-events.ts:46` says that a socket is closed when its session ends;
no step of the code does so, as the TODO in `sessions.ts` admits); the command
line tools, which run once and keep nothing; packaging. See `components` in
`PROJECT.json`.

## Plan

1. `Registration`: IpBlocker, PeerRegistry and the UDP handler composed, so that
   a refusal by the blocker is seen to leave the registry alone.
2. An abstract `IdentityStore` (an id is claimed once, then only its key
   changes) that PeerRegistry implements; `HolePunch` with an abstract exchange.
