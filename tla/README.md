# A TLA+ model of solana-arb

solana-arb watches Solana for price differences between venues, decides with
local AMM arithmetic whether a round trip would pay, and stores what it saw in
Postgres. These modules model the parts of it that run concurrently, keep state
or decide something; TLC checks them on small instances and TLAPS proves the
safety properties of all of them for every value of the constants. `PROJECT.json`
maps the definitions that model code to the lines they model.

## Inventory

| Component | State | Operations | Hard behaviour | Correct when |
|---|---|---|---|---|
| Forge feed (`arb-feed/src/forge_feed.rs`, loop in `main.rs`) | session, debounce map, signal being sent | connect, read a swap, debounce, clean up, blocking send, end, reconnect after 5 s | reconnect forgets the debounce map, full channel blocks the session | signals keep their order, one per token and window, feed never given up |
| Signal pipeline (`main.rs`, `swap_analyzer.rs`) | signal and quote channels, counters, spawned tasks | `select!` loop, analyze, spawn scan and observation, inserts | starvation by quotes, failing inserts, tasks in any order | every signal settles, tables and counters agree |
| AMM arithmetic and cost model (`pool_decoder.rs`, `cost_model.rs`) | none | swap outputs, net profit | rounding, minimum tip, zero reserves | exact round trips, profit pays costs |
| Local scanner and quoter (`local_scanner.rs`, `amm_quoter.rs`) | quotes, best route of one scan | buy quotes, sell quotes, choose | pools move between RPC calls, calls fail, sides are assumed and not looked up | reports the best of what it priced, and profits the pools would pay |
| Pool registry (`local_scanner.rs`) | pools per token | lookup, discover, resolve vaults, dedup, insert, register | check-then-act without the lock, partial RPC answers | one pool per DEX, no unresolved pool without cause, registration not undone |
| Pool monitor, graduation handler (`pool_monitor.rs`, `main.rs`) | subscriptions, vault pairs, graduated curves, two channels, snipers | run, session, subscribe, handle a notification, send, snipe | lost or unreadable notifications, reconnects, torn pairs, a drained pool, full channels | prices settle on one state, one graduation per run, every one sniped |
| Spread detector, price graph (`detector.rs`, `graph.rs`) | last quote per venue, last spread per pair | update, expire, compare, deduplicate | stale sides, drift, infinite spreads | opportunities hold on fresh quotes, duplicates only suppressed |
| Observer (`observation.rs`) | none | one HTTP query per signal | may fail or hang | at most one row per signal |
| HTTP poller, DexScreener client | none | quotes into the quote channel | blocked by a full channel | - |
| Token discovery, periodic scanner (`discovery.rs`, `rugcheck.rs`, `main.rs`) | known set, list of 50 tokens, copy being scanned | ask for tokens, check, register, list, scan | failing checks, duplicate answers, a full list, scans that hang | a token is listed once, with pools and never against its mint account, and then scanned |
| Volume tracker (`volume_tracker.rs`) | swap times, hot tokens | record, prune, flag, clean up every 1000 signals | lazy pruning, a backlog taken at once, window edges | a token is flagged exactly when its history of the window says so |
| Control panel API (`arb-api/src/lib.rs`) | configuration record under an RwLock, broadcast ring of events, two tasks per socket | status, update, start, stop, `/ws/live` | a reader awaits inside the lock, change and event are two steps, a slow browser lags, a task outlives its handler | status and events never contradict each other, a browser sees no gap |
| System manager (`system_manager.rs`) | child process | start, stop | - | never constructed, not modelled |
| Whale tracker (`whale_tracker.rs`) | a fixed set | is it a whale | - | a tag on a log line, not modelled |
| Storage (`arb-store`) | tables | inserts, dashboard queries | failures | with the pipeline |
| Jito, transaction builder, legacy Jupiter code, pool cache | - | - | not called by the running program | not modelled |

How they interact: the feed sends `SwapSignal`s through a channel of 1000 to
the main loop. The loop spawns one task per actionable signal, which joins the
observer and `scan_triggered` and writes the rows. Scans, the periodic scanner,
the discovery loop and the snipers share the pool registry. Pollers and the
pool monitor send `PriceQuote`s through a channel of 5000 to the same loop,
which runs the detector on them. The monitor sends graduations through a
channel of 100 to a handler that spawns a sniper for each. All of them share
the SOL/USD price, which is zero until it is first fetched. The loop records
every signal in the volume tracker and broadcasts it to the sockets of the
control panel, whose handlers share the configuration record and broadcast its
changes through the same ring of 1000 events.

## Modules

| Module | Models | State and actions |
|---|---|---|
| `ForgeFeed` | the feed task and its reconnect loop | `debounce`, `outbox` and `chan` are the map, the signal awaiting `send` and the mpsc channel; one action per step of `run_forge_feed`; `Tick` is a second |
| `SignalPipeline` | the main loop with the feed inside (EXTENDS `ForgeFeed`) | `loop` says where the loop awaits, `scan` and `obs` where each spawned task does, `rows` and `lostRows` are the bags of inserts that succeeded and failed, so that a repeated one counts twice |
| `BoundedFifo` | abstract: what a bounded channel promises | `Send`, `Get`; `ForgeFeed!Path` is its refinement mapping |
| `VolumeTracker` | the tracker behind feed and channel (EXTENDS `ForgeFeed`) | `swaps` and `hot` are the two maps; `Record` is the loop taking a signal, with `record_swap` and the clean-up that may be due |
| `AmmEconomics` | swap outputs, concentrated ones included, and the cost model | operators only |
| `LocalScanner` | one scan in a moving market (EXTENDS `AmmEconomics`) | one action per RPC call; `Move` is another trader; `Mints` says which mint each vault of a pool holds, `PriceIn` and `PriceOut` which vault the quoter takes for the input |
| `PoolRegistry` | the registry entry of one token; a list keeps the positions of the listing it comes from, those of removed pools stay free | one action per critical section or remote call of each caller |
| `PoolMonitor` | monitor, restart loop, graduation handler | chain, wire, monitor and consumers; one action per await of the code; a notification may not decode (`readable`), and some trades empty the coin vault (`EmptyAt`) |
| `DiscoveryLoop` | discovery loop, its token sources, periodic scanner | `at` says what the loop awaits, `batch` what is left of an answer, `cycle` the scanner's copy of the list; one action per await |
| `SpreadDetector` | detector and graph for one pair | `Process` is `Detector::process`, whole |
| `EventStream` | abstract: what a live feed promises its viewers | `Publish`, `Join`, `Show`; `ControlPanel!Stream` is its refinement mapping |
| `ControlPanel` | handlers, lock and sockets of the control panel | `config` is the record of settings; an update names some of them, its event carries those in `Told`; `waiting`, `reading` and `announcing` are the lock's queue and guards, `log` the broadcast channel with its past, `task` the forwarding task of each socket; one action per step between two awaits |
| `ForgeFeedProofs`, `MainLoopProofs` | - | theorems about `ForgeFeed`; about `SignalPipeline` and `VolumeTracker` |
| `LocalScannerProofs` | - | theorems about `AmmEconomics` and `LocalScanner` |
| `PoolRegistryProofs`, `PoolMonitorProofs`, `SpreadDetectorProofs`, `DiscoveryLoopProofs`, `ControlPanelProofs` | - | theorems about the module of that name |

`MC*` modules give the constants their values. Time is kept as ages (seconds
since an event, capped where the code no longer tells values apart), so no
clock needs a bound. Operators whose comment starts with "Faulty variant" are
alternatives a plausible bug would produce; the actions never use them. They
document what each property would catch (`PROJECT.json`, "mutants").

Variables marked (history) record what a property needs and never guard an
action that the code has.

## Runs

| Run | Instance | Shows |
|---|---|---|
| `forge_feed` | two tokens, debounce 2 s, delay 2 s, clean-up at one entry, channel of one, four signals; tracker with a window of 3 s, spikes of 1 s, two swaps of history, clean-up at every second signal | `InOrder`, `DebounceSpacing`, `NeverMutedForever`, `FeedComesBack`, `FeedIsFifo` (the path of a signal is one bounded queue), and of the tracker `AlertsExact`, `FlagsAreSpikes`, `BurstBounded` |
| `signal_pipeline` | two signals of one token, channels of one, one failing insert | `RowsConsistent`, `CountersAgree`, `EverySignalSettles`, and `FeedBehaviour`: the pipeline refines the feed |
| `local_scanner` | three pools (PumpSwap, PumpFun, Orca), the last with SOL as its first mint and once too shallow for the trade of 50 units, two moves | `ReportsBest`, `ErrorOnlyWithoutRoutes`, `QuietProfitIsReal` |
| `pool_registry` | two callers (symmetric), five addresses, several listings | `ScansBestPerDex`, `UnresolvedOnlyIfMissed`, `RegistrationServes` |
| `pool_monitor` | one Raydium pool, one curve, channels of one, two notifications in flight, three trades, the second of which empties the coin vault | `SettledQuoteIsConsistent`, `GraduatesOncePerRun`, `GraduationSniped` |
| `spread_detector` | three venues on two DEXes, prices around 10000 | `OpportunityHolds`, `DriftIsReported`, `NoDuplicates` |
| `discovery_loop` | one watched and three other tokens, one with an authority, a list and batches of two | `ListedOnce`, `AuthoritiesKeptOut`, `ListedHasPools`, `ListedIsScanned` |
| `control_panel` | one browser, a ring of one event, three requests at once, three events; one setting events tell and one they do not, updated alone and together | `StatusMatchesEvents`, `StreamBehaviour` (refines `EventStream`), `ChangesAreMade`, `EventsReachPanels` |
| `scanner_snapshot` | as `local_scanner` | violated: a reported profit may have existed in no market state, against README.md:23 |
| `volume_average` | as `forge_feed` | violated: a spike over the average of the whole window is not flagged, against volume_tracker.rs:2 |
| `discovery_checks` | as `discovery_loop` | violated: boosted tokens, and those no check answers for, are listed unvalidated, against README.md:122-125 |
| `detector_zero_price` | prices zero and 10000 | violated: infinite spreads are never duplicates, against detector.rs:32 |

Why the bounds are enough. A channel of capacity one already blocks its sender
and a clean-up limit of one already drops entries; larger limits reach the same
situations later. Two signals are the least that can overtake each other, share
a token and interleave two tasks; two callers are the least that race on a
registry entry. Five addresses give a list two pools of one DEX, a Raydium
address that turns out to be CLMM, and pools no RPC call resolves. Two moves
let a market change between buys and sells and change back. A second trade
leaves a vault behind by one session. A list of two with three discoverable tokens is
pushed over, and a batch of two can name a token twice; the code's batches (10
and 15) are smaller than its list (50), as `DiscoveryAssumption` says. A ring
of one event overwrites what a task has not read as soon as two events follow
each other, and three requests are a reader, a change that waits for it and a
second reader that must not pass the change. One browser is enough, since the
tasks of two share nothing but the ring, which none of them writes. A window of
three seconds lets swaps age through recent, counted and pruned, and a clean-up
at every second signal falls both before and after a flag. An Orca pool of
depth 100 is too shallow for a trade of 50 and those of 10000 and more are not.
The penalty is 500 basis points where the code's default is 50, and the
fixed costs are 4, because of a trade of 50 units a smaller share rounds to
nothing: a cost model that left out the penalty, the fees or the tip would
break `QuietProfitIsReal` on these values. A coin vault that the second
trade empties and the third fills again has a price, none and one again, and
either notification of a trade may fail to decode. The instance of the monitor
leaves whirlpools out: they send quotes as a curve does that is not complete.
`MaxSignals`, `MaxDbFailures`, `MaxMoves`, `MaxWire`, `MaxTrades`,
`MaxRequests` and `MaxEvents` bound behaviours and stand in guards only; nothing
in the code corresponds to them. The scan run does not check deadlock because a
scan ends. The default delays of the code (debounce 3 s, reconnect 5 s,
clean-up age 30 s) satisfy `DelayAssumption`, as do the small ones.

Fairness. Timers fire and ready tasks are scheduled (weak fairness of `Tick`,
`Restart`, sends and inserts); `select!` polls ready branches in random order,
so a branch that is ready again and again is taken (strong fairness of the
signal arm). Nothing is assumed of forge, the RPC node, DexScreener, or of the
answers to HTTP calls, which have no timeout: `EverySignalSettles` therefore
excepts a scan that waits for one (it says that all accepted signals are settled
together again and again, which implies that each is settled in the end), and
`ListedIsScanned` a periodic scanner that does (`hung`). The handlers of the
control panel and its tasks are scheduled and browsers read their sockets; no
request, connection or disconnection is owed. The lock is tokio's, which serves
its waiters in the order they came: without that, `ChangesAreMade` fails
(faulty variant `AnyPlace`). It excepts starts, because a start on a running
system changes nothing, so that one waits behind the next indefinitely often.

Refinements. `PipelineSpec` implements the feed's specification on the feed's
own variables (`FeedBehaviour`). The feed implements `BoundedFifo` with
`queue <- chan \o outbox`: a suspended `send` is the last place of a queue one
longer than the channel, so that the end of the send is a stutter. The control
panel implements `EventStream` with its own `log`, `from` and `shown`: the ring
and the two tasks of a socket disappear, and a task that lagged is a viewer
that is shown nothing more. TLC checks both abstract specifications; proved are
the safety part of the first and the whole of the second, which has no
fairness.

## Proofs

Every invariant and every action property that a passing run checks is also a
theorem of the specification, for every value of the constants that satisfies
the named assumptions: sets of tokens, pools, curves, venues and callers of any
size, any prices, reserves, delays, windows and capacities. A property is
seldom inductive as it stands; this section says what each proof adds to it.
Every addition was an invariant of a TLC run before it was proved.

### Feed (`ForgeFeedProofs`)

- `TypeCorrect`, and with it `SignalsInOrder`: numbers of taken, queued and
  unsent signals are consecutive. The type invariant and `InOrder` together are
  inductive.
- `DebounceHolds`. `DebounceSpacing` alone is not inductive: a step can only
  know that a token is not muted, not how old its last signal is. The
  invariant `DebounceInv` adds that a connected session remembers every window
  that is still open, with its age, and that a sleeping loop sleeps at least as
  long as any window. It needs `DelayAssumption`: with a reconnect delay below
  the debounce the property is false, which the run finds too.
- `FeedImplementsFifo`: from the type invariant alone, every step of the feed
  or of `recv()` is a `Send`, a `Get` or a stutter of the queue
  `chan \o outbox`. Its liveness stays with TLC (`FeedIsFifo`).

### Main loop (`MainLoopProofs`)

- `PipelineImplementsFeed`: every step of the main loop and its tasks is a step
  of the feed's specification or leaves it alone; hence `PipelineInOrder` and
  `PipelineDebounce`.
- `PipelineTypeCorrect` and `RowsAreConsistent`. The inductive invariant
  `RowsInv` says for each signal, from the stage of its scan, exactly which
  rows have been attempted, that a signal not yet taken has none, and that an
  ignored signal has exactly its own row. `CountInv` adds how often: rows and
  lost rows are bags, and no insert is in them twice. The consistency of the
  tables at any instant, hence after any crash, follows.
- `CountersAccount`. `LedgerInv`: the signals up to the last one taken are all
  triggered or ignored, and `triggered` is the number of the first. With
  `RowsInv` (nothing beyond the last one taken has a row, and none is both) the
  second are as many as the rest.
- `TrackerKeepsFeed`, `TrackerKeepsPath`: order, debounce and bounded queue
  with the tracker as the receiver, the specification that `forge_feed` checks.
- `FlagsAreSpaced`: a token is flagged at most once in `HotFor` seconds. The
  invariant `FlagInv` says that a flag younger than that is in the map with its
  age, which the clean-up of the map could have broken.
- `TrackerTypeCorrect`, `AlertsAreExact`. A verdict looks at the pruned deque
  and at the flags; the property at the history of the window and the last
  flag. `DequeInv` ties the first pair: a deque is ordered, and without the
  front that is older than the window it is the history, whenever it was last
  pruned. `ExpiredInv` ties the second: a token not flagged for `HotFor`
  seconds has no entry in the map, or an expired one.
- `FlagsAreReal`: a verdict divides by the age of the oldest swap and sees a
  pruned deque, the documented average divides by the window and counts the
  whole history. The proof carries a verdict from the one to the other: the
  deque is the history but for swaps too old to count (`DequeInv`), and a span
  shorter than the window only raises the average. The converse fails, which
  the run `volume_average` shows.
- `BurstIsBounded`. A bound on the recent swaps is not inductive: a second
  later swaps become recent that were not counted. `BurstInv` states it for
  every span of up to `SpikeWindow` seconds, together with the signals of the
  token that are still on the way, and with as many fewer as the seconds since
  the last one exclude (`MaxAccepted`). A second shifts the span by one; an
  accepted signal is paid for by the `Debounce` seconds before it
  (`DebounceInv`); a recorded one moves from the path to the deque.

### Arithmetic and scanner (`LocalScannerProofs`)

- `ProductNeverShrinks`: a constant-product quote is below the reserve it is
  paid from and leaves the product of the reserves no smaller, for every fee.
- `SmallQuoteIsSafe`: the linear quote of a concentrated pool is at most what
  the pool pays within its range if the input, less its fee, is at most a 999th
  of the reserve it goes to. This is the condition `QuietProfitIsReal` puts on
  a route; without it TLC finds a reported profit that the pool would not pay.
- `MoreOutputNeverEarnsLess` and `ProfitCoversCosts`: net profit is monotone in
  the output across the switch from the minimum tip to a share of the profit,
  and positive only if the output exceeds input, fees and tip after the penalty.
- `TypeCorrect`, `ReportsTheBest`, `ErrorMeansNoRoute`. `ReportInv` says of a
  running scan that the route it holds is the best of those it has priced,
  that there is one if it has priced any, and that a triggered scan that still
  runs has priced no profitable one.
- `QuietProfits`. `QuietInv`: as long as only one market state has been seen,
  every quote the scan holds and every route it priced are those of that state.
  What the pools would pay is defined apart from the quoter, from the mints
  they hold (`Paid`), and so is what a profit costs (`CoveredBy`). The proof
  shows first that the two sides agree for a pool that holds token and SOL in
  the order the quoter assumes (`QuotedSides`), then that a quote is at most
  what the pool pays (`QuotePays`: exact for constant products, by
  `SmallQuoteIsSafe` for small inputs to concentrated ones), that a pool pays
  no less for more, and last that a positive net profit leaves the penalty, the
  fees and the tip (`ProfitIsCovered`, a statement about the cost model alone).
  The hypotheses are needed: of a pool that holds USDC in place of SOL the
  quoter reads the reserve as lamports, and the pool would not take the trade.

### Registry (`PoolRegistryProofs`)

`TypeCorrect`, `ScansGetBest`, `UnresolvedHasExcuse` and `RegistryServes` come
from one invariant, `RegistryInv`: the entry and every returned list represent
the discovery they come from and have an excuse for each pool without vaults
(`StageInv` gives the stages a list goes through: empty, CLMM pools resolved,
Raydium settled, PumpSwap settled), and whoever has registered pools finds an
entry when it looks them up (`RescanInv`), because nothing removes one and only
lists that are not empty are inserted.

### Monitor (`PoolMonitorProofs`)

- `TypeCorrect`. The type invariant needs that a session that is not open has
  no subscription and nothing on the wire, and that a notification that calls a
  curve complete is about one that is.
- `GraduatesOnce`. `GraduationInv` adds that an announced curve is in the
  memory of the run and that, of two notifications of a curve, the later one
  says complete if the earlier one does: none that is still on the wire can
  make the monitor forget.
- `SettledQuotes`. `PictureInv` adds, for every vault whose last change was not
  lost, that the newest notification on the wire can be read and has the
  current balance, or that the stored one is current if nothing is on the wire,
  and that what was last sent is the price of the two stored balances unless
  they have none. A change counts as lost when it is not notified, when its
  notification dies with the session, and when that does not decode.

### Detector (`SpreadDetectorProofs`)

- `TypeCorrect`, `OpportunitiesHold`: a wide spread is one of two different
  venues whose fresh quotes are the extremes.
- `DriftReported`. `DriftInv` adds that the reference of the deduplication is
  the last opportunity reported.
- `NoDuplicatesIfFinite` has the hypothesis `FiniteSpreads`: prices are
  positive and no two of them are so far apart that the spread is infinite.
  Pools priced zero violate it, and the run `detector_zero_price` shows that
  the property then fails; the run `spread_detector` satisfies it.

### Discovery (`DiscoveryLoopProofs`)

- `TypeCorrect`, the capacity of the list and of the scanner's copy included;
  `KeepsAuthoritiesOut` (`AdmissionInv`: whatever is in a batch
  or on the list was admitted on some ground); `ListsWithPools` (`PoolsInv`: the
  token that waits for the list's lock is registered).
- `ListsOnce`. A token is listed again if a later one of the same answer has
  pushed it off, so the proof has to count: `NearEnd` says that a token of the
  batch that was listed before is so near the end of the list that those
  before it in the batch cannot push it off. This is where it matters that a
  batch fits the list (`DiscoveryAssumption`; 10 or 15 against 50 in the code).

### Control panel (`ControlPanelProofs`)

- `TypeCorrect`, with `GuardsOK`: the holder of the write guard excludes
  readers, and requests being served are as many as were admitted.
- `PanelsImplementStream`: a refinement step by step. `PanelInv` relates the
  cursor of a receiver to what its browser shows, one event behind, or two
  while the task sends.
- `StatusMatches`. `StatusInv`: the events broadcast so far tell the running
  state and the settings `Told` of the configuration, except for the change
  whose event the holder of the write guard has still to send; the counter of
  signals is ahead by the one not yet broadcast. An update that names only
  settings outside `Told` still sends an event, with the values as they are.

### Assumptions, and what is not proved

The proofs use only the assumptions the modules name, which TLC evaluates on
the instances: types of the constants, and beyond them `DelayAssumption` (the
reconnect delay and the retention are no shorter than the debounce),
`SpikeWindow <= Window`, distinct DEXes and reserves that are not zero in
`ScannerAssumption`, `BatchCap <= ListCap`, disjoint names of accounts in
`MonitorAssumption`, and the hypothesis `FiniteSpreads` of one theorem.

Only model-checked, because the prover has neither fairness nor ENABLED:
`FeedIsFifo` as a whole (its safety part is proved), `NeverMutedForever`,
`FeedComesBack`, `EverySignalSettles`, `GraduationSniped`, `ListedIsScanned`,
`ChangesAreMade` and `EventsReachPanels`. Results about recursive functions for
all inputs would need induction schemes the prover cannot instantiate; the
project has no RECURSIVE operator, and what drops the front of a sequence or
selects from a list is written with cardinalities, sub-sequences and functions
on the positions that stay, which the provers can reason about.

Observed, without a run:

- The discovery loop counts pools where main.rs:522 speaks of venues, so a
  token with two pools on one DEX is listed and never priced.
- The comments at local_scanner.rs:679 and 733 say that unresolved pools are
  dropped; when the account fetch fails, vault resolution returns early
  (local_scanner.rs:623-626, 704-707) and they are cached as they are.
  `UnresolvedOnlyIfMissed` states the code: only a failed fetch leaves one; a
  pool that is missing from an answer is removed. That a failed fetch leaves
  them cached for good is covered by no property.
- README.md:265-266 lets the panel "Start forge + pipeline" and stop the
  pipeline. The handlers change a record that no task of main.rs reads; the
  same holds of the thresholds. `StatusMatchesEvents` is about that record.
- `scans_triggered`, `profitable_scans` and `forge_connected` are read by the
  status handler and updated by nobody.
- A browser whose task has lagged keeps an open socket and is shown nothing
  more: the page reconnects only when the socket closes (index.html:227).
  `EventsReachPanels` names the case.
- A Raydium pool whose coin vault has been emptied has no price, and the
  monitor sends nothing (pool_monitor.rs:383): the quote sent before stands,
  be it of an earlier state or torn between two, until it is too old for the
  detector. `SettledQuoteIsConsistent` excepts the case.
- A `config` event carries `mode` and `min_signal_sol` only (lib.rs:211-215). A
  page is told of an update of `min_liquidity`, `max_liquidity` or
  `min_spread_bps` by an event in which nothing has changed.
- No token younger than three minutes can be flagged by the volume tracker,
  since the recent minute is part of the average it is compared with; the run
  `volume_average` shows the difference from the documented measure.
- pool_decoder.rs:199 documents the factor "(1 - price_impact)"; the code
  takes a flat thousandth off and only compares the liquidity with zero, which
  is why `QuietProfitIsReal` speaks of small inputs.
- The quoter assumes an order of vaults that it does not look up
  (amm_quoter.rs:149-157, 248-252, 455-459, 500-504); a sanity check against
  five times the input filters some of the quotes this gets wrong. Discovery
  keeps pools of any quote token (local_scanner.rs:573-585), so a TOKEN/USDC
  pool gets a quote in "SOL"; with one of the pools of `local_scanner` given
  such mints, TLC finds a reported profit on it. `QuietProfitIsReal` excepts
  these pools (`AsQuoted`).
- local_scanner.rs:109 says that `scan_triggered` "Returns the best result (or
  all results if needed)"; the code stops at the first profitable route of the
  list (local_scanner.rs:213-226) while a later one may earn more.
  `ReportsBest` states what the code does for both kinds of scan: the best of
  the routes priced, which for a triggered scan are those up to the first profit.

## Not modelled, and why

- Ticks of concentrated pools: the code does not read them either. Its quote
  is an exact fraction here, and the pool it is compared with stays in the range
  of its current liquidity.
- f64 rounding: ratios are exact integers rounded down. Infinite spreads and
  NaN are kept, since the detector's behaviour depends on them.
- JSON, base64, account layouts, log lines, dashboard queries.
- The read endpoints of the control panel (one SQL query each) and the static
  page.
- Whale tags, log statistics, the legacy Jupiter simulation (`if false`), Jito
  bundles, the transaction builder, the system manager: without effect on the
  running program's state.

## Plan

1. Done: feed, tracker, pipeline, scanner, registry, monitor, detector,
   discovery, control panel; abstract specifications of the feed's path and of
   the event stream; proofs of every invariant and action property the runs
   check.
2. Next modules: `Sniper` (rounds of five seconds within sixty, composed with
   the registry), the pair key of the detector.
3. An abstract specification of the registry (a set of possible pool lists)
   that `PoolRegistry` implements, and of the detector (a function of the
   fresh quotes), with their refinements proved from `RegistryInv` and
   `DriftInv`.
4. Proofs: lemmas that bring liveness within reach of safety arguments, such as
   a bound on how long a token can stay muted, and the sharpness of the
   hypotheses (`DelayAssumption`, `BatchCap <= ListCap`) as violated runs.
