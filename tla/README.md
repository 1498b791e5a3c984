# infinimap: TLA+ models

infinimap records the state of an InfiniBand fabric and shows it, now or at any
past instant. These modules model the parts of it where state, time and
concurrency meet: the collector that writes the record, the arithmetic done on
its counters, the path from the database to a browser, the setting up of the
database, and the state a tab of the browser keeps: the time it looks at, the
graph it draws in place, its colours, its cards. TLC checks the models
on small instances; TLAPS proves some theorems for every instance.

Paths below are relative to `src/`; `B` is `backend/infinimap` and `F` is
`frontend/src`.

## The system

| Part | Code | State | Operations |
|---|---|---|---|
| Collector process | `B/collector/daemon.py` | two threads, a stop event, two connections | start, cycle (topology half, error half), wait; traffic sweep; signal, exit |
| Identity cache | `B/collector/store/identity.py`, migration 001 | `node_id` by GUID, `port_id` by (node, number); tables `node`, `port` | seed, remember, resolve |
| Topology writer | `B/collector/store/writer.py`, `hashing.py`, migration 002 | `topology_snapshot`, three interval tables, `topology_event` | `write(Observation)` |
| Counter writer | `B/collector/store/counters.py`, `ingest/counters/`, migration 003 | `counter_sweep`, `port_errors`, `port_traffic` | `write(CounterObservation)` |
| Ingest | `B/collector/ingest`, `acquire` | none | run a tool, parse, assemble an Observation |
| Rollups | migration 004 | continuous aggregates, `port_caps` | hourly promotion, refresh |
| Schema and set-up | `B/db` | `schema_version` | init, migrate, check, start-up checks |
| API | `B/api` | a connection pool, an identity cache | resolve an instant, tag it, query, answer |
| Session | `F/App.tsx`, `F/fabric`, `F/api`, `F/time/usePollNotice.ts` | query cache, fabric chosen, last model, screen, toasts | poll, revalidate, switch fabric or instant, report |
| Timeline | `F/time` | time state, window of the strip, sweep index | drag, jump, zoom, pan, follow the newest sweep |
| Graph | `F/model/graph.ts`, `F/cy`, `F/components/GraphView.tsx` | the Cytoscape core: elements, positions, scratch, classes, selection | reconcile, fold, filter, lay out, save and apply layouts |
| Overlays | `F/model/counters.ts`, `F/view`, `F/cy/overlay.ts`, `F/cy/style.ts` | mask, window, counters, rollup; bins on the elements | roll up, bin, paint, pick, share by address |
| Cards | `F/components/detail` | selection, open cards, threshold of the summary | open, traverse, close, summarise |
| Saved layouts, settings | `F/layouts`, `F/settings` | localStorage | save, update, remove, apply; change |
| InfiniBand core | `B/ibcore` | none | decode, classify |

How they interact. The main thread of the collector reads the fabric, hands an
`Observation` to `Writer.write`, which commits one transaction, and then hands
the error counters, stamped with the same instant, to `CounterWriter.write`,
which commits another. The traffic thread does the same with its own dumps, on
its own connection and at its own cadence. All three resolve hardware to ids
through one `Identity` cache, which the topology transaction fills while it is
open. The API shares nothing with the collector but the database: it resolves the
instant of a request to a snapshot, derives a validator from it, and if the
browser has not got that answer yet runs a few statements, each of which sees
what is committed by then. The browser keeps answers under their validators;
answers for a past instant it keeps without asking again.

In the browser `App` derives one model from the answer for the fabric and the
instant chosen, and keeps drawing the last one while the next loads. `GraphView`
reconciles it into one long-lived Cytoscape core, so that positions, folds and
the selection survive polls and changes of mode. The selection is Cytoscape's;
a list mirrors it, and the panel on the right shows cards or, from a number of
elements on, a summary. Counters and traffic are answers of their own, rolled up
over the model and written onto the elements beside it. The timeline names the
instant; what it calls now is the newest sweep any answer has told it of.

What is hard in it:

* the change gate: a sweep whose digest is the last one's is never diffed, so
  whatever the diff reads must be in the digest;
* interval rows closed and opened one by one under exclusion constraints, at
  instants given by a wall clock;
* a cache filled inside a transaction that may roll back, read by another thread;
* the two halves of a cycle committing apart, under one instant;
* counters that saturate, are cleared from outside, or are read from a dump that
  was cut off;
* validators computed before the body is read, and answers kept for ever;
* a schema that several builds upgrade, one autocommitted statement at a time;
* a graph changed in place while leaves slide, are hidden, filtered and selected;
* answers for map, head, index, counters and traffic on clocks of their own, with
  the old ones on screen until the new ones come;
* effects that run after the render they belong to, and promises after those.

## The modules

| Module | Models | Checked in |
|---|---|---|
| `Intervals` | the shape the three state tables share: as-of reads, the diff, the constraints | through `TopologyWriter` |
| `FabricRecord` | abstract: what the tables promise, as a function from instants to pictures | as a property |
| `TopologyWriter` | `Writer.write`, the digest, migration 002 | `Writer` |
| `TopologyWriter_proofs` | lemmas about one table, theorems about the writer | proved |
| `Collector` | the process, its threads, the identity cache, both counter writers as far as ids go | `Collector`, `CollectorPoisoned` |
| `ErrorCounters` | one counter per port, what a poll stores, the deltas of overlay and card | `Counters` |
| `Collector_proofs` | theorems about the two | proved |
| `ReadPath` | resolution, validators, handlers, the browser | `ReadPath` |
| `Migrations` | the migration files as sequences of statements | through `MCSetup` |
| `Setup` | `infinimap-db init` and `migrate`, the start-up check of the schema | `Setup` |
| `Database_proofs` | theorems about `ReadPath` and `Setup` | proved |
| `TimeWindow` | the arithmetic of the strip: windows, columns, snapping, handles, jumps, stamps | through `Timeline` |
| `Timeline` | the strip, its gestures, and the answers behind it | `Timeline` |
| `Timeline_proofs` | theorems about the two | proved |
| `GraphModel` | the model of a map or a diff, and its elements | through the next three |
| `GraphCore` | the Cytoscape core and everything done to it | `GraphCore` |
| `GraphCore_proofs` | theorems about it | proved |
| `Rollups` | masks, views and addresses, rollups, bins | through `Overlay` |
| `Overlay` | the colours, legends and swatches | `Overlay` |
| `Overlay_proofs` | theorems about the two | proved |
| `Cards` | selection, cards, summary | `Cards` |
| `Cards_proofs` | theorems about it | proved |
| `Session` | a tab from its start: fabric, polls, screens, layouts, notices | `Session`, `SessionWarmSwitch` |
| `Session_proofs` | theorems about it | proved |

`MC*` modules give the constants their values.

### TopologyWriter

State: `snapshots` (the rows of `topology_snapshot` in id order), the three
interval tables as sets of rows `[key, val, from, to]`, `events`, and, of the
process, `clock` (the last `collected_at`), `handed` and `outcome` (the last
sweep and what became of it; only properties read them). One step, `Write`, is
one call of `Writer.write`: a transaction, hence atomic. Its four disjuncts are
the ways through the function: incomplete, unchanged, changed and accepted, and
changed and refused by a constraint, in which case everything rolls back.
`LinkStages` lists the tables the row-by-row diff of the links passes through,
so that a constraint that only a later statement would satisfy is seen to fail.
Rows are named by natural keys here; ids are the business of `Collector`.

`FabricRecord` knows no rows: a complete sweep collected at `ts` sets the record
from `ts` on and leaves what was before. `ImplementsRecord` says that the tables,
seen through the as-of read the API uses, behave so.

### Collector

Program counters: `main` (starting, collecting, identity, errors, waiting,
joining, ended) and `traffic` (none, connecting, idle, writing). `nodeId` and
`portId` are the cache; `freshNode` and `freshPort` the rows of the open
transaction; `facts` the counter rows with the id they were stored under and the
hardware they were read from. The digest is whatever tells two sweeps apart.
`sweep.sound` says whether the constraints of the state tables would take the
sweep. Each INSERT of a node or a port is a step, because the traffic thread
resolves ids between them. `Kill` stands for a second signal, a crash or a power
failure; `Restart` for the service manager.

### ErrorCounters

`truth` is a history variable: errors and clears up to each cycle, and which ports
a cut-off dump did not come to. `Poll`, `PollCutOff` and `Skip` are the ways an
error half can go. `Delta` is `counters.assemble` for a port, `CardDelta` is
`port_counters`. The fourteen columns never meet in the code except in flags that
are raised if any column raises them, so one counter stands for all.

### ReadPath

The state tables are represented by what `TopologyWriter` shows of them: as of
`t` they say what the last complete sweep up to `t` read. Counter rows are
represented by their times. A cycle is `Sweep` (the tools have answered, the
instant is taken), `CommitTopology`, `CommitErrors`; either half may fail. A
request is `Ask` (resolve, tag, freshness) or `Revalidate` (304), then `ReadFirst`
and `Respond`, one for each point where another statement sees the tables; a
request may be dropped. `url` is fixed in the initial state: answers to two URLs
share nothing. The two statements of `resolve` are taken as one, a browser has
one request open at a time, and the clock does not step back here.

### Setup

Each operator has a build (`Carries`) and at most one run of `infinimap-db` at a
time, whose program counter `pc` is a step of `initialise` or `_cmd_migrate`.
Within a migration `at` counts the statements executed and `made` holds what its
open transaction has created; a CREATE of a name another transaction has made
waits for it (PostgreSQL's unique index does that). The row of `schema_version`
is `Record`, a step of its own. `Die` may strike at any step: a kill, a lost
connection, any error of the server; the open transaction is rolled back.
`CheckSchema` is the condition under which the API or the collector starts. The
statements of `Migrations` keep the relations and extensions, and the places of
BEGIN and COMMIT; types, indices, comments, policies and jobs stand or fall with
them. The grants of the two roles are taken together: neither depends on the
other's. That all of it is done by one superuser, so that default privileges
apply, is assumed.

### TimeWindow and Timeline

`TimeWindow` is the arithmetic, as operators. It keeps the two units of time
apart that the code has: the server stamps sweeps in microseconds, the strip
computes in milliseconds, and an instant that lost its microseconds names the
sweep before. The arrays of the source are in the order of their milliseconds, of
which no two sweeps share one (a sweep of a fabric takes longer), so sweeps are sets
here, and the first or last of an array is the earliest or latest. `Timeline` has the server's sweeps (`history`, of which `landed`
have landed), the time state, the four answers the strip reads (the map `shown`,
the live map still cached, the head asked for while a handle is pinned, the sweep
index of the settled window) and the window. `Now` is computed from the answers
as in `Timeline.tsx`, so it can step back. Every gesture and every answer ends
with `Follow`, the effect that moves the window. `meant` is a history variable:
which sweep a named instant was set to mean. One fabric; a pinned instant has one
answer; doubles are integers.

### GraphModel and GraphCore

A model (`FromTopology`, `FromDiff`) holds its elements, the instants it shows and, of a
comparison, whether the server proved that nothing changed (`unchangedGuaranteed`).
`cy` is the core: the elements with their data and parents, positions, the
scratch of leaves (`leaf`: switch and offset) and switches (`fold`), the classes
(`collapsed`, `hidden`, `faded`, `receded`) and the native selection. `Arrive`
is the whole effect of a new model: `Reconcile` in its four stages (`Depart`,
`AddAndPatch`, `SweepChildless`), the handlers of removal, newcomers placed, filters
set again. `slides` are the animations in flight; `Land` is the promise of one.
fcose is a choice of spots for the nodes it may move. The selection list is
updated by the handlers, element by element. Positions are one coordinate.

### Rollups and Overlay

`Rollups` holds the pure part: masks of a mode, view and address, the three
rollups, bins, and, of the API, the making of a counter answer from what was read of
each port (`Assembled`: who gets a row, what a row says of counters the port cannot
report, and what is said once because no port can). Its rows come as a sequence and are
rolled up row after row. The counters of a view are a list in the code; here they are a
bag, which tells apart what `sameSet` does: how long the list is and what is in it.
`Inherited` stands for the names that every object has, `toString` among them, which the
tests `s in MASKS` and `s in WINDOWS` let through. Every port is taken to have its
identity.
`Overlay` has the model, the two answers and the view, each
changing by itself; `Redraw` is the effect after each. `overlaid` is the data on
the elements, `painted` the colour an element was last styled with, which differs
from what its data say when Cytoscape was not told to restyle (`Kept`,
`Restyled`). A view whose window is an inherited name does not render (`Renders`): App
throws, the page is blank, and all that can be done is to open another address. Colours are names: of a health, a change, a bin, or grey.

### Cards

Each action ends in a `Commit`: the selection it leaves, what becomes of
`forceCards`, and the effect of `CardsPanel` on what is open, which depends on
what was added and removed by that one render. `SelectionCard` asks for an
element at `DetailAt`. `allowed` is a history variable, the elements selected when
all cards were asked for. What the server answers comes from `Fabric`, a sequence
of sweeps; a live card polls on its own clock, so its detail may be of any sweep until
now.

### Session

Every step ends in a render (`Render`): what the hooks derive from the query
cache (`Fabric`, `Model`, `Screen`), then their effects (address, last fabric,
core, notice). The effect that reloads the layouts when the fabric changes is
`BeginLayouts` and its promise `EndLayouts`, because a render lies between. The
query library is external: one request at a time for what is looked at, dropped
when something else is, cached answers shown at once, retries collapsed into one.

## The runs

Runs that pass:

| Run | Instance | States | Shows |
|---|---|---|---|
| `Writer` | 2 nodes, 2 names, SM states; 3 ports, each column of a port changed by itself, cabled or not; 4 cablings, one of them a loopback; 3 sweeps with all, part or none of the SM table, and incomplete ones | 30 849 | the open rows follow the last complete sweep; SM states are carried forward only when unknown; the event feed is what the intervals say; quiet means unchanged; the past is immutable; only a cabling that no hardware can have rolls back; the tables implement the record |
| `Collector` | 2 nodes with a port each, one unsound sweep, one lost connection, 2 starts | 767 740 | ids never mixed up or duplicated; errors of a complete sweep always resolve; nothing is orphaned or refused before the first roll back; a signal ends the process |
| `Counters` | 1 counter with ceiling 3, 4 errors, 1 clear, 4 cycles, look-back 2 | 166 271 | lower bound, exactness, flags, agreement of card and overlay |
| `ReadPath` | live map, past map, past and live cards with and without traffic, live and pinned rates; 2 contents, 3 sweeps or 3 dumps, 4 instants | 453 644 | what a validator still vouches for, of maps, cards and rates; settled history is fixed; a polled live map catches up |
| `Setup` | 2 operators, one with an older build; migrations 000, 001 and 004 | 209 414 | what is recorded is whole, and so is all before it; a half that starts has its whole schema; a run that ends well has done its work; grants last; every run ends |
| `Timeline` | 3 sweeps off the millisecond, one incomplete, the last yet to land; or 4, as many as an answer of the index holds; a preset, a pan, a zoom, a cursor; windows of 1 to 3 units | 209 776 | a named sweep answers; ranges stay ordered; live is reachable; the index stays true; a jump shows one event; a zoom survives polls, a view stays put, what is looked at comes into view |
| `GraphCore` | 2 switches, an adapter cabled to both and one to the first, in a chassis, 3 links; the whole map, the map without the first switch, a comparison without the adapter on both; 2 slides | 124 418 | the core is the model; the list is the selection; boxes frame; filters hold; nothing is hidden for good; a saved layout restores; survivors keep their place |
| `Overlay` | a switch, 2 adapters, 2 links, one without a line rate, and a third that a comparison adds on a port of one that left; 4 models, one a comparison proved empty, 3 counter and 2 traffic answers; 5 addresses, one with a mask and one with a window that every object has, one with a counter twice | 65 672 | grey is what was not measured and nothing else; a counter that cannot be reported is told; the ramp is the figure; an overlay leaves no trace; swatches, legends and addresses agree; the window trails |
| `Cards` | a switch, an adapter, 2 links, a chassis over 3 sweeps; live and a comparison; thresholds 2 and 4, 3 cards | 167 790 | cards ask for what exists; missing are the removals; the summary adds up; the escape hatch; fields listed; one opens at most; polls close none; traversal |
| `Session` | 2 fabrics, live and a pinned instant, 3 links; 2 sweeps, 1 outage | 56 331 | the fabric named; addresses; bad polls; notices; the waiting screen ends; the live map catches up |

What belongs together is checked as one property, a conjunction of named parts
that each have their own definition and comment:

| Run | Property | Parts |
|---|---|---|
| `Writer` | `TablesFollowSweep` | `TypeOK`, `StateFollowsSweep`, `SmFollowsSweep`, `OnlyBadCablingRollsBack` |
| `Collector` | `IdsNameHardware` | `TypeOK`, `FactsNameTheirPort`, `OneRowPerHardware` |
| | `NothingIsLost` | `ErrorsResolve`, `FactsHaveRows`, `SoundSweepsLand` |
| `Counters` | `DeltaIsSound` | `CountersTypeOK`, `NeverOverstates`, `ExactUnlessDisturbed` |
| | `FlagsTell` | `ResetHasCause`, `ClearsShow` |
| `ReadPath` | `ValidatorsHold` | `TypeOK`, `MapValidatorHolds`, `CardValidatorHolds`, `TrafficCardValidatorHolds`, `PinnedRatesValidatorHolds`, `LiveRatesValidatorHolds` |
| `Setup` | `WorkIsDone` | `SetupTypeOK`, `OkMeansDone`, `GrantsLast` |
| `Timeline` | `TimeMeansWhatWasSet` | `TypeOK`, `NamedSweepAnswers`, `RangeStaysOrdered` |
| | `ViewFollows` | of every step: `ZoomSurvivesPolls`, `ViewStaysPut`, `ArtifactComesIntoView` |
| `GraphCore` | `CoreIsTheModel` | `TypeOK`, `ReconcileExact`, `SelectionMirrors` |
| | `ClassesFollow` | `BoxFrames`, `FiltersHold` |
| `Overlay` | `ColoursAreTrue` | `TypeOK`, `UntrustedIsGrey`, `CannotCountIsTold`, `RampIsTheFigure`, `OverlayLeavesNoTrace` |
| | `LegendsAgree` | `SwatchSelectsColour`, `LegendCounts` |
| | `ViewHolds` | `UrlCarriesTheView`, `WindowTrails` |
| `Cards` | `CardsAreTrue` | `TypeOK`, `CardIsAnswered`, `MissingAreRemovals`, `ListedIsTheDifference` |
| | `CardsOpenOneByOne` | of every step: `AtMostOneOpens`, `OpenCardsSurvivePolls`, `NavigationClosesItsOrigin` |
| `Session` | `NeverTheOtherFabric` | `TypeOK`, the core lives with the map, both are of the fabric named |
| | `LiveIsLive` | `LiveGetsItsMap`, `LiveCatchesUp` |

Three sweeps are what it takes for a value to change, and change back, with a
reader at every instant around them; one more would only repeat a transition. Two
nodes are the least that can differ from one another, three ports the least for a
cable to move. Two starts allow one restart after a roll back, which is when
seeding matters. A window needs a baseline, a first and a last reading and one
between: four cycles. A look-back of two makes some baselines too old. Two operators are
the least that can meet; the three migrations are one of each kind there is (no
transaction, one, half and half).

On the strip the interesting instants are few: a sweep before the window, one in
it and one that lands; spans are scaled down so that a handful of milliseconds
covers the minimum, the padding and the maximum. In the core two switches that
share a leaf are the least in which a leaf can have two owners, and two slides the
least that can overlap; one coordinate of three spots tells apart where a leaf
stood, where its switch is and where it was put. One element is picked by itself
(`MaxCards`) and the leaves of a switch are picked together, so lists of several
come and go; `TheCoreIsTheModel` covers the longer ones. Three elements of each kind of
reading (measured, reset, not polled, unsupported) share a few ports in `Overlay`, one
of which was recabled in the comparison.
Three cards are one more than the lower threshold, so the panel turns to the
summary and back. Two fabrics and two sweeps give every order of first sweep, poll
and switch.

Runs that find a disagreement between the code and what it says of itself:

| Run | Property | What happens |
|---|---|---|
| `CollectorPoisoned` | `BadCycleHeals` | a rolled-back cycle leaves its ids in the cache; later sweeps with that hardware all fail their foreign keys until a restart (`B/collector/daemon.py:268`) |
| `SessionWarmSwitch` | `BuildsOnItsLayout` | going back to a fabric whose map is still cached, the first render already has its model while `loaded` is true and the layouts are of the other fabric; the effect then resets and the promise sets `loaded` again, in one batch, so the graph is not built anew and its saved layout never applied (`F/App.tsx:223`) |

Seen while modelling and not given a run.

In the collector and the API:

* counters are stored under ids no port row has, since the cache is read while the
  topology transaction is open and after it rolled back (`B/collector/store/counters.py:70`,
  against `daemon.py:8`);
* a card read between the two commits of a cycle is revalidated with the errors
  of the cycle before, until the next topology sweep (`B/api/routes/detail.py:39`):
  `CardValidatorHolds` promises the errors of every sweep but the card's own;
* an instant just past can be asked for before its sweep is committed, and that
  answer is kept for good (`B/api/routes/deps.py:71`, against `F/api/queries.ts:6`);
* a run of `infinimap-db` that dies between the COMMIT of a migration and its row,
  or between the aggregates of migration 004, leaves a database every later run
  fails on (`B/db/schema.py:189`, against `B/db/init.py:8`);
* the digest leaves out whether the SM table was read whole (`hashing.py:3`, "an
  unchanged hash is a licence to skip diffing entirely"). A record that is malformed or
  resolves to no node clears `sm_seen` while the others are applied
  (`assemble.py:154`), so a known node's SM state is carried forward although the
  sweep's digest has the new one; a whole reading after it with the same roles has the
  same digest, is skipped, and its SM states are not recorded until something else
  changes. `SmFollowsSweep` and `FabricRecord` say exactly this (`Blurred`,
  `TakenFor`): without the exception the `Writer` run finds the three sweeps;
* a refused sweep leaves no `topology_snapshot` row, although migration 002 calls
  the row unconditional; the main connection is never made again once lost;
* a clear made up for by as many errors is not flagged: a counter at 3, a clear and 3
  errors pass for a quiet port (`ClearsShow` says how far the flag goes);
  without a baseline a delta starts at the smallest reading, not the first;
* live rates are revalidated for ever if the traffic thread stops, also when their
  window has left the dumps behind (`LiveRatesValidatorHolds` says only that they are
  of the newest dump);
  `latest_sweep_at` in a cached answer does not move with an incomplete sweep; a
  live card reads its rate up to the last topology sweep and the overlay up to
  now, though `B/api/routes/detail.py:26` says the two match;
* a dump that was cut off is stored with zero for the ports it never came to, so
  the series seems to be cleared (`ResetHasCause` allows for it);
* an `init` killed before it ends loses the passwords it generated.

In the browser:

* the window of the strip may reach past the newest sweep for a while, when what
  is known of the head steps back (`F/time/window.ts:24` says never);
* the ends of a comparison are "held a minute apart" (`F/time/handles.ts:65`), but not
  when the later one is dropped on the head, which is not compared with `since`
  (`F/time/handles.ts:90`). `since` can by then be the newest sweep, past the head the
  strip knows: `until` was held a minute past it, and the index told of the sweep
  first. That range "reports itself unchanged" until another sweep lands, so
  `RangeStaysOrdered` allows it to be empty;
* a slide in flight goes on over a saved layout applied meanwhile, and wins. A leaf
  can be hidden without an owner if a switch is folded, unfolded and folded again
  within a slide while a sweep brings it a new leaf, or folded, reset and recabled.
  `GraphCore` assumes an unhurried user (`Unhurried`), who lets slides land
  before the next fold or saved layout; sweeps and unfolding do not wait;
* a leaf that left and came back while its switch stayed folded is on screen, yet
  follows the switch, and is dropped on it when the switch leaves (`Estranged`). Cabled to
  a second switch and folded under that by now, it comes out of hiding with the
  first, which it is not folded under: it is on both lists;
* ticking a counter asks the server again, although `F/model/counters.ts:3-4`
  speaks of re-summing: the start of the window moves with the view (`F/App.tsx:72`).
  In live mode that start stays while the end moves on, so the window grows;
* the legend counts grey links in their bin, and the swatch of bin 0 selects the
  grey too; while another mode loads, the map on screen can be under a legend of
  the mode to come; a node of a health that no link has finds no swatch; a port that
  was recabled is on two links of a comparison, and its row counts for one of them while
  an overlay stays over it, until the map of the new mode comes
  (`F/model/counters.ts:144`; `Contested` excepts them);
* `?win=toString` passes `s in WINDOWS` (`F/view/mask.ts:101`), its lookback is no number
  and App throws as it renders: a blank page, until the address is edited, where
  `F/view/url.ts:34` says "Every field falls back independently". `?mask=constructor`
  passes likewise (`F/view/url.ts:22`) and stays in view and address, harmlessly: the
  mode's default mask is drawn. A pasted list of counters may repeat a name, and one as
  long as the default list and within it is taken for the default and left out of the
  address (`F/view/url.ts:92`);
* a port that was read and has nothing to say gets no row (`B/api/queries/counters.py:235`),
  though it cannot report a selected counter that others can: it is drawn as a measured
  zero, where `F/model/counters.ts:52` has "the port fabricates a zero" among what is never
  drawn on the ramp. A counter that no port can report greys nothing, by design: the
  legend names it (`F/model/counters.ts:61`);
* a comparison proved empty has a note in place of its legend (`F/components/Toolbar.tsx:156`),
  so what is drawn, all of it unchanged, has no swatch;
* a traversal to a link that is not in the graph yet leaves its announcement
  standing, and a later plain selection of that link is taken for it
  (`F/components/detail/CardsPanel.tsx:57` says it cannot be); a traversal from
  forced cards revokes the escape hatch; a chassis box can be selected, and its
  card asks the server for a node that is none; the settings say "above this many"
  where the code compares with `>=`;
* a live switch of the fabric raises a "Fabric changed" toast, and a change of the
  time zone repeats the last one; `NoticeTells` is about polls of one fabric;
* if the first request for the fabrics fails for good it is only repeated on focus
  or reconnect (`F/api/queries.ts:109`); a link to an instant before the first
  sweep ends on a screen without a way on; new polling intervals are adopted at the
  next render; a toast hovered when its timer runs out stays until it is clicked.

## Fairness

`TopologyWriter`, `ErrorCounters`, `Timeline`, `GraphCore`, `Overlay` and `Cards`
have safety properties only. `Collector`
assumes weak fairness of the main thread: its tools and queries have timeouts and
its waits are timed. Nothing is assumed of the traffic thread, of signals or of
restarts. `ReadPath` assumes that a live resource that can be asked for again and
again is (it is polled on a timer), and that requests repeated again and again
are at times answered; nothing is assumed of the collector, so a quiet one is one
of the behaviours. `Setup` assumes that a run which waits for nothing goes on
(weak), and that one waiting for a transaction is woken when that ends even if
another takes the name next (strong: the server queues waiters in order). Nothing
is assumed of operators: they may start any run at any time, or none. `Session` assumes that
promises resolve, that the timers of react-query fire while a query polls, that a
request under way ends one way or another, and that an API which went away comes
back; nobody need focus the tab, reload it or choose anything.

## What is proved

TLC says that a property holds of one small instance; the theorems say it of every
value of the constants. Each module of proofs assumes what its model's `ASSUME`
says of the constants (types and bounds, which TLC evaluates on every instance),
and what is said here. Few of the properties are inductive as they stand: most proofs
are about an invariant that is stronger, and which TLC found to hold before it was
proved.

### The topology writer

`TopologyWriter_proofs`, on lemmas about a single interval table. The first three theorems allow a clock that steps back (`ClockMaySlip`), the last three
assume that it does not: a sweep dated before rows it would close is refused by a
constraint, whatever its cabling, and rows it opens are read at instants already told of.

* `TypeCorrect`: `TypeOK`, a part of `TablesFollowSweep`. The step that needs thought is the SM column, which is
  carried forward out of the table: it is typed because the table was.
* `QuietIsUnchanged`, `QuietMeansUnchanged`. As it stands the property is not
  inductive. The invariant that is, `EdgesAreChanges`, says that every instant at
  which a row of any table starts or ends is the instant of a changed snapshot.
  A table can only answer differently at `a` and `b` if an edge lies in `(a, b]`
  (lemma `NoEdgeNoChange`), so if no changed snapshot does the answers agree.
* `PastStands`, `PastIsImmutable`. A diff at `ts` changes no as-of read before
  `ts`: rows that are closed covered those instants and still do, rows that are
  opened start later (lemma `DiffedPast`).
* `TablesFollow`, `TablesFollowSweep`. The invariant `IInv` adds that no row or
  snapshot is dated past the clock, that the tables obey their constraints at every
  stage, and `SmRemembered`: the open rows hold the SM states not of the last
  complete sweep only but of any sweep the change gate would take for it. Without it
  an unchanged sweep, which is never diffed, could have anything to say. That a
  refused sweep has cabling no hardware can have rests on the stages of the diff:
  each closes before it opens, so no constraint fails on the way to a table it holds of.
* `FeedTellsHistory`, `EventsTellHistory`. A diff adds to the ends, the starts and the
  turns of a table what it closes, opens and replaces, and nothing else
  (`DiffedTurns`), and the writer raises one event for each.
* `TablesImplementRecord`, `ImplementsRecord`: the refinement of `FabricRecord`. The
  initial tables map to the blank record. A changed sweep maps to the sweep kept
  from its instant on (`ChangedKeeps`), an incomplete one and a roll back to a
  stutter, and an unchanged one to the keeping of a sweep that leaves the record as
  it is, which needs `IInv`: the rows say already what the sweep does.

### The collector

`Collector_proofs`, for any hardware, sweeps, kills, restarts and roll backs, with a
connection that may be lost or not. One invariant, `IInv`, gives both theorems about
`Collector`:

* `IdsNameTheirHardware`, `IdsNameHardware`. Every id in a row, the cache or a fact is
  below its sequence (`IdsBelow`), so an id once handed out, even in a transaction
  that rolled back, is never handed out again; no two rows and no two keys have one id
  (`IdsDistinct`); and the cache of a process that is up knows each row under its id
  (`RowsCached`), the open transaction's too. Hence a fact whose id some row has was read
  from that row's port, although the traffic thread resolves in the middle of the
  transaction.
* `NothingLost`, `NothingIsLost`. The ports of the latest complete sweep have committed
  rows (`LatestBacked`), so the errors of the cycle resolve; until a first roll back
  or lost connection whatever is cached has a row (`CacheBacked`), and until a kill as well
  so has whatever is stored (`FactsBacked`): these are exactly the conditions beyond
  which `CollectorPoisoned` and the notes above show it to fail.

### The error counters

`Collector_proofs` too, for any ceiling, look-back and order of errors, clears, polls,
cut-off dumps and missed cycles. `CountersInv` ties the readings to the history variable
`truth`: each reading is what the counter stood at (`CounterFollows`), readings
come in order (`ReadingsPast`), and between any two of a port the value moves as errors
and clears allow (`ReadingsFollow`). The readers pick readings with `CHOOSE` and take
extremes of sets; that there is something to pick is the well-foundedness of the
naturals (`WFMin`, lemmas `Lowest` and `Highest`).

* `DeltaHolds`, `DeltaIsSound`: unless a cut-off dump made readings up, a delta never
  overstates the errors of its window, and it is exact and without a flag if nobody cleared the
  counter and it has not saturated.
* `ResetFlagsTell`, `FlagsTell`: a reset flag has a clear or a cut-off dump behind it; and a
  clear raises it, between the baseline and any reading or any reading and the last,
  unless as many errors followed the first of the two as the counter stood at. That many
  are needed since a reading after a clear is at most the errors since (`ReadingsFollow`).
* `CardsAgree`, `CardAgrees`: the card of a port and the overlay compute the same.

### The read path

`Database_proofs`, for any contents, URL, window, look-back and interleaving of a
request's statements with the commits of the collector. One shape of invariant: what was read
under a tag is what would be read now, or the tag has moved on since
(`MapKept`, `RatesKept`); tags only move forward, since they are made of the newest
snapshot or dump (`StampsOrdered`).

* `TagsVouch`, `ValidatorsHold`: a 304 never keeps an answer alive that would now be
  another, for maps, cards with traffic and rates of a pinned instant. A plain card has the
  ports of its sweep and the errors of every sweep before; live rates are each taken
  to the newest dump, though perhaps not inside a window that has moved on.
* `SettledHistoryStays`, `SettledHistoryIsFixed`: what the browser keeps without asking
  stays what the server would say, once the instant is settled (`SettledKept`).

### Set-up

`Database_proofs` too, for any number of operators and builds and any
migrations, from `SetupAssumption` (types of the constants) and `FilesCommit` (no
file ends inside a transaction; TLC evaluates it on the real files).

* `SetupTypes`: `SetupTypeOK`, a part of `WorkIsDone`.
* `AppliedBeforeRecorded`, `RecordedIsApplied`: rows of `schema_version` have no
  gap below them and stand for migrations that are whole. The invariant that is
  inductive, `SetupInv`, adds `Progress`: what a run has yet to apply and what is recorded
  make up its build, and what it has executed so far is committed or in its open
  transaction, which is empty where the file says it is closed.
* `ServedSchemaIsWhole`, `ServesOnWholeSchema`: hence reading the highest version
  is enough.
* `DoneIsDone`, `WorkIsDone`. `WorkInv` adds to the invariant which commands can be at
  which step (`CommandFits`), so that a run ends well only past what its command names;
  and, for the grants, that a run without company is the only one (`Alone`), that
  what it has granted on is all there is (`HalfGranted`), and that once it is done even
  the objects of open transactions can be read (`AllGranted`). The last part is why
  company spoils it: another run may hold a table it made before the default
  privileges and commit it after.

### The timeline

`Timeline_proofs`, for any history of sweeps no two of which share a millisecond, any
strip, cursors, presets and spans, and any order of landings, answers and gestures.
Everything rests on the two units of time: stamps are ordered at least as strictly
as their milliseconds (`MsOrder`), and a whole millisecond is no later than any
stamp within it (`InstantOrder`). The invariant, `IInv`, says that every answer held is
one the server has given (`Known`), so "now" is the stamp of a sweep, if of an old one;
that an end meant to name a sweep *is* its stamp (`MeantIs`); and
that the index is what was asked, of the sweeps there were then (`IndexTrue`).
`RangeStaysOrdered` is not inductive: a range up to now is ordered against a head that
is not on screen, and `until` may become that head or be held past it at any
time. `EndsFit` adds that no start is past the newest sweep there is, and no end
further past it than the minute it is held at.

* `WhatWasSet`, `TimeMeansWhatWasSet`. A sweep that was named keeps answering with
  itself, since what lands later is later.
* `HeadIsReachable`, `LiveIsReachable`. The head is as near to itself as any sweep is
  to it, and ties go to the head; without an index there is nothing to compare.
* `StripDrawsAll`, `StripIsTheRecord`. An answer of the index that is shorter than
  its limit left nothing out: the newest row left out would have a full answer of
  newer ones (`NotCutOff`). And what landed since lies past the window.
* `JumpShowsOne`, `JumpShowsOneEvent`. Between the ends of a pair there is no other
  sweep of the index that is complete; one the index lacks is outside its window
  or landed later, and in neither case between two that it has.
* `ViewIsSteady`, `ViewFollows`. A window slid or rebuilt holds what it is rebuilt
  around, after it is clamped: to the head if the head is not earlier, to the
  largest span if they fit.

### The session

`Session_proofs`, for any fabrics, order of listing, addresses, instants
and failures, from `SessionAssumption`.

* `MapIsOfItsFabric`, `NeverTheOtherFabric`. The invariant `IInv` says where each
  piece of state comes from: a cached answer is of the fabric it was asked for, the
  held model of the fabric it is held for, the core of the model drawn, and the
  address was written under the list on hand. `AddressLeadsHere` (`LinkLeadsHere`) is
  a part of it.
* `PollsLeaveTheGraph`, `GraphSurvivesBadPolls`: if no answer comes and fabric,
  instant and layouts stay, then so does the screen, hence the core.
* `NoticesTell`, `NoticeTells`. `IInv` is not enough: what a notice compares with is
  kept across renders, so `SeenIsDrawn` adds that it is the answer drawn last.

### The live graph

`GraphCore_proofs`, for any fabric, models, layouts, filters, widths and order of sweeps,
folds, slides, drags and taps, from `CoreAssumption` (`Order` lists every element
once, layouts and spots are on the canvas), `NullAssumption` (null is none of the
values) and `ModelsAssumption` (a model has both ends of its links, as
`F/cy/reconcile.ts:68` takes for granted). The invariant is `CoreInv`: the core is
whole (`Whole`), shows the model through the filters (`Shows`), and has the selection
that is listed (`Mirrors`). The properties that relate two moments, or a core and a
layout, follow from it; none is inductive alone, for two reasons.

* A batch is applied element by element, and no element's step alone keeps the
  invariant: between the removal of a switch and the release of its leaves they have
  no owner. The recursions (`ReleaseEach`, `ResetAllCollapsed`, the filtered lists)
  are described by what holds after each step (`ReleaseSteps`, `FilterSteps`), and the
  handler as a whole by what it leaves behind (`Reconciled`, `Arrived`, `Lost`).
* What hides a leaf and what brings it back are in different places: the class
  `collapsed` and the scratch `leaf` of the leaf itself, the list `folded` of its switch, and
  the slide under way, if any. `Whole` says where the scratch of a leaf leads: to a
  switch in the graph that has the leaf on its list, or to one it is sliding out of.
  Without the second case the invariant is false during an unfold, without the
  first a switch that leaves, or is reset, could forget a leaf it hides.

The theorems:

* `TheCoreIsTheModel`, `CoreIsTheModel`: after any history the core has the elements of
  the model with their data, and the list is the selection, each element once.
* `ClassesAreRight`, `ClassesFollow`: a box is framed exactly while one of its members
  is on screen, and the classes of the filters are on what they select and nothing else.
* `NoLeafIsLost`, `HiddenHasOwner`: a leaf hidden by a fold is on the list of a folded
  switch that is in the graph, so it can always be brought out.
* `SavedIsRestored`, `SavedLayoutRestores`: what is saved of a folded graph is where its nodes
  stand unfolded, whichever of several folded switches a leaf is cabled to.
* `SurvivorsStay`, `SurvivorsKeepPlace`, an action property: whatever a sweep adds
  and removes, what stays keeps its place, its selection and its fold.

### The cards

`Cards_proofs`, for any sweeps, instants, thresholds and order of
selection, from `FabricAssumption` (a sweep says something of what it found, and
found nothing else), `OrderAssumption` and `TimesAssumption` (instants are of sweeps).

* `CardsShowTheirOwn`, `CardsAreTrue`. `CardInv`: the selection is a list without
  repetitions of what is drawn, and the model is of the instants on screen or of
  those before, while the new one is on its way. A card asks at an instant that has its
  element since a removed element is asked for at the start of the comparison; and
  what it lists is the difference as both of its sweeps are those of its model.
* `SummaryIsWhole`, `SummaryAddsUp`: every element selected is in one bucket of the
  summary (`OneBucketEach`), so the counts add up; what resolves to nothing is a box.
* `OneCardAtATime`, `CardsOpenOneByOne`, an action property of every step: however many
  elements it selects it opens one card at most, a poll closes no card of what is
  still there, a traversal closes its origin only. Each handler is described by what
  it does to the list and to the cards that are open (`CardStep`).
* `ForcedCardsWereAskedFor`, `EscapeHatch`. It needs `OffScreen` beside it: without a
  selection nothing is forced.

### The overlays

`Overlay_proofs`, for any models, answers, addresses, clock and order of masks, modes,
answers and polls, from `RollupAssumption` (a link has two ports, a line rate is
positive or missing, no inherited name is one of the panels), `NullAssumption` (null is none of
the values), `PastedAssumption` (a list names each of its names so many times), `ModelsAssumption`
(a model has both ends of its links and says what changed; one proved empty, that nothing did) and
`AnswersAssumption` (an answer of the counters is what `Assembled` makes of some readings, over
a positive span if anything was measured). The invariant, `PageInv`, is short. Of a page that
renders (`OverlayInv`): on the elements is written what mode,
view, model and answers ask for *now* (`Wanted`), every element has the colour of what is
written on it, the address is that of the view and the window trails. Of a blank one
(`BlankInv`): its address names an inherited window. Nothing else is remembered.
A pass that styles only what it wrote keeps the second part because what it leaves alone was
the same before, and because one that cleared anything styles everything (`ApplyIs`).

From the invariant to the properties is the longer way, since the code folds
over rows in their order and the properties speak of sets of rows:

* a sum over a finite set does not depend on the order in which `CHOOSE` takes its
  elements, and gains what is added (`SumTakes`, `SumAdds`): the one recursion that
  had to be reasoned about, by the size of the set;
* after `k` rows a node has the sum or the most of its own among them, a link the most of
  its ends, and doubtful are those of dubious rows (`RolledUpIs`), hence the value on an
  element is the `Figure` of the property (`FigureIs`);
* an answer has a row for each port that was not read or has something to say, with what it
  cannot report unless no port can (`RowListIs`, `AssembledIs`), by induction along the list
  of the ports;
* a bin is on the scale, and is missing only without a span (`BinIs`): colours of
  the ramp can be told apart, so swatches select and histograms count what they
  say (`RampSelects`, `PlainSelects`, `ChangesCount`).

The theorems:

* `ColoursTell`, `ColoursAreTrue`: the ramp is the figure of the rows on screen; grey are all
  elements if nothing was measured, and else exactly those with a dubious row; a selected
  counter that a port cannot report is grey or in the legend, unless the port has no row;
  and an overlay that is off has left nothing.
* `LegendsCount`, `LegendsAgree`: swatches select their colour, and counts are of what is
  drawn; a comparison proved empty has neither, and one colour.
* `ViewIsKept`, `ViewHolds`: the address leads back to the view, whatever address the page
  was opened with. Only a list that repeats a counter may be lost, and then for the default:
  a list without repetitions as long as the default and within it is the default
  (`OnesSum`, `SameIs`).

### Only model-checked

Every invariant and every action property of the runs that pass is stated by a theorem. What
is left to TLC is liveness under fairness, which the provers here do not reach:

| Run | Property | Why it should hold |
|---|---|---|
| `Collector` | `StopEnds` | every wait on the way out is timed |
| `ReadPath` | `LiveMapCatchesUp` | a poll asks again under a tag that has moved on |
| `Setup` | `RunsEnd` | runs wait for one another's transactions, never for each other, and an open one goes on or dies |
| `Session` | `LiveIsLive` | whatever fails is asked again, and the waiting screen asks for the list |

What the violations of `BadCycleHeals` and `BuildsOnItsLayout` refute is shown by their
traces. And TLC is what shows that the assumptions of the theorems can be met:
it evaluates them on the instances of the runs.

## What is not modelled, and the plan

In this order:

1. `Assemble` (`B/collector/ingest/topology/assemble.py`) and `Health`
   (`B/ibcore/health.py`): pure, as operators against a reference definition; which
   inputs make a sweep incomplete.
2. `Caps` (migration 004): capabilities are promoted, never withdrawn; a fact
   without its port row stops the whole promotion.
3. `TrafficRates` (`B/api/queries/counters.py`): observed cadence, windows, resets.
4. The identity cache of the API, the element-wise diff and the event counts.

Left out for good:

* the store of saved layouts. In one tab its calls are synchronous reads and writes
  of localStorage one after another, and what they do to the graph is in
  `GraphCore` and `Session`. Two tabs rewrite one key whole, without a lock: an update
  read before and written after another tab's removal brings the layout back, and
  an update of a layout that is gone returns silently while the panel reports it
  as updated (`F/layouts/useLayouts.ts:91`);
* the bodies of the cards, tables and formats, palettes, icons, tooltips, the wheel
  and the viewport, toasts' timers: rendering with no state anything else reads;
* text formats of the tools and their parsing, configuration, wiring of routes,
  packaging.
