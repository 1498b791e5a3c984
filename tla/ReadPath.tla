-------------------------------- MODULE ReadPath --------------------------------
(***************************************************************************)
(* The read path: how the API answers a request as of an instant or live,  *)
(* with which validator and freshness policy (api/db.py, routes/deps.py,   *)
(* the tags of routes/detail.py and routes/counters.py), and what a        *)
(* browser that keeps the answers ends up showing (frontend/src/api).      *)
(*                                                                         *)
(* A handler is not one step: the tag is computed first, and each          *)
(* statement of the query then sees the tables as they are by that time.   *)
(* The collector commits in between: a topology sweep, stamped when it was *)
(* read; its error rows, which carry the same stamp and land later; and    *)
(* traffic sweeps, on a thread of their own.                               *)
(*                                                                         *)
(* The state tables are represented by what TopologyWriter shows of them:  *)
(* as of t they say what the last complete sweep collected up to t read.   *)
(* Counter rows are represented by their times.                            *)
(***************************************************************************)
EXTENDS Integers, Sequences, FiniteSets, FiniteSetsExt

CONSTANTS
  Content,     \* what a topology sweep may read
  Resources,   \* the URLs a browser may be asking for
  Window,      \* the traffic window, in instants
  Lookback,    \* how far before the window a baseline may lie
  MaxSweeps,   \* bound on topology sweeps, for each kind of resource
  MaxDumps,    \* bound on traffic sweeps, likewise
  Horizon      \* bound on the clock

Live == -1     \* `at` is None

Kind     == {"map", "card", "card with traffic", "traffic"}
Resource == [kind : Kind, at : {Live} \cup 1 .. Horizon]

ASSUME ReadPathAssumption ==
  /\ Resources \subseteq Resource
  /\ Window \in Nat \ {0}
  /\ Lookback \in Nat
  /\ MaxSweeps \in [Kind -> Nat] /\ MaxDumps \in [Kind -> Nat]
  /\ Horizon \in Nat \ {0}

VARIABLES
  now,         \* the wall clock
  phase,       \* where the collector's cycle is: idle, topology or errors
  obs,         \* its Observation: when collected, what it says, whether complete
  snapshots,   \* topology_snapshot, committed
  errorRows,   \* the times of the rows of port_errors
  dump,        \* the time of the traffic dump being written, 0 if none
  trafficRows, \* the times of the rows of port_traffic
  url,         \* what the browser asks for; answers to two URLs share nothing
  cache,       \* the browser's stored response
  request      \* the request being answered

collector == <<phase, obs, snapshots, errorRows>>
traffic   == <<dump, trafficRows>>
browser   == <<url, cache, request>>
vars      == <<now, collector, traffic, browser>>

Observation == [at : 0 .. Horizon, content : Content, complete : BOOLEAN]

-----------------------------------------------------------------------------
(* The collector. *)

Tick ==
  /\ now < Horizon
  /\ now' = now + 1
  /\ UNCHANGED <<collector, traffic, browser>>

LastSweep == IF snapshots = <<>> THEN 0 ELSE snapshots[Len(snapshots)].at

\* The loop waits out its interval between cycles.
Spaced == now > LastSweep

\* saquery has answered: collected_at is the clock now.
Sweep(content, complete) ==
  /\ phase = "idle"
  /\ Spaced
  /\ Len(snapshots) < MaxSweeps[url.kind]
  /\ obs' = [at |-> now, content |-> content, complete |-> complete]
  /\ phase' = "topology"
  /\ UNCHANGED <<now, snapshots, errorRows, traffic, browser>>

\* Writer.write commits.
CommitTopology ==
  /\ phase = "topology"
  /\ snapshots' = Append(snapshots, obs)
  /\ phase' = "errors"
  /\ UNCHANGED <<now, obs, errorRows, traffic, browser>>

\* error_cycle: rows carry the topology sweep's instant.
CommitErrors ==
  /\ phase = "errors"
  /\ errorRows' = errorRows \cup {obs.at}
  /\ phase' = "idle"
  /\ UNCHANGED <<now, obs, snapshots, traffic, browser>>

\* A cycle fails in its topology half or in its error half, or is killed there.
CycleFails ==
  /\ phase # "idle"
  /\ phase' = "idle"
  /\ UNCHANGED <<now, obs, snapshots, errorRows, traffic, browser>>

\* traffic_sweep: the dump is read and stamped ...
TrafficDump ==
  /\ dump = 0
  /\ now \notin trafficRows
  /\ Cardinality(trafficRows) < MaxDumps[url.kind]
  /\ dump' = now
  /\ UNCHANGED <<now, collector, trafficRows, browser>>

\* ... and committed.
TrafficCommit ==
  /\ dump # 0
  /\ trafficRows' = trafficRows \cup {dump}
  /\ dump' = 0
  /\ UNCHANGED <<now, collector, browser>>

-----------------------------------------------------------------------------
(* Resolving an instant. *)

Requested(at) == IF at = Live THEN now ELSE at

Newest(S) == Max(S \cup {0})

\* Database.resolve: the newest complete sweep at or before the instant.
\* Stamps grow with snapshot_id.  0 is none.
Resolved(at) ==
  Newest({i \in DOMAIN snapshots : snapshots[i].complete /\ snapshots[i].at <= Requested(at)})

\* The newest traffic sweep, _TRAFFIC_MARK and _TRAFFIC_SWEEP_MARK.
Mark(at) == Newest({t \in trafficRows : t <= Requested(at)})

-----------------------------------------------------------------------------
(* Tags and freshness. *)

\* not_modified, _detail_tag, and the tag of routes/counters.traffic.  The digest
\* and the window follow from the rest.
Tag(r) ==
  [snapshot |-> IF r.kind = "traffic" THEN 0 ELSE Resolved(r.at),
   mark     |-> IF r.kind \in {"card with traffic", "traffic"} THEN Mark(r.at) ELSE 0]

\* Mutant: a request without an instant is taken for a past one.
MutImmutable(r) == r.at < now

\* _validate: an answer for a past instant may be kept for ever; any other is
\* asked for again each time it is used.
Immutable(r) == r.at # Live /\ r.at < now

-----------------------------------------------------------------------------
(* Reading. *)

\* Mutant: the rows in force now, whatever the instant.
MutStateSweep(at) == Newest({i \in DOMAIN snapshots : snapshots[i].complete})

\* The rows in force: valid_to IS NULL, or valid at the instant asked for.
StateSweep(at) ==
  Newest({i \in DOMAIN snapshots :
            snapshots[i].complete /\ (at = Live \/ snapshots[i].at <= at)})

StateRows(at) ==
  IF StateSweep(at) = 0 THEN {} ELSE {snapshots[StateSweep(at)].content}

\* What a card's error counters are read from.
ErrorsUpTo(until) == Newest({t \in errorRows : t <= until})

\* _T_BASELINE, _T_LATEST and rate_between: the two readings a rate is taken
\* from, if there are two.
RateOver(until) ==
  LET since   == until - Window
      UpTo(t) == {x \in trafficRows : since - Lookback < x /\ x <= t}
      base    == Newest(UpTo(since))
      last    == Newest(UpTo(until))
  IN  IF base # 0 /\ base < last THEN {<<base, last>>} ELSE {}

\* _counters_for, _traffic_for: a live card reads up to its resolved sweep.
CardUntil(r, snapshot) == IF r.at = Live THEN snapshots[snapshot].at ELSE r.at

\* The first statement of the query: nodes of the map, the ports of a card.
FirstRead(r) == IF r.kind = "traffic" THEN {} ELSE StateRows(r.at)

\* The statements after it: links of the map, counters of a card, the rates.
SecondRead(r, snapshot, until) ==
  CASE r.kind = "map"               -> [state  |-> StateRows(r.at)]
    [] r.kind = "card"              -> [errors |-> ErrorsUpTo(CardUntil(r, snapshot))]
    [] r.kind = "card with traffic" -> [rate   |-> RateOver(CardUntil(r, snapshot))]
    [] r.kind = "traffic"           -> [rate   |-> RateOver(until)]

-----------------------------------------------------------------------------
(* The browser, one request at a time. *)

NoEntry == [stored |-> FALSE]

NoRequest == [open |-> FALSE]

\* A stored answer that is immutable is used without asking.  No complete sweep
\* to resolve to is a 404.
MayAsk ==
  /\ ~ request.open
  /\ ~ (cache.stored /\ cache.immutable)
  /\ url.kind # "traffic" => Resolved(url.at) # 0

\* If-None-Match matches: 304, the stored body stands.
Revalidate ==
  /\ MayAsk
  /\ cache.stored /\ cache.tag = Tag(url)
  /\ cache' = [cache EXCEPT !.immutable = Immutable(url)]
  /\ UNCHANGED <<now, collector, traffic, url, request>>

\* Otherwise the handler goes on to its query, with what it has resolved.
Ask ==
  /\ MayAsk
  /\ ~ (cache.stored /\ cache.tag = Tag(url))
  /\ request' = [open |-> TRUE, read |-> FALSE, first |-> {},
                 until |-> Requested(url.at), seen |-> Len(snapshots),
                 tag |-> Tag(url), immutable |-> Immutable(url),
                 snapshot |-> Resolved(url.at)]
  /\ UNCHANGED <<now, collector, traffic, url, cache>>

ReadFirst ==
  /\ request.open /\ ~ request.read
  /\ request' = [request EXCEPT !.read = TRUE, !.first = FirstRead(url)]
  /\ UNCHANGED <<now, collector, traffic, url, cache>>

\* Mutant: the tag is computed when the body is.
MutSentTag == Tag(url)

\* The validator was attached before the query ran.
SentTag == request.tag

\* The rest is read and the response is sent and stored.  (seen is history: the
\* sweeps there were when the request came in.)
Respond ==
  /\ request.open /\ request.read
  /\ cache' = [stored |-> TRUE, tag |-> SentTag, immutable |-> request.immutable,
               seen |-> request.seen, first |-> request.first,
               second |-> SecondRead(url, request.snapshot, request.until)]
  /\ request' = NoRequest
  /\ UNCHANGED <<now, collector, traffic, url>>

\* The request is aborted or fails; what was stored stays.
Drop ==
  /\ request.open
  /\ request' = NoRequest
  /\ UNCHANGED <<now, collector, traffic, url, cache>>

-----------------------------------------------------------------------------
Init ==
  /\ now = 1
  /\ phase = "idle"
  /\ obs \in {[at |-> 0, content |-> c, complete |-> FALSE] : c \in Content}
  /\ snapshots = <<>>
  /\ errorRows = {}
  /\ dump = 0 /\ trafficRows = {}
  /\ url \in Resources
  /\ cache = NoEntry
  /\ request = NoRequest

CollectorStep ==
  \/ \E content \in Content, complete \in BOOLEAN : Sweep(content, complete)
  \/ CommitTopology \/ CommitErrors \/ CycleFails
  \/ TrafficDump \/ TrafficCommit

Poll == Ask \/ Revalidate

\* Not a step of the program: where the bounds end the model.
AtBound == now = Horizon /\ UNCHANGED vars

Next ==
  \/ Tick \/ AtBound
  \/ CollectorStep
  \/ Poll
  \/ ReadFirst \/ Respond \/ Drop

\* Live resources are asked for on a timer, and a request that is made again and
\* again is answered again and again.  Nothing is assumed of the collector.
Spec ==
  /\ Init /\ [][Next]_vars
  /\ SF_vars(url.at = Live /\ Ask) /\ SF_vars(ReadFirst) /\ SF_vars(Respond)

-----------------------------------------------------------------------------
(* Properties. *)

Reads == [state : SUBSET Content] \cup [errors : 0 .. Horizon]
         \cup [rate : SUBSET ((1 .. Horizon) \X (1 .. Horizon))]

Entry == [stored : {TRUE}, tag : [snapshot : 0 .. Horizon, mark : 0 .. Horizon],
          immutable : BOOLEAN, seen : 0 .. Horizon,
          first : SUBSET Content, second : Reads]

\* Every variable has its type, and sweeps are stamped in the order they commit.
TypeOK ==
  /\ now \in 1 .. Horizon
  /\ phase \in {"idle", "topology", "errors"}
  /\ obs \in Observation
  /\ snapshots \in Seq(Observation)
  /\ \A i, j \in DOMAIN snapshots : i < j => snapshots[i].at < snapshots[j].at
  /\ errorRows \subseteq 1 .. Horizon /\ trafficRows \subseteq 1 .. Horizon
  /\ dump \in 0 .. Horizon
  /\ url \in Resources
  /\ cache \in {NoEntry} \cup Entry
  /\ request.open \in BOOLEAN

\* What the browser has is what the API would answer now.
UpToDate ==
  /\ cache.first = FirstRead(url)
  /\ cache.second = SecondRead(url, Resolved(url.at), Requested(url.at))

\* The next time the browser asks, the answer is a 304.
WouldRevalidate == MayAsk /\ cache.stored /\ cache.tag = Tag(url)

\* "Cached copy is still current" (deps.not_modified): whenever the validator
\* would match, the stored map is the map, nodes and links, although commits may
\* have fallen between the resolution and the two reads.
MapValidatorHolds ==
  url.kind = "map" /\ WouldRevalidate => UpToDate

\* The tag of a card says nothing of its error counters ("Errors need nothing
\* more", _detail_tag): a kept card has the ports of the sweep it is resolved to,
\* and the error rows of every sweep before that one; it may lack those of that
\* sweep itself, which land after it, and of incomplete sweeps that followed.
CardValidatorHolds ==
  url.kind = "card" /\ WouldRevalidate =>
    /\ cache.first = FirstRead(url)
    /\ \A t \in errorRows : t < snapshots[Resolved(url.at)].at => t <= cache.second.errors

\* With traffic the tag has the sweep mark too, and the kept rates, which a card
\* reads up to its sweep and not up to now, are the rates.
TrafficCardValidatorHolds ==
  url.kind = "card with traffic" /\ WouldRevalidate => UpToDate

\* The same of the rates pinned at an instant, which may be asked for before the
\* instant comes: the sweep mark moves whenever the answer does.
PinnedRatesValidatorHolds ==
  url.kind = "traffic" /\ url.at # Live /\ WouldRevalidate => UpToDate

\* Live rates are over a window that moves on while the mark stands, so a kept
\* answer is revalidated past its window (routes/counters.traffic leaves the clock
\* out of the tag): what holds is that each rate is taken to the newest dump.
LiveRatesValidatorHolds ==
  url.kind = "traffic" /\ url.at = Live /\ WouldRevalidate =>
    \A pair \in cache.second.rate : pair[2] = Mark(Live)

\* A tag that is still current vouches for what its comment says it does: a whole
\* map, the ports of a card and the errors of the sweeps before its own, the rates
\* of a card and those pinned at an instant, and of live rates the dump only.
ValidatorsHold ==
  /\ TypeOK
  /\ MapValidatorHolds
  /\ CardValidatorHolds
  /\ TrafficCardValidatorHolds
  /\ PinnedRatesValidatorHolds
  /\ LiveRatesValidatorHolds

\* "Historical data never goes stale" (frontend/src/api/queries.ts 6): an answer
\* kept for ever is the answer for ever, when a sweep collected after the instant
\* was in before the question was asked, for maps and cards alike: the error half
\* of a cycle is over before the next cycle starts.
SettledHistoryIsFixed ==
  /\ url.kind \in {"map", "card"}
  /\ cache.stored /\ cache.immutable
  /\ \E i \in 1 .. cache.seen : snapshots[i].at > url.at
  => UpToDate

\* Once the collector is quiet, a live map that is being polled ends up being the
\* map: no interleaving of commits and reads leaves the browser with a torn or
\* an old map that its tag vouches for.
LiveMapCatchesUp ==
  url.kind = "map" /\ url.at = Live =>
    []<>(Resolved(Live) = 0 \/ (cache.stored /\ UpToDate))
=============================================================================
