------------------------------- MODULE Rollups -------------------------------
(***************************************************************************)
(* From rows about ports to what an element of the graph shows: the three  *)
(* rollups of model/counters.ts, the scales of cy/overlay.ts and the masks *)
(* of view/mask.ts with their query string (view/url.ts).                  *)
(*                                                                         *)
(* A payload is sparse: a port without a row was measured and had nothing. *)
(* Rates are in hundredths of a Gbps and shares in thousandths, integers   *)
(* where the source has doubles.                                           *)
(***************************************************************************)
EXTENDS GraphModel, FiniteSetsExt

CONSTANTS
  Cable,      \* of every link: its two ports, each <<node, number>>
  LineRate,   \* of every link: rate_gbps, or None
  Groupings,  \* COUNTER_GROUPS: cable, congestion and config counters
  Windows,    \* WINDOWS: lookback of every window
  Inherited   \* the names every object has, toString among them

ASSUME RollupAssumption ==
  /\ \A l \in Links : Cardinality(Cable[l]) = 2 /\ {p[1] : p \in Cable[l]} = Ends[l]
  /\ \A l \in Links : LineRate[l] = None \/ LineRate[l] \in Nat \ {0}
  /\ DOMAIN Groupings = {"cable", "congestion", "config"}
  /\ \A g \in DOMAIN Groupings : IsFiniteSet(Groupings[g])
  /\ "1h" \in DOMAIN Windows /\ \A w \in DOMAIN Windows : Windows[w] \in Nat
  /\ Inherited \cap ({"health", "change", "errors", "congestion", "utilisation", "throughput"}
                       \cup DOMAIN Windows) = {}

-----------------------------------------------------------------------------
(* Lists of names, of which only the names and how often each is there      *)
(* matter.                                                                 *)

\* The sum of f over a finite set.
SumOver(S, f) ==
  LET sum[T \in SUBSET S] ==
        IF T = {} THEN 0
        ELSE LET x == CHOOSE x \in T : TRUE IN f[x] + sum[T \ {x}]
  IN  sum[S]

Once(S) == [x \in S |-> 1]

\* As long, and nothing in the first that is not in the second.
SameSet(a, b) ==
  /\ SumOver(DOMAIN a, a) = SumOver(DOMAIN b, b)
  /\ DOMAIN a \subseteq DOMAIN b

-----------------------------------------------------------------------------
(* Masks.                                                                  *)

CongestionCounter == "xmit_wait"
DefaultSelection  == Once(Groupings.cable)
Selectable        == UNION {Groupings[g] : g \in DOMAIN Groupings}

Overlays == {"errors", "congestion", "utilisation", "throughput"}
Masks    == {"health", "change"} \cup Overlays

OverlayOf(mask) == IF mask \in Overlays THEN mask ELSE None

MasksFor(mode)    == IF mode = "compare" THEN {"change"} ELSE Masks \ {"change"}
DefaultMask(mode) == IF mode = "compare" THEN "change" ELSE "health"
MaskFor(mode, wanted) == IF wanted \in MasksFor(mode) THEN wanted ELSE DefaultMask(mode)

DefaultView == [mask |-> "health", window |-> "1h",
                counters |-> DefaultSelection, rollup |-> "max"]

\* Only the errors mask honours the checkboxes.
CountersFor(view) ==
  CASE view.mask = "congestion" -> {CongestionCounter}
    [] view.mask = "errors"     -> DOMAIN view.counters
    [] OTHER                    -> {}

\* `in` on a plain object is true of what every object inherits, too.
isMask(s)      == s \in Masks \cup Inherited
isWindowKey(s) == s \in DOMAIN Windows \cup Inherited

\* The query string: None for a parameter that is absent.
NoSearch == [mask |-> None, win |-> None, counters |-> None, rollup |-> None]

ParseView(q) ==
  [mask     |-> IF isMask(q.mask) THEN q.mask ELSE DefaultView.mask,
   window   |-> IF isWindowKey(q.win) THEN q.win ELSE DefaultView.window,
   counters |-> IF q.counters = None THEN DefaultView.counters
                ELSE [c \in DOMAIN q.counters \cap Selectable |-> q.counters[c]],
   rollup   |-> IF q.rollup = "sum" THEN "sum" ELSE DefaultView.rollup]

\* A lookback that is no number has no instant: App throws as it renders.
Renders(view) == view.window \in DOMAIN Windows

Unless(default, v) == IF v = default THEN None ELSE v

\* Mutant: an empty selection is left out, and springs back to the default.
MutViewSearch(view) ==
  [mask     |-> Unless(DefaultView.mask, view.mask),
   win      |-> Unless(DefaultView.window, view.window),
   counters |-> IF \/ OverlayOf(view.mask) # "errors" \/ DOMAIN view.counters = {}
                   \/ SameSet(view.counters, DefaultView.counters)
                  THEN None ELSE view.counters,
   rollup   |-> Unless(DefaultView.rollup, view.rollup)]

ViewSearch(view) ==
  [mask     |-> Unless(DefaultView.mask, view.mask),
   win      |-> Unless(DefaultView.window, view.window),
   counters |-> IF \/ OverlayOf(view.mask) # "errors"
                   \/ SameSet(view.counters, DefaultView.counters)
                  THEN None ELSE view.counters,
   rollup   |-> Unless(DefaultView.rollup, view.rollup)]

-----------------------------------------------------------------------------
(* The answer of the counter route (queries/counters.py assemble).          *)

\* The counters a port may be unable to report.
CapGated == {"xmit_wait", "qp1_dropped"}

\* Of a port: the counters it cannot report, whether it was read enough to
\* subtract, what grew and whether a counter fell.
Growth(f) == IF f.polled THEN [c \in DOMAIN f.grew \ f.gated |-> f.grew[c]] ELSE <<>>

\* Read, and nothing to say: such a port has no row.
Still(f) == f.polled /\ ~f.fell /\ DOMAIN Growth(f) = {}

RowOf(f, everywhere) ==
  [node |-> f.node, port |-> f.port, no_data |-> ~f.polled, reset |-> f.polled /\ f.fell,
   d |-> Growth(f), unsupported |-> f.gated \ everywhere]

\* The rows of the ports in K, in the order of the facts.
RowList(facts, K, everywhere) ==
  LET rows[k \in 0 .. Len(facts)] ==
        IF k = 0 THEN <<>>
        ELSE IF k \in K THEN Append(rows[k - 1], RowOf(facts[k], everywhere)) ELSE rows[k - 1]
  IN  rows[Len(facts)]

GatedBy(facts, c)  == Cardinality({k \in DOMAIN facts : c \in facts[k].gated})
Gated(facts)       == {c \in CapGated : GatedBy(facts, c) > 0}
Everywhere(facts)  == {c \in Gated(facts) : GatedBy(facts, c) = Len(facts)}
PolledOf(facts)    == {k \in DOMAIN facts : facts[k].polled}

\* `facts` lists the ports of the fabric.  What no port can report is said once
\* and taken out of the rows.
Assembled(facts, span) ==
  LET measured == Cardinality(PolledOf(facts))
      rows(K)  == RowList(facts, K, Everywhere(facts))
  IN  [measured |-> measured, expected |-> Len(facts),
       unsupported |-> [c \in Gated(facts) |-> GatedBy(facts, c)],
       span |-> IF measured > 0 THEN span ELSE None,
       ports |-> rows({k \in PolledOf(facts) : ~Still(facts[k])})
                 \o (IF measured > 0 THEN rows(DOMAIN facts \ PolledOf(facts)) ELSE <<>>),
       facts |-> facts] \* not sent: what the properties compare the colours with

-----------------------------------------------------------------------------
(* Scales.                                                                 *)

ErrorBins       == <<1, 10, 100, 1000, 100000>>
CongestionBins  == <<1, 100, 10000, 100000, 1000000>>
UtilisationBins == <<5, 200, 400, 600, 800>>
ThroughputBins  == <<1, 100, 1000, 5000, 10000>>
BinCount        == 6

\* The first threshold a value is below, or the last bin.
BinOn(bins, below) == IF below = {} THEN Len(bins) ELSE Min(below) - 1

Above(bins, v) == {i \in DOMAIN bins : v < bins[i]}

BinErrors(v) == IF v > 0 THEN BinOn(ErrorBins, Above(ErrorBins, v)) ELSE 0

\* Without a span there is no stall rate, and none is not zero.
BinCongestion(ticks, span) ==
  CASE span = None \/ span = 0 -> None
    [] ticks = 0               -> 0
    [] OTHER -> BinOn(CongestionBins,
                      {i \in DOMAIN CongestionBins : ticks < CongestionBins[i] * span})

BinUtilisation(v) == IF v > 0 THEN BinOn(UtilisationBins, Above(UtilisationBins, v)) ELSE 0
BinThroughput(v)  == IF v > 0 THEN BinOn(ThroughputBins, Above(ThroughputBins, v)) ELSE 0

Bin(overlay, v, span) ==
  CASE overlay = "errors"      -> BinErrors(v)
    [] overlay = "congestion"  -> BinCongestion(v, span)
    [] overlay = "utilisation" -> BinUtilisation(v)
    [] overlay = "throughput"  -> BinThroughput(v)

-----------------------------------------------------------------------------
(* Rollups.  A value for each node and link, the elements whose value is   *)
(* not a measurement, and whether anything was measured at all.            *)

Drawn(m) == DOMAIN m.nodes \cup DOMAIN m.links

NoValues == [nodes |-> [i \in {} |-> 0], links |-> [i \in {} |-> 0],
             untrusted |-> {}, unmeasured |-> TRUE]

Unmeasured(m) == [NoValues EXCEPT !.untrusted = Drawn(m)]

Seed(m) == [nodes |-> [n \in DOMAIN m.nodes |-> 0], links |-> [l \in DOMAIN m.links |-> 0],
            untrusted |-> {}, unmeasured |-> FALSE]

\* The link of a port, or None: switch port 0 has no cable.
LinkAt(m, p) ==
  IF \E l \in DOMAIN m.links : <<p.node, p.port>> \in Cable[l]
    THEN CHOOSE l \in DOMAIN m.links : <<p.node, p.port>> \in Cable[l]
    ELSE None

AddToNode(acc, n, v, mode) ==
  [acc EXCEPT !.nodes[n] = IF mode = "sum" THEN @ + v ELSE Max({@, v})]

\* The worse of the two ends.
AddToLink(acc, l, v) ==
  IF l = None THEN acc ELSE [acc EXCEPT !.links[l] = Max({@, v})]

Distrust(acc, is) == [acc EXCEPT !.untrusted = @ \cup (is \ {None})]

\* A row about hardware that is drawn, and what it says: a value, or None, and
\* the elements it makes doubtful.
Take(acc, p, said, m, mode) ==
  IF p.node \notin DOMAIN m.nodes THEN acc
  ELSE Distrust(IF said.value = None THEN acc
                ELSE AddToLink(AddToNode(acc, p.node, said.value, mode), LinkAt(m, p), said.value),
                said.doubt)

\* Row after row.
RolledUp(m, mode, rows, says) ==
  LET acc[k \in 0 .. Len(rows)] ==
        IF k = 0 THEN Seed(m) ELSE Take(acc[k - 1], rows[k], says[k], m, mode)
  IN  acc[Len(rows)]

Saying(v, doubt) == [value |-> v, doubt |-> doubt]

\* The selected counters summed on one port, and whether the sum is honest: a
\* reset floors it, and a counter the port cannot report is a made-up zero.
PortValue(p, selected) ==
  IF p.no_data THEN 0 ELSE SumOver(selected \cap DOMAIN p.d, p.d)

Honest(p, selected) == ~p.no_data /\ ~p.reset /\ p.unsupported \cap selected = {}

ErrorsOf(p, m, selected) ==
  Saying(PortValue(p, selected), IF Honest(p, selected) THEN {} ELSE {p.node, LinkAt(m, p)})

Rollup(d, m, selected, mode) ==
  IF d = None \/ selected = {} \/ d.measured = 0 THEN Unmeasured(m)
  ELSE RolledUp(m, mode, d.ports, [k \in DOMAIN d.ports |-> ErrorsOf(d.ports[k], m, selected)])

\* The selected counters no port can report: a line of the legend, no taint.
OmittedOf(d, selected) ==
  {c \in selected : d # None /\ d.expected > 0
                    /\ c \in DOMAIN d.unsupported /\ d.unsupported[c] >= d.expected}

Busier(p) == Max({p.tx, p.rx})

\* Both directions as a share of the line rate; a port in no link has none.
UtilisationOf(p, l) ==
  IF l = None THEN None
  ELSE IF LineRate[l] = None THEN None ELSE (Busier(p) * 1000) \div LineRate[l]

\* Unpolled, or a byte counter that wrapped: neither is idle.
Unread(p) == p.no_data \/ p.reset

\* A port without a share makes its link doubtful, not its node.
ShareOf(p, m) ==
  LET l   == LinkAt(m, p)
      pct == UtilisationOf(p, l)
  IN  CASE Unread(p)                  -> Saying(None, {p.node, l})
        [] ~Unread(p) /\ pct = None -> Saying(None, {l})
        [] OTHER                      -> Saying(pct, {})

FlowOf(p, m) ==
  IF Unread(p) THEN Saying(None, {p.node, LinkAt(m, p)}) ELSE Saying(Busier(p), {})

RollupTraffic(r, m, mode) ==
  IF r = None \/ r.measured = 0 THEN Unmeasured(m)
  ELSE RolledUp(m, mode, r.ports, [k \in DOMAIN r.ports |-> ShareOf(r.ports[k], m)])

RollupThroughput(r, m, mode) ==
  IF r = None \/ r.measured = 0 THEN Unmeasured(m)
  ELSE RolledUp(m, mode, r.ports, [k \in DOMAIN r.ports |-> FlowOf(r.ports[k], m)])

-----------------------------------------------------------------------------
(* What an element shows.                                                  *)

Known(values, i) ==
  i \in DOMAIN values.nodes \cup DOMAIN values.links \cup values.untrusted

ValueOf(values, i) ==
  CASE i \in DOMAIN values.nodes -> values.nodes[i]
    [] i \in DOMAIN values.links -> values.links[i]
    [] OTHER                     -> 0

\* Untrusted wins over any number, and so does a value on no scale.
BinFor(overlay, values, span, i) ==
  LET bin == Bin(overlay, ValueOf(values, i), span)
  IN  IF i \in values.untrusted \/ bin = None
        THEN [overlay |-> overlay, bin |-> 0, untrusted |-> TRUE]
        ELSE [overlay |-> overlay, bin |-> bin, untrusted |-> FALSE]
=============================================================================
