------------------------------ MODULE MCOverlay ------------------------------
(***************************************************************************)
(* Overlay with a switch, two adapters and a link to each, one of them     *)
(* without a line rate; the map with everything, the map without the       *)
(* second adapter, a comparison in which that adapter left and its port of *)
(* the switch was cabled to the first, and one proved empty.               *)
(***************************************************************************)
EXTENDS Overlay, TLC

CONSTANTS s, a, b, e, f, h, box

Kinds  == s :> "switch" @@ a :> "ca" @@ b :> "ca"
Cables == e :> {s, a} @@ f :> {s, b} @@ h :> {s, a}
Boxed  == {box}
Plugs  == e :> {<<s, 1>>, <<a, 1>>} @@ f :> {<<s, 2>>, <<b, 1>>} @@ h :> {<<s, 2>>, <<a, 2>>}
Speeds == e :> 10000 @@ f :> None @@ h :> 10000

Groups3 == [cable |-> {"symbol_error", "link_downed"}, congestion |-> {"qp1_dropped"}, config |-> {}]
Lookbacks == "1h" :> 1 @@ "6h" :> 2
OfObjects == {"toString", "constructor"}

Unit(sys, health) == [sys |-> sys, health |-> health]
Port(health)      == [health |-> health]
Rack  == s :> Unit(None, "ok") @@ a :> Unit(box, "degraded") @@ b :> Unit(None, "ok")
Wires == e :> Port("degraded") @@ f :> Port("ok") @@ h :> Port("ok")
Only(of, ids) == [i \in ids |-> of[i]]

Stood(el) == [change |-> "unchanged", churn |-> 0, before |-> el, after |-> el]
Left(el)  == [change |-> "removed", churn |-> 1, before |-> el, after |-> None]
Came(el)  == [change |-> "added", churn |-> 1, before |-> None, after |-> el]

Whole    == FromTopology([nodes |-> Rack, links |-> Only(Wires, {e, f}), groups |-> {box}, resolved |-> 1])
Smaller  == FromTopology([nodes |-> Only(Rack, {s, a}), links |-> Only(Wires, {e}), groups |-> {box}, resolved |-> 1])
Compared == FromDiff([nodes  |-> s :> Stood(Rack[s]) @@ a :> Stood(Rack[a]) @@ b :> Left(Rack[b]),
                      links  |-> e :> Stood(Wires[e]) @@ f :> Left(Wires[f]) @@ h :> Came(Wires[h]),
                      groups |-> {box}, since |-> 0, until |-> 1, quiet |-> FALSE])
Quiet    == FromDiff([nodes  |-> s :> Stood(Rack[s]) @@ a :> Stood(Rack[a]),
                      links  |-> e :> Stood(Wires[e]),
                      groups |-> {box}, since |-> 0, until |-> 1, quiet |-> TRUE])
AllModels == {Whole, Smaller, Compared, Quiet}

Fact(node, port, grew) == [node |-> node, port |-> port, gated |-> {}, polled |-> TRUE,
                           fell |-> FALSE, grew |-> grew]
CannotCount(p, gated) == [p EXCEPT !.gated = gated]

\* Errors seen on both ends of e and by the switch itself on port 0.
Noisy == Assembled(
  <<Fact(s, 0, "qp1_dropped" :> 150),
    Fact(s, 1, "symbol_error" :> 6 @@ "xmit_wait" :> 400),
    Fact(a, 1, "symbol_error" :> 6),
    Fact(s, 2, "qp1_dropped" :> 7),
    CannotCount(Fact(b, 1, "link_downed" :> 2), {"qp1_dropped"})>>, 2)
\* One end of e was reset, one end of f not polled; no port counts stalls, and
\* of the two that cannot count drops one has nothing else to say.
Broken == Assembled(
  <<CannotCount(Fact(s, 0, <<>>), {"xmit_wait"}),
    CannotCount(Fact(s, 1, <<>>), CapGated),
    CannotCount([Fact(a, 1, "symbol_error" :> 40) EXCEPT !.fell = TRUE], {"xmit_wait"}),
    CannotCount([Fact(b, 1, <<>>) EXCEPT !.polled = FALSE], {"xmit_wait"}),
    CannotCount(Fact(s, 2, "link_downed" :> 9 @@ "xmit_wait" :> 1), CapGated)>>, 1)
Silent == Assembled(<<[Fact(s, 0, <<>>) EXCEPT !.polled = FALSE]>>, 0)
AllDeltas == {Noisy, Broken, Silent}

Flow(node, port, tx, rx) ==
  [node |-> node, port |-> port, no_data |-> FALSE, reset |-> FALSE, tx |-> tx, rx |-> rx]
Counted(measured, ports) == [measured |-> measured, ports |-> ports]
Busy   == Counted(4, <<Flow(s, 0, 40, 0), Flow(s, 1, 9000, 100),
                       Flow(a, 1, 90, 6500), Flow(b, 1, 2000, 0)>>)
Missed == Counted(2, <<Flow(s, 1, 300, 300), [Flow(a, 1, 0, 0) EXCEPT !.reset = TRUE]>>)
AllRates == {Busy, Missed}

Typed == [mask |-> "errors", win |-> "6h", counters |-> <<>>, rollup |-> "sum"]
Aged  == [mask |-> "stalls", win |-> "2d", counters |-> Once({"symbol_error", "retired"}), rollup |-> None]
\* A mask every object has, and a counter often enough to pass for the default.
Odd   == [mask |-> "constructor", win |-> None, counters |-> "link_downed" :> 2, rollup |-> None]
Dead  == [mask |-> "errors", win |-> "toString", counters |-> None, rollup |-> None]
Addresses == {NoSearch, Typed, Aged, Odd, Dead}

HealthValues == {"ok", "degraded", "down", "unknown"}
ChangeValues == {"added", "removed", "modified", "unchanged"}
=============================================================================
