----------------------------- MODULE MCGraphCore -----------------------------
(***************************************************************************)
(* GraphCore with two switches, an adapter cabled to both and one cabled   *)
(* to the first, the adapters in one chassis; then the first switch gone,  *)
(* and a comparison without the adapter on both and with the chassis apart. *)
(***************************************************************************)
EXTENDS GraphCore, TLC

CONSTANTS s1, s2, a, b, e1, e2, e3, box

Kinds  == s1 :> "switch" @@ s2 :> "switch" @@ a :> "ca" @@ b :> "ca"
Cables == e1 :> {s1, a} @@ e2 :> {s2, a} @@ e3 :> {s1, b}
Boxed  == {box}
Sorted == <<s1, s2, box, a, b, e1, e2, e3>>

Port(health)      == [health |-> health]
Unit(sys, health) == [sys |-> sys, health |-> health]
Rack  == s1 :> Unit(None, "ok") @@ s2 :> Unit(None, "ok")
         @@ a :> Unit(box, "ok") @@ b :> Unit(box, "ok")
Wires == e1 :> Port("ok") @@ e2 :> Port("ok") @@ e3 :> Port("down")

Only(f, ids) == [i \in ids |-> f[i]]
Topology(ns, ls, groups) ==
  [nodes |-> Only(Rack, ns), links |-> Only(Wires, ls), groups |-> groups, resolved |-> 1]

Stood(el, churn) == [change |-> "unchanged", churn |-> churn, before |-> el, after |-> el]
Left(el)         == [change |-> "removed", churn |-> 1, before |-> el, after |-> None]
Came(el)         == [change |-> "added", churn |-> 1, before |-> None, after |-> el]

Split ==
  [nodes  |-> s1 :> Stood(Rack[s1], 0) @@ s2 :> Left(Rack[s2]) @@ b :> Came(Unit(None, "ok")),
   links  |-> e3 :> Stood(Wires[e3], 2),
   groups |-> {}, since |-> 0, until |-> 1, quiet |-> FALSE]

Whole    == FromTopology(Topology({s1, s2, a, b}, {e1, e2, e3}, {box}))
Headless == FromTopology(Topology({s2, a, b}, {e2}, {box}))
Compared == FromDiff(Split)
AllModels == {Whole, Headless, Compared}

Setting(dim, hide, mark) ==
  [dimHealthy |-> dim, hideCAs |-> hide, highlightChanges |-> mark]
Settings == {Setting(FALSE, FALSE, FALSE), Setting(TRUE, TRUE, TRUE)}

Where == s1 :> {0} @@ s2 :> {0} @@ a :> {1} @@ b :> {2}
SavedLayouts == {s1 :> 1 @@ a :> 2}
Picked == {box}
=============================================================================
