------------------------------ MODULE GraphModel ------------------------------
(***************************************************************************)
(* What the graph is to draw (model/graph.ts) and the elements it becomes  *)
(* (cy/adapter.ts), from either response of the API: a topology, or a      *)
(* comparison whose entries carry what stood before and what stands after. *)
(*                                                                         *)
(* A node keeps its kind and a link its two ends for as long as its id     *)
(* lives.  A chassis box is named by its group, as parentId does one to    *)
(* one.  A response is a function from ids to what it says of each.        *)
(***************************************************************************)
EXTENDS Integers, FiniteSets, Sequences

CONSTANTS
  Kind,   \* of every node: "switch" or "ca"
  Ends,   \* of every link: the set of its two nodes
  Groups, \* systemImageGuids
  None    \* null, undefined

Nodes == DOMAIN Kind
Links == DOMAIN Ends

ASSUME GraphAssumption ==
  /\ \A e \in Links : Ends[e] \subseteq Nodes /\ Cardinality(Ends[e]) = 2
  /\ Nodes \cap Links = {} /\ Groups \cap (Nodes \cup Links) = {}
  /\ None \notin Nodes \cup Links \cup Groups

-----------------------------------------------------------------------------
\* list.filter, as every list of ids is cut down to some of them.
Filtered(list, ids) ==
  LET kept[k \in 0 .. Len(list)] ==
        IF k = 0 THEN <<>>
        ELSE IF list[k] \in ids THEN Append(kept[k - 1], list[k]) ELSE kept[k - 1]
  IN  kept[Len(list)]

-----------------------------------------------------------------------------
(* Producers. *)

AsUnchanged(el) ==
  [el |-> el, change |-> "unchanged", churn |-> 0, before |-> None, after |-> el]

FromTopology(t) ==
  [mode   |-> "single",
   nodes  |-> [n \in DOMAIN t.nodes |-> AsUnchanged(t.nodes[n])],
   links  |-> [l \in DOMAIN t.links |-> AsUnchanged(t.links[l])],
   groups |-> t.groups, resolved |-> t.resolved, since |-> None,
   unchangedGuaranteed |-> FALSE]

\* `quiet`: the server proved that nothing moved (unchanged_guaranteed).
\* A removed entry carries only `before`; every other one carries `after`.
ToElement(d) ==
  [el     |-> IF d.after # None THEN d.after ELSE d.before,
   change |-> d.change,
   churn  |-> d.churn,
   before |-> d.before,
   after  |-> d.after]

FromDiff(d) ==
  [mode   |-> "compare",
   nodes  |-> [n \in DOMAIN d.nodes |-> ToElement(d.nodes[n])],
   links  |-> [l \in DOMAIN d.links |-> ToElement(d.links[l])],
   groups |-> d.groups, resolved |-> d.until, since |-> d.since,
   unchangedGuaranteed |-> d.quiet]

IsInteresting(g) == g.change # "unchanged" \/ g.churn > 0

-----------------------------------------------------------------------------
(* Counts, taken from the model rather than from the response. *)

CountOf(items, Which(_)) == Cardinality({i \in DOMAIN items : Which(items[i])})

Flapped(g) == g.change = "unchanged" /\ g.churn > 0

Tally(m, healths, changes) ==
  [nodes   |-> Cardinality(DOMAIN m.nodes),
   links   |-> Cardinality(DOMAIN m.links),
   kinds   |-> [k \in {"switch", "ca"} |->
                 Cardinality({n \in DOMAIN m.nodes : Kind[n] = k})],
   health  |-> [h \in healths |-> CountOf(m.links, LAMBDA l : l.el.health = h)],
   change  |-> [c \in changes |-> CountOf(m.nodes, LAMBDA n : n.change = c)
                                + CountOf(m.links, LAMBDA l : l.change = c)],
   churned |-> CountOf(m.nodes, Flapped) + CountOf(m.links, Flapped)]

-----------------------------------------------------------------------------
(* The elements of a model: each id with its parent and the data the       *)
(* stylesheet and the filters select on.                                   *)

GroupOf(m, n) ==
  LET sys == m.nodes[n].el.sys
  IN  IF sys \in m.groups THEN sys ELSE None

\* Boxes of the groups some node is in, once each.
Boxes(m) == {GroupOf(m, n) : n \in DOMAIN m.nodes} \ {None}

Data(m, g) == [mode |-> m.mode, health |-> g.el.health,
               change |-> g.change, churn |-> g.churn]

ToElements(m) ==
  [i \in DOMAIN m.nodes \cup DOMAIN m.links \cup Boxes(m) |->
     CASE i \in Nodes  -> [parent |-> GroupOf(m, i), data |-> Data(m, m.nodes[i])]
       [] i \in Links  -> [parent |-> None, data |-> Data(m, m.links[i])]
       [] i \in Groups -> [parent |-> None, data |-> None]]
=============================================================================
