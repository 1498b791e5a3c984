------------------------------- MODULE GraphCore -------------------------------
(***************************************************************************)
(* The live Cytoscape core under GraphView: models reconciled into it in   *)
(* place (cy/reconcile), newcomers and saved layouts (cy/positions),       *)
(* leaves folded into their switch and back out (cy/leafOps), the filters  *)
(* and the chassis boxes (cy/filters, cy/groupBoxes), and the ordered list *)
(* that mirrors the native selection (GraphView, App).                     *)
(*                                                                         *)
(* Sweeps bring models at any time, in the middle of a slide too.  The     *)
(* physics of fcose is a choice of spots for every node it may move.  A    *)
(* position is one coordinate, modulo Width.  A sliding leaf is still      *)
(* where it set out until it lands; all slides last DURATION, so they land *)
(* in the order they began.                                                *)
(*                                                                         *)
(* An unhurried user: a new fold or a saved layout waits for the slides in *)
(* flight to land.  Unfolding does not, and sweeps do not.                 *)
(***************************************************************************)
EXTENDS GraphModel, SequencesExt

CONSTANTS
  Models,    \* the models that sweeps and modes bring
  FilterSets,\* the settings of the three filters the user tries
  Layouts,   \* saved layouts: partial functions from node ids to positions
  Order,     \* the order of the core's elements
  Width,     \* positions are 0 .. Width - 1
  Spots,     \* of every node: where physics and drags may put it
  Tapped,    \* elements the user taps
  MaxSlides, \* bound: slides in flight
  MaxCards   \* bound: elements picked one by one

ASSUME CoreAssumption ==
  /\ Width \in Nat \ {0} /\ MaxSlides \in Nat \ {0}
  /\ Order \in Seq(Nodes \cup Links \cup Groups)
  /\ \A i \in Nodes \cup Links \cup Groups : \E k \in 1 .. Len(Order) : Order[k] = i
  /\ \A j, k \in 1 .. Len(Order) : Order[j] = Order[k] => j = k
  /\ \A n \in Nodes : Kind[n] \in {"switch", "ca"}
  /\ \A n \in Nodes : Spots[n] \subseteq 0 .. Width - 1 /\ Spots[n] # {}
  /\ \A l \in Layouts : \E S \in SUBSET Nodes : l \in [S -> 0 .. Width - 1]

\* null is no list of leaves, no scratch and no layout.
ASSUME NullAssumption ==
  \A ns \in SUBSET Nodes :
    /\ ns # None
    /\ \A n \in Nodes, d \in 0 .. Width - 1 : [under |-> n, off |-> d] # None
    /\ \A l \in [ns -> 0 .. Width - 1] : l # None

\* A model has both ends of its links (reconcile.ts:68-69, "The API cannot
\* produce one").
ASSUME ModelsAssumption ==
  \A m \in Models :
    /\ DOMAIN m.nodes \subseteq Nodes /\ DOMAIN m.links \subseteq Links /\ m.groups \subseteq Groups
    /\ \A l \in DOMAIN m.links : Ends[l] \subseteq DOMAIN m.nodes /\ m.links[l].churn \in Nat
    /\ \A n \in DOMAIN m.nodes : m.nodes[n].churn \in Nat

VARIABLES
  model,     \* what is drawn
  cy,        \* the core: elements, positions, scratch, classes, selection
  slides,    \* animations in flight, oldest first
  selection, \* the list App keeps
  filters,
  saved      \* positions of the active layout, or None

vars == <<model, cy, slides, selection, filters, saved>>

Pos == 0 .. Width - 1
Plus(p, d)  == (p + d) % Width
Minus(p, q) == (p - q) % Width

-----------------------------------------------------------------------------
(* The core.  Ids out of `els` have no state: scratch and classes live on  *)
(* the element object, and an id that returns is a new object.             *)

Empty == [els |-> [i \in {} |-> None],
          pos |-> [n \in Nodes |-> 0],
          leaf |-> [n \in Nodes |-> None],   \* scratch of a leaf: [under, off]
          fold |-> [n \in Nodes |-> None],   \* scratch of a switch: its leafIds
          collapsed |-> {}, hidden |-> {}, faded |-> {}, receded |-> {},
          selected |-> {}]

In(g)          == DOMAIN g.els
Drawn(g)       == In(g) \cap Nodes
Switches(g)    == {n \in Drawn(g) : Kind[n] = "switch"}
Children(g, b) == {n \in Drawn(g) : g.els[n].parent = b}
IsParent(g, i) == i \in Groups /\ Children(g, i) # {}
ConnectedEdges(g, ns) == {e \in In(g) \cap Links : Ends[e] \cap ns # {}}
OffScreen(g)   == g.hidden \cup g.collapsed

\* The elements of a set, in the order of the core.
Listed(ids) == Filtered(Order, ids)

SyncGroupBoxes(g) ==
  LET boxes   == {b \in In(g) : IsParent(g, b)}
      emptied == {b \in boxes : Children(g, b) \subseteq OffScreen(g)}
  IN  [g EXCEPT !.collapsed = (@ \ boxes) \cup emptied]

LeafNeighbors(g, s) ==
  {n \in Drawn(g) : /\ Kind[n] # "switch" /\ g.leaf[n] = None
                    /\ \E e \in In(g) \cap Links : Ends[e] = {n, s}}

IsCollapsed(g, s) == g.fold[s] # None

\* Mutant: a folded leaf is where it is parked.
MutLogicalPosition(g, n) == g.pos[n]

LogicalPosition(g, n) ==
  IF g.leaf[n] # None /\ g.leaf[n].under \in In(g)
    THEN Plus(g.pos[g.leaf[n].under], g.leaf[n].off)
    ELSE g.pos[n]

\* Mutant: leaves come out on top of their switch.
MutOffset(g, l) == 0

Offset(g, l) == IF g.leaf[l] = None THEN 0 ELSE g.leaf[l].off

Followers(g, s) == IF g.fold[s] = None THEN {} ELSE g.fold[s] \cap In(g)

\* node.position(): the leaves folded under a switch follow it.
MoveTo(g, n, p) ==
  [g EXCEPT !.pos = [m \in Nodes |-> IF m = n \/ m \in Followers(g, n) THEN p ELSE @[m]]]

Unfold(g, s, ls) ==
  [g EXCEPT !.collapsed = @ \ (ls \cup ConnectedEdges(g, ls)), !.fold[s] = None]

ReleaseCollapsed(g, s) ==
  LET ls == Followers(g, s)
  IN  IF g.fold[s] = None THEN g
      ELSE SyncGroupBoxes(
             [Unfold(g, s, ls) EXCEPT
                !.pos  = [n \in Nodes |-> IF n \in ls THEN Plus(g.pos[s], Offset(g, n)) ELSE @[n]],
                !.leaf = [n \in Nodes |-> IF n \in ls THEN None ELSE @[n]]])

\* Mutant: a switch leaves without bringing its leaves out.
MutReleaseEach(g, ss) == g

ReleaseEach(g, ss) ==
  LET folded == Listed({s \in ss : IsCollapsed(g, s)})
      out[k \in 0 .. Len(folded)] ==
        IF k = 0 THEN g ELSE ReleaseCollapsed(out[k - 1], folded[k])
  IN  out[Len(folded)]

ResetAllCollapsed(g) ==
  SyncGroupBoxes(
    [ReleaseEach(g, Drawn(g)) EXCEPT !.leaf = [n \in Nodes |-> None],
                                     !.fold = [n \in Nodes |-> None],
                                     !.collapsed = {}])

-----------------------------------------------------------------------------
(* Reconciling.                                                            *)

Without(g, ids) ==
  [els  |-> [i \in In(g) \ ids |-> g.els[i]],
   pos  |-> [n \in Nodes |-> IF n \in ids THEN 0 ELSE g.pos[n]],
   leaf |-> [n \in Nodes |-> IF n \in ids THEN None ELSE g.leaf[n]],
   fold |-> [n \in Nodes |-> IF n \in ids THEN None ELSE g.fold[n]],
   collapsed |-> g.collapsed \ ids, hidden |-> g.hidden \ ids,
   faded |-> g.faded \ ids, receded |-> g.receded \ ids,
   selected |-> g.selected \ ids]

\* Step 1: absentees that frame nothing, with the edges they take along.
Depart(g, want) ==
  LET gone == {i \in In(g) \ DOMAIN want : ~IsParent(g, i)}
  IN  Without(ReleaseEach(g, gone \cap Switches(g)), gone \cup ConnectedEdges(g, gone))

\* Steps 2 and 3: newcomers come in bare, survivors are patched and moved.
AddAndPatch(g, want) ==
  LET coming == {i \in DOMAIN want : i \in Links => Ends[i] \subseteq In(g) \cup DOMAIN want}
  IN  [g EXCEPT !.els = [i \in In(g) \cup coming |->
                           IF i \in DOMAIN want THEN want[i] ELSE g.els[i]]]

\* Mutant: boxes outlive their members.
MutSweepChildless(g, want) == g

\* Step 4: boxes nobody is left in.
SweepChildless(g, want) ==
  Without(g, {i \in In(g) \ (DOMAIN want \cup Links) : ~IsParent(g, i)})

Reconcile(g, m) ==
  LET want == ToElements(m)
  IN  SweepChildless(AddAndPatch(Depart(g, want), want), want)

\* The ids that reconcile reports as added.
Added(g, m) ==
  LET want == ToElements(m) IN DOMAIN want \ In(Depart(g, want))

Fades(d) == d.mode = "single" /\ d.health = "ok"

\* Mutant: a plain change filter, which hides what flapped and came back.
MutRecedes(d) == d.mode = "compare" /\ d.change = "unchanged"

Recedes(d) == d.mode = "compare" /\ d.change = "unchanged" /\ d.churn = 0

ApplyFilters(g, f) ==
  LET els    == In(g) \ Groups
      cas    == IF f.hideCAs THEN {n \in Drawn(g) : Kind[n] = "ca"} ELSE {}
      Of(P(_)) == {i \in els : P(g.els[i].data)}
  IN  SyncGroupBoxes(
        [g EXCEPT !.hidden  = cas \cup ConnectedEdges(g, cas),
                  !.faded   = IF f.dimHealthy THEN Of(Fades) ELSE {},
                  !.receded = IF f.highlightChanges THEN Of(Recedes) ELSE {}])

-----------------------------------------------------------------------------
(* Placing.  Physics answers with any of the spots of the nodes it was not *)
(* told to hold: `to` gives one for every node.                            *)

Known(layout) == IF layout = None THEN {} ELSE DOMAIN layout

Settle(g, ns, layout, to) ==
  [g EXCEPT !.pos = [n \in Nodes |-> IF n \notin ns \cap In(g) THEN @[n]
                                     ELSE IF n \in Known(layout) THEN layout[n] ELSE to[n]]]

PlaceNewcomers(g, ids, layout, to) == Settle(g, ids \cap Nodes, layout, to)
ApplyPositions(g, layout, to) == Settle(ResetAllCollapsed(g), Drawn(g), layout, to)

CapturePositions(g) == [n \in Drawn(g) |-> LogicalPosition(g, n)]

\* What physics may answer.
Physics == {to \in [Nodes -> Pos] : \A n \in Nodes : to[n] \in Spots[n]}

\* The answers that differ on the nodes they are used for.
Answers(ns) == {[n \in Nodes |-> IF n \in ns THEN to[n] ELSE 0] : to \in Physics}

-----------------------------------------------------------------------------
(* The selection, and the list that follows it through the events.         *)

OnSelect(list, ids)   == list \o Listed(ids \ ToSet(list))
OnUnselect(list, ids) == Filtered(list, ToSet(list) \ ids)
OnRemove(list, ids)   == Filtered(list, ToSet(list) \ ids)

SelectOnly(ids) ==
  /\ cy' = [cy EXCEPT !.selected = ids]
  /\ selection' = OnSelect(OnUnselect(selection, cy.selected), ids)

SelectAlso(ids) ==
  /\ Cardinality(cy.selected \cup ids) <= MaxCards
  /\ cy' = [cy EXCEPT !.selected = @ \cup ids]
  /\ selection' = OnSelect(selection, ids \ cy.selected)

Unselect(ids) ==
  /\ cy' = [cy EXCEPT !.selected = @ \ ids]
  /\ selection' = OnUnselect(selection, ids \cap cy.selected)

-----------------------------------------------------------------------------
(* Slides.                                                                 *)

\* `alive`: the switch is still the object the slide was begun for.
Outlive(s, removed) ==
  [s EXCEPT !.alive = @ /\ s.sw \notin removed,
            !.land  = [l \in DOMAIN @ \ removed |-> @[l]],
            !.edges = @ \ removed]

OutliveAll(removed) ==
  [k \in DOMAIN slides |-> Outlive(slides[k], removed)]

BeginFold(g, s) ==
  LET ls == LeafNeighbors(g, s)
  IN  [g EXCEPT !.leaf = [n \in Nodes |->
                            IF n \in ls THEN [under |-> s, off |-> Minus(g.pos[n], g.pos[s])]
                            ELSE @[n]],
                !.fold[s] = ls]

FoldSlide(g, s) ==
  LET ls == LeafNeighbors(g, s)
  IN  [into |-> TRUE, sw |-> s, alive |-> TRUE,
       land |-> [l \in ls |-> g.pos[s]], edges |-> ConnectedEdges(g, ls)]

CanFold(g, s) == ~IsCollapsed(g, s) /\ LeafNeighbors(g, s) # {}

BeginUnfold(g, s) ==
  LET ls == Followers(g, s)
  IN  [SyncGroupBoxes(Unfold(g, s, ls)) EXCEPT
         !.pos = [n \in Nodes |-> IF n \in ls THEN g.pos[s] ELSE @[n]]]

UnfoldSlide(g, s) ==
  [into |-> FALSE, sw |-> s, alive |-> TRUE,
   land |-> [l \in Followers(g, s) |-> Plus(g.pos[s], Offset(g, l))], edges |-> {}]

\* One after the other over the switches of the core: [g, begun].
Step(acc, s) ==
  IF CanFold(acc.g, s)
    THEN [g |-> BeginFold(acc.g, s), begun |-> Append(acc.begun, FoldSlide(acc.g, s))]
    ELSE acc

Back(acc, s) ==
  IF IsCollapsed(acc.g, s)
    THEN [g |-> BeginUnfold(acc.g, s), begun |-> Append(acc.begun, UnfoldSlide(acc.g, s))]
    ELSE acc

Resting == [g |-> cy, begun |-> <<>>]

FoldAll ==
  LET order == Listed({s \in Switches(cy) : CanFold(cy, s)})
      acc[k \in 0 .. Len(order)] == IF k = 0 THEN Resting ELSE Step(acc[k - 1], order[k])
  IN  acc[Len(order)]

UnfoldAll ==
  LET order == Listed({s \in Switches(cy) : IsCollapsed(cy, s)})
      acc[k \in 0 .. Len(order)] == IF k = 0 THEN Resting ELSE Back(acc[k - 1], order[k])
  IN  acc[Len(order)]

\* The end of a slide.  A fold hides its leaves only if it still stands.
Landed(g, s) ==
  LET placed == [g EXCEPT !.pos = [n \in Nodes |-> IF n \in DOMAIN s.land THEN s.land[n] ELSE @[n]]]
  IN  IF s.into
        THEN IF s.alive /\ g.fold[s.sw] # None
               THEN SyncGroupBoxes([placed EXCEPT !.collapsed = @ \cup DOMAIN s.land \cup s.edges])
               ELSE placed
        ELSE [placed EXCEPT !.leaf = [n \in Nodes |-> IF n \in DOMAIN s.land THEN None ELSE @[n]]]

-----------------------------------------------------------------------------
(* GraphView's effects.                                                    *)

\* The first draw of a new core.
FirstDraw(m, layout, f, to) ==
  LET g == Reconcile(Empty, m)
  IN  ApplyFilters(IF Known(layout) # {} THEN ApplyPositions(g, layout, to)
                   ELSE PlaceNewcomers(g, Added(Empty, m), None, to), f)

Mounted == In(cy) # {}

\* A model arrives: from a sweep, or with a change of mode.
Arrive(m) ==
  LET g     == Reconcile(cy, m)
      added == Added(cy, m)
      gone  == (In(cy) \ In(g)) \cup (In(cy) \cap added)
  IN  /\ m # model /\ Mounted
      /\ \E to \in Answers((added \cap Nodes) \ Known(saved)) :
           cy' = ApplyFilters(PlaceNewcomers(g, added, saved, to), filters)
      /\ model' = m
      /\ slides' = OutliveAll(gone)
      /\ selection' = OnRemove(selection, gone)
      /\ UNCHANGED <<filters, saved>>

SetFilters(f) ==
  /\ f # filters /\ Mounted
  /\ filters' = f
  /\ cy' = ApplyFilters(cy, f)
  /\ UNCHANGED <<model, slides, selection, saved>>

\* The loading screen takes GraphView's place, as for another fabric, and the
\* core is destroyed with its slides; later a new one is mounted.
Unmount ==
  /\ Mounted
  /\ cy' = Empty
  /\ slides' = <<>>
  /\ selection' = <<>>
  /\ UNCHANGED <<model, filters, saved>>

Mount ==
  /\ ~Mounted
  /\ \E m \in Models, to \in Physics :
       /\ model' = m
       /\ cy' = FirstDraw(m, saved, filters, to)
  /\ UNCHANGED <<slides, selection, filters, saved>>

-----------------------------------------------------------------------------
(* The user: the canvas.                                                   *)

OnScreen(i) == i \in In(cy) \ OffScreen(cy)

Tap(i) ==
  /\ OnScreen(i)
  /\ SelectOnly({i})
  /\ UNCHANGED <<model, slides, filters, saved>>

TapCanvas ==
  /\ Mounted
  /\ SelectOnly({})
  /\ UNCHANGED <<model, slides, filters, saved>>

\* With a modifier.
ToggleTap(i) ==
  /\ OnScreen(i)
  /\ IF i \in cy.selected THEN Unselect({i}) ELSE SelectAlso({i})
  /\ UNCHANGED <<model, slides, filters, saved>>

Drag(n, p) ==
  /\ OnScreen(n) /\ n \in Nodes /\ p # cy.pos[n]
  /\ ~ \E k \in DOMAIN slides : n \in DOMAIN slides[k].land
  /\ cy' = MoveTo(cy, n, p)
  /\ UNCHANGED <<model, slides, selection, filters, saved>>

-----------------------------------------------------------------------------
(* The user: the menus.                                                    *)

SelectLeafGroup(s) ==
  /\ OnScreen(s) /\ s \in Switches(cy)
  /\ LeafNeighbors(cy, s) # {}
  /\ SelectOnly(LeafNeighbors(cy, s) \cup {s})
  /\ UNCHANGED <<model, slides, filters, saved>>

Unhurried == slides = <<>>

CollapseLeaves(s) ==
  /\ Unhurried
  /\ OnScreen(s) /\ s \in Switches(cy) /\ CanFold(cy, s)
  /\ cy' = BeginFold(cy, s)
  /\ slides' = Append(slides, FoldSlide(cy, s))
  /\ UNCHANGED <<model, selection, filters, saved>>

ExpandLeaves(s) ==
  /\ OnScreen(s) /\ s \in Switches(cy) /\ IsCollapsed(cy, s)
  /\ Len(slides) < MaxSlides
  /\ cy' = BeginUnfold(cy, s)
  /\ slides' = Append(slides, UnfoldSlide(cy, s))
  /\ UNCHANGED <<model, selection, filters, saved>>

CollapseAllLeaves ==
  /\ Unhurried
  /\ FoldAll.begun # <<>> /\ Len(FoldAll.begun) <= MaxSlides
  /\ cy' = FoldAll.g
  /\ slides' = FoldAll.begun
  /\ UNCHANGED <<model, selection, filters, saved>>

ExpandAllLeaves ==
  /\ UnfoldAll.begun # <<>> /\ Len(slides \o UnfoldAll.begun) <= MaxSlides
  /\ cy' = UnfoldAll.g
  /\ slides' = slides \o UnfoldAll.begun
  /\ UNCHANGED <<model, selection, filters, saved>>

\* Physics over everything, or over two or more selected nodes.
RunLayout(ns, to) ==
  LET order == Listed(ns)
      moved[k \in 0 .. Len(order)] ==
        IF k = 0 THEN cy ELSE MoveTo(moved[k - 1], order[k], to[order[k]])
  IN  moved[Len(order)]

ReRunLayout ==
  /\ Unhurried /\ Mounted
  /\ \E to \in Answers(Drawn(cy)) : cy' = RunLayout(Drawn(cy), to)
  /\ UNCHANGED <<model, slides, selection, filters, saved>>

RelayoutSelected ==
  /\ Unhurried
  /\ Cardinality(cy.selected \cap Drawn(cy)) >= 2
  /\ \E to \in Answers(cy.selected \cap Drawn(cy)) :
       cy' = RunLayout(cy.selected \cap Drawn(cy), to)
  /\ UNCHANGED <<model, slides, selection, filters, saved>>

Land ==
  /\ slides # <<>>
  /\ cy' = Landed(cy, Head(slides))
  /\ slides' = Tail(slides)
  /\ UNCHANGED <<model, selection, filters, saved>>

-----------------------------------------------------------------------------
(* The user: the panels.                                                   *)

\* LayoutPanel: applied at once, and active from then on.
ApplyLayout(layout) ==
  /\ Unhurried /\ Mounted
  /\ \E to \in Answers(Drawn(cy) \ Known(layout)) : cy' = ApplyPositions(cy, layout, to)
  /\ saved' = layout
  /\ UNCHANGED <<model, slides, selection, filters>>

\* A card is followed to a neighbour, or closed.
FocusInGraph(i) ==
  /\ i \in In(cy)
  /\ SelectAlso({i})
  /\ UNCHANGED <<model, slides, filters, saved>>

DeselectInGraph(i) ==
  /\ i \in cy.selected
  /\ Unselect({i})
  /\ UNCHANGED <<model, slides, filters, saved>>

\* A click on the legend takes all elements of one value, hidden ones too.
AddMaskToSelection(h) ==
  /\ Mounted
  /\ SelectAlso({i \in In(cy) \ Groups : cy.els[i].data.health = h})
  /\ UNCHANGED <<model, slides, filters, saved>>

\* The detail panel replaces the selection: ids that are gone fall out.
SetSelectionToIds(ids) ==
  /\ Mounted
  /\ SelectOnly(ids \cap In(cy))
  /\ UNCHANGED <<model, slides, filters, saved>>

Init ==
  /\ model \in Models
  /\ filters = [dimHealthy |-> FALSE, hideCAs |-> FALSE, highlightChanges |-> FALSE]
  /\ saved = None
  /\ \E to \in Physics : cy = FirstDraw(model, None, filters, to)
  /\ slides = <<>>
  /\ selection = <<>>

Next ==
  \/ \E m \in Models : Arrive(m)
  \/ \E f \in FilterSets : SetFilters(f)
  \/ Unmount \/ Mount
  \/ \E i \in Tapped : \/ Tap(i) \/ ToggleTap(i) \/ FocusInGraph(i) \/ DeselectInGraph(i)
                       \/ SetSelectionToIds({i})
  \/ TapCanvas
  \/ \E n \in Nodes : \E p \in Spots[n] : Drag(n, p)
  \/ \E s \in Nodes : SelectLeafGroup(s) \/ CollapseLeaves(s) \/ ExpandLeaves(s)
  \/ CollapseAllLeaves \/ ExpandAllLeaves
  \/ ReRunLayout \/ RelayoutSelected
  \/ Land
  \/ \E l \in Layouts : ApplyLayout(l)
  \/ \E h \in {"down"} : AddMaskToSelection(h)

Spec == Init /\ [][Next]_vars

-----------------------------------------------------------------------------
(* Properties.                                                             *)

\* Elements, scratch and slides are of their kinds.
TypeOK ==
  /\ model \in Models
  /\ In(cy) \subseteq Nodes \cup Links \cup Groups
  /\ cy.pos \in [Nodes -> Pos]
  /\ \A n \in Nodes :
       /\ cy.leaf[n] # None => cy.leaf[n] \in [under : Nodes, off : Pos] /\ Kind[n] = "ca"
       /\ cy.fold[n] # None => cy.fold[n] \subseteq Nodes /\ Kind[n] = "switch"
  /\ cy.collapsed \cup cy.hidden \cup cy.faded \cup cy.receded \cup cy.selected \subseteq In(cy)
  /\ Len(slides) <= MaxSlides
  /\ saved = None \/ DOMAIN saved \subseteq Nodes

\* However the core was changed in place, it holds the elements of the model
\* and no others, with their data, each in its own chassis: no box outlives
\* its members and no removal takes a live node with it.
ReconcileExact == Mounted => cy.els = ToElements(model)

\* The list of cards is the native selection, every element once: removal
\* emits no unselect, and a card must not stay open on what has left.
SelectionMirrors ==
  /\ ToSet(selection) = cy.selected
  /\ Len(selection) = Cardinality(cy.selected)

\* A chassis is framed exactly while one of its members is on screen, through
\* folds, filters, saved layouts and sweeps.
BoxFrames ==
  \A b \in In(cy) \cap Groups :
    b \in cy.collapsed <=> Children(cy, b) \subseteq OffScreen(cy)

\* The filters set hold over everything drawn, whatever came since they were
\* set: nothing dims in the mode that has no such filter, and no element that
\* flapped and came back recedes.
FiltersHold ==
  /\ cy.faded = IF Mounted /\ filters.dimHealthy /\ model.mode = "single"
                  THEN {i \in In(cy) \ Groups : cy.els[i].data.health = "ok"} ELSE {}
  /\ cy.receded = IF Mounted /\ filters.highlightChanges /\ model.mode = "compare"
                    THEN {n \in DOMAIN model.nodes : ~IsInteresting(model.nodes[n])}
                         \cup {l \in DOMAIN model.links : ~IsInteresting(model.links[l])}
                    ELSE {}
  /\ cy.hidden \cap Nodes = IF filters.hideCAs
                              THEN {n \in Drawn(cy) : Kind[n] = "ca"} ELSE {}

\* A leaf that is hidden under a switch can be brought back: the switch is in
\* the graph, folded, and has the leaf on its list.
HiddenHasOwner ==
  \A l \in cy.collapsed \cap Nodes : \E s \in Switches(cy) : l \in Followers(cy, s)

\* The core holds exactly the model, and the selection React shows is the one
\* the core has, however models, folds and taps came.
CoreIsTheModel ==
  /\ TypeOK
  /\ ReconcileExact
  /\ SelectionMirrors

\* The classes on the elements are those the model and the settings ask for.
ClassesFollow ==
  /\ BoxFrames
  /\ FiltersHold

Sliding(n) == \E k \in DOMAIN slides : n \in DOMAIN slides[k].land

\* A leaf that left and came back while its switch stayed folded: still on
\* the list of the switch, but not folded under it, or by now under another.
Estranged(n) ==
  \E s \in Switches(cy) : /\ n \in Followers(cy, s)
                          /\ cy.leaf[n] = None \/ cy.leaf[n].under # s

\* A layout saved while leaves are folded records where each node stands when
\* everything is unfolded, not the spot it is parked on; and to apply what was
\* just saved leaves every node where it says.
SavedLayoutRestores ==
  LET seen     == CapturePositions(cy)
      unfolded == ResetAllCollapsed(cy)
  IN  /\ \A n \in Drawn(cy) : Sliding(n) \/ Estranged(n) \/ seen[n] = unfolded.pos[n]
      /\ CapturePositions(ApplyPositions(cy, seen, cy.pos)) = seen

\* When a model comes, everything that stays keeps its place and its
\* selection, and a leaf folded under a switch that stays remains folded.
\* A leaf that is sliding has its place where it lands; an estranged one is
\* dropped on its switch when that leaves, and may come out of hiding with a
\* switch it is not folded under.
SurvivorsKeepPlace ==
  [][model' # model =>
       /\ \A i \in In(cy) \cap In(cy') : i \in cy.selected <=> i \in cy'.selected
       /\ \A n \in Drawn(cy) \cap Drawn(cy') :
            /\ Sliding(n) \/ Estranged(n) \/ LogicalPosition(cy', n) = LogicalPosition(cy, n)
            /\ \A s \in Switches(cy) \cap Switches(cy') :
                 n \in Followers(cy, s) =>
                   /\ n \in Followers(cy', s)
                   /\ Estranged(n) \/ (n \in cy.collapsed <=> n \in cy'.collapsed)]_vars
=============================================================================
