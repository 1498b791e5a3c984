-------------------------------- MODULE Cards --------------------------------
(***************************************************************************)
(* The panel beside the graph (components/detail): one card for each       *)
(* selected element, or a summary of them once they are many.              *)
(*                                                                         *)
(* Events of one task are one commit: the selection they leave, then the   *)
(* effects of CardsPanel, then those of DetailPanel.  A panel that leaves  *)
(* the screen forgets its state.  prevIds is the selection of the last     *)
(* commit in either panel.                                                 *)
(***************************************************************************)
EXTENDS GraphModel

CONSTANTS
  Fabric,     \* the sweeps: nodes, links and groups of each
  Order,      \* the elements in the order a batch selects them
  Times,      \* TimeStates the user goes to: mode, since, until
  Thresholds, \* settings.summaryThreshold
  MaxCards    \* bound: elements selected at once

ASSUME CardsAssumption ==
  /\ MaxCards \in Nat \ {0} /\ Thresholds \subseteq Nat \ {0, 1}
  /\ None \notin Nat

\* A sweep says something of each element it found, and found no others.
ASSUME FabricAssumption ==
  /\ Len(Fabric) \in Nat \ {0}
  /\ \A k \in 1 .. Len(Fabric) :
       /\ DOMAIN Fabric[k].nodes \subseteq Nodes /\ DOMAIN Fabric[k].links \subseteq Links
       /\ \A n \in DOMAIN Fabric[k].nodes : Fabric[k].nodes[n] # None
       /\ \A l \in DOMAIN Fabric[k].links : Fabric[k].links[l] # None
       /\ Fabric[k].groups \subseteq Groups

\* The core holds every element in one place.
ASSUME OrderAssumption ==
  /\ Order \in Seq(Nodes \cup Links \cup Groups)
  /\ \A i \in Nodes \cup Links \cup Groups : \E k \in 1 .. Len(Order) : Order[k] = i
  /\ \A j, k \in 1 .. Len(Order) : Order[j] = Order[k] => j = k

\* Instants are of sweeps, and a comparison has two.
ASSUME TimesAssumption ==
  \A t \in Times : /\ t.until \in 1 .. Len(Fabric) \cup {None}
                   /\ t.mode = "compare" => t.since \in 1 .. Len(Fabric)

VARIABLES
  head,      \* the newest sweep
  time,      \* TimeState
  model,     \* what is drawn
  selection, \* ids, oldest to newest
  threshold,
  forced,    \* forceCards
  allowed,   \* the elements selected when all cards were asked for
  expanded,  \* the open cards
  focus,     \* the card last traversed to
  pending    \* pendingNavigate

vars == <<head, time, model, selection, threshold, forced, allowed, expanded, focus, pending>>

Sweeps  == 1 .. Len(Fabric)
Items   == Nodes \cup Links \cup Groups
Ids(s)  == {s[k] : k \in DOMAIN s}
Without(s, gone) == Filtered(s, Ids(s) \ gone)
Graph(m) == DOMAIN ToElements(m)

-----------------------------------------------------------------------------
(* The answers.                                                            *)

SweepAt(instant) == IF instant = None THEN head ELSE instant

Topology(k) ==
  [nodes |-> Fabric[k].nodes, links |-> Fabric[k].links,
   groups |-> Fabric[k].groups, resolved |-> k]

\* The comparison of two sweeps; `churn` is not read here.
Compared(was, is) ==
  [i \in DOMAIN was \cup DOMAIN is |->
     LET before == IF i \in DOMAIN was THEN was[i] ELSE None
         after  == IF i \in DOMAIN is THEN is[i] ELSE None
     IN  [before |-> before, after |-> after, churn |-> 0,
          change |-> CASE before = None -> "added"
                       [] after = None  -> "removed"
                       [] before = after -> "unchanged"
                       [] OTHER -> "modified"]]

Diff(a, b) ==
  [nodes |-> Compared(Fabric[a].nodes, Fabric[b].nodes),
   links |-> Compared(Fabric[a].links, Fabric[b].links),
   groups |-> Fabric[b].groups, since |-> a, until |-> b,
   quiet |-> \A k \in a .. b : Fabric[k] = Fabric[a]]

\* The model of the time asked for.
Fresh ==
  IF time.mode = "compare" THEN FromDiff(Diff(time.since, SweepAt(time.until)))
  ELSE FromTopology(Topology(SweepAt(time.until)))

Resolves(i) == i \in DOMAIN model.nodes \cup DOMAIN model.links
Element(i)  == IF i \in DOMAIN model.nodes THEN model.nodes[i] ELSE model.links[i]

\* Mutant: every card reads the instant on screen.
MutDetailAt(i) == time.until

\* A removed element is read at the other end of the window.
DetailAt(i) ==
  IF Resolves(i) /\ Element(i).change = "removed" /\ model.since # None
    THEN model.since ELSE time.until

Exists(i, k) == i \in DOMAIN Fabric[k].nodes \cup DOMAIN Fabric[k].links

\* Where a card leads: a port of a node to its link, a link to its two ends.
Targets(i, k) ==
  CASE ~Exists(i, k)              -> {}
    [] Exists(i, k) /\ i \in Links -> Ends[i]
    [] OTHER -> {l \in DOMAIN Fabric[k].links : i \in Ends[l]}

-----------------------------------------------------------------------------
(* The panels.                                                             *)

\* Mutant: the escape hatch survives an exchange of elements.
MutGrows(sel) == Len(sel) > Len(selection)

Grows(sel) == Ids(sel) \ Ids(selection) # {}

\* What forceCards is after a commit.
Forces(sel) == forced /\ sel # <<>> /\ ~Grows(sel)

Summarizes(sel, limit, force) == Len(sel) >= limit /\ ~force
ShowsCards(sel, limit, force) == sel # <<>> /\ ~Summarizes(sel, limit, force)

CardsOn     == ShowsCards(selection, threshold, forced)
Summarizing == Summarizes(selection, threshold, forced)

IsOne(added) == \E i \in added : added = {i}

\* An addition that a traversal announced.
Owned(added, from) == from # None /\ added = {from}

\* Mutant: every new card opens.
MutOpened(prev, added, open, from) ==
  IF IsOne(added) /\ ~Owned(added, from) /\ prev # <<>>
    THEN (open \ {prev[Len(prev)]}) \cup added
    ELSE open \cup added

\* A single new card opens, and closes the last one unless it was reached from
\* a card; a batch opens nothing.
Opened(prev, added, open, from) ==
  IF IsOne(added)
    THEN (IF Owned(added, from) \/ prev = <<>> THEN open ELSE open \ {prev[Len(prev)]})
         \cup added
    ELSE open

\* The effect of CardsPanel.
Open(prev, sel, open, from) ==
  Opened(prev, Ids(sel) \ Ids(prev), open \ (Ids(prev) \ Ids(sel)), from)

\* A commit that leaves `sel` selected, the cards being `open`, `target`
\* focused and `from` announced by what led to it.
Commit(sel, limit, force, open, target, from) ==
  /\ selection' = sel
  /\ threshold' = limit
  /\ forced' = force
  /\ allowed' = IF ~force THEN {} ELSE IF forced THEN allowed ELSE Ids(sel)
  /\ CASE ~ShowsCards(sel, limit, force) ->
            expanded' = {} /\ focus' = None /\ pending' = None
       [] ShowsCards(sel, limit, force) /\ ~CardsOn ->
            expanded' = Open(<<>>, sel, {}, None) /\ focus' = None /\ pending' = None
       [] OTHER ->
            expanded' = Open(selection, sel, open, from) /\ focus' = target /\ pending' = None

Select(sel) == Commit(sel, threshold, Forces(sel), expanded, focus, pending)

-----------------------------------------------------------------------------
(* The graph: its events, and its models.                                  *)

Elsewhere == UNCHANGED <<head, time, model>>

Tap(i) ==
  /\ i \in Graph(model) /\ selection # <<i>>
  /\ Select(<<i>>)
  /\ Elsewhere

ToggleTap(i) ==
  /\ i \in Graph(model)
  /\ IF i \in Ids(selection) THEN Select(Without(selection, {i}))
     ELSE Len(selection) < MaxCards /\ Select(Append(selection, i))
  /\ Elsewhere

\* The select handler lists an element once.
NewOnes(els) == els \ Ids(selection)

\* A box, a swatch of a legend.
SelectMany(els) ==
  LET more == NewOnes(els)
  IN  /\ more # {} /\ els \subseteq Graph(model)
      /\ Len(selection) + Cardinality(more) <= MaxCards
      /\ Select(selection \o Filtered(Order, more))
      /\ Elsewhere

\* The leaves of a switch and itself, instead of what is selected.
SelectLeafGroup(w) ==
  LET group == {w} \cup {n \in DOMAIN model.nodes : Kind[n] # "switch" /\
                           \E l \in DOMAIN model.links : Ends[l] = {w, n}}
  IN  /\ w \in DOMAIN model.nodes /\ Kind[w] = "switch" /\ group # {w}
      /\ Cardinality(group) <= MaxCards
      /\ Select(Filtered(Order, group))
      /\ Elsewhere

TapCanvas ==
  /\ selection # <<>>
  /\ Select(<<>>)
  /\ Elsewhere

\* Mutant: what leaves the graph stays selected.
MutOnRemove(gone) == selection

\* Cytoscape does not unselect what it removes, the handler does.
OnRemove(gone) == Without(selection, gone)

\* Without a removal the selection is not written and no effect runs.
Draw(m) ==
  LET gone == Graph(model) \ Graph(m)
  IN  /\ model' = m
      /\ IF gone = {} THEN UNCHANGED <<selection, threshold, forced, allowed, expanded, focus, pending>>
         ELSE Select(OnRemove(gone))
      /\ UNCHANGED <<head, time>>

Answer == model # Fresh /\ Draw(Fresh)

Sweep ==
  /\ head < Len(Fabric)
  /\ head' = head + 1
  /\ UNCHANGED <<time, model, selection, threshold, forced, allowed, expanded, focus, pending>>

SetTime(t) ==
  /\ t # time
  /\ t.mode = "compare" => t.since < IF t.until = None THEN head ELSE t.until
  /\ t.until # None => t.until <= head
  /\ time' = t
  /\ UNCHANGED <<head, model, selection, threshold, forced, allowed, expanded, focus, pending>>

-----------------------------------------------------------------------------
(* The cards.                                                              *)

Toggle(i) ==
  /\ CardsOn /\ i \in Ids(selection)
  /\ expanded' = IF i \in expanded THEN expanded \ {i} ELSE expanded \cup {i}
  /\ UNCHANGED <<head, time, model, selection, threshold, forced, allowed, focus, pending>>

Close(i) ==
  /\ CardsOn /\ i \in Ids(selection)
  /\ Select(Without(selection, {i}))
  /\ Elsewhere

\* A live detail may be of any sweep until now: cards poll on a clock of their
\* own and keep what they had, so it may be older than the map.  A target that
\* is selected, or not in the graph, leaves the selection alone: no effect runs.
Navigate(i, to) ==
  /\ CardsOn /\ i \in Ids(selection) \cap expanded
  /\ \E k \in Sweeps :
       /\ IF DetailAt(i) # None THEN k = DetailAt(i) ELSE k <= head
       /\ to \in Targets(i, k)
  /\ LET left == (expanded \ {i}) \cup {to}
     IN  IF to \in Ids(selection) \/ to \notin Graph(model)
           THEN /\ expanded' = left /\ focus' = to /\ pending' = to
                /\ UNCHANGED <<selection, threshold, forced, allowed>>
           ELSE /\ Len(selection) < MaxCards
                /\ LET sel == Append(selection, to)
                   IN  Commit(sel, threshold, Forces(sel), left, to, to)
  /\ Elsewhere

-----------------------------------------------------------------------------
(* The summary.                                                            *)

NodeIds    == Filtered(selection, DOMAIN model.nodes)
LinkIds    == Filtered(selection, DOMAIN model.links)
Unresolved == Filtered(selection, {i \in Ids(selection) : ~Resolves(i)})

\* The elements of `ids` by a field, as the buckets list them.
Buckets(ids, field) ==
  [v \in {Element(i).el[field] : i \in Ids(ids)} |->
     Filtered(ids, {i \in Ids(ids) : Element(i).el[field] = v})]

HealthBuckets ==
  {Buckets(NodeIds, "health")[h] : h \in DOMAIN Buckets(NodeIds, "health")}
  \cup {Buckets(LinkIds, "health")[h] : h \in DOMAIN Buckets(LinkIds, "health")}

TypeBuckets == {Filtered(NodeIds, {n \in Nodes : Kind[n] = t}) : t \in {"switch", "ca"}} \ {<<>>}

\* "Select only these": everything is unselected first, in one batch.
PickBucket(ids) ==
  /\ Summarizing /\ selection # <<>>
  /\ ids # selection
  /\ Select(ids)
  /\ Elsewhere

ShowAll ==
  /\ Summarizing /\ selection # <<>>
  /\ Commit(selection, threshold, TRUE, {}, None, None)
  /\ Elsewhere

\* The settings panel.
SetThreshold(n) ==
  /\ n # threshold
  /\ IF ShowsCards(selection, n, forced) = CardsOn
       THEN threshold' = n /\ UNCHANGED <<selection, forced, allowed, expanded, focus, pending>>
       ELSE Commit(selection, n, forced, {}, None, None)
  /\ Elsewhere

\* The elements the server does not find at the instant on screen.
Missing == {i \in Ids(NodeIds) \cup Ids(LinkIds) : ~Exists(i, SweepAt(time.until))}

-----------------------------------------------------------------------------
(* What a card says of a change.                                           *)

Field(el, f) == IF f \in DOMAIN el THEN el[f] ELSE None

\* Nothing for an element that is only at one end; absent and null are one.
ChangedFields(before, after) ==
  IF before = None \/ after = None THEN {}
  ELSE {<<f, Field(before, f), Field(after, f)>> :
          f \in {f \in DOMAIN before \cup DOMAIN after : Field(before, f) # Field(after, f)}}

Listed(i) == ChangedFields(Element(i).before, Element(i).after)

-----------------------------------------------------------------------------
Init ==
  /\ head = 1
  /\ time = [mode |-> "live", since |-> None, until |-> None]
  /\ model = FromTopology(Topology(1))
  /\ selection = <<>>
  /\ threshold \in Thresholds
  /\ forced = FALSE /\ allowed = {}
  /\ expanded = {} /\ focus = None /\ pending = None

Next ==
  \/ \E i \in Items : Tap(i) \/ ToggleTap(i) \/ Toggle(i) \/ Close(i)
  \/ \E els \in SUBSET Graph(model) : SelectMany(els)
  \/ \E i, to \in Nodes \cup Links : Navigate(i, to)
  \/ \E w \in Nodes : SelectLeafGroup(w)
  \/ TapCanvas
  \/ Answer
  \/ Sweep
  \/ \E t \in Times : SetTime(t)
  \/ \E ids \in HealthBuckets \cup TypeBuckets : PickBucket(ids)
  \/ ShowAll
  \/ \E n \in Thresholds : SetThreshold(n)

Spec == Init /\ [][Next]_vars
-----------------------------------------------------------------------------
(* Properties.                                                             *)

\* Type invariant: only what the graph holds is selected, once each, and what
\* the panel remembers it remembers while it is on screen (the select and
\* remove handlers of GraphView, App.tsx mounting DetailPanel).
TypeOK ==
  /\ head \in Sweeps /\ threshold \in Thresholds /\ forced \in BOOLEAN
  /\ Len(selection) <= MaxCards /\ Cardinality(Ids(selection)) = Len(selection)
  /\ Ids(selection) \subseteq Graph(model)
  /\ expanded \subseteq Items /\ allowed \subseteq Items
  /\ {focus, pending} \subseteq Items \cup {None}
  /\ ~CardsOn => expanded = {} /\ focus = None /\ pending = None
  /\ selection = <<>> => ~forced

Settled == model = Fresh

\* Once the model of the time asked for is drawn, an open card of one of its
\* elements asks for it at an instant at which it exists (SelectionCard
\* detailAt).
CardIsAnswered ==
  Settled => \A i \in expanded \cap Ids(selection) :
               Resolves(i) => Exists(i, SweepAt(DetailAt(i)))

\* And what the summary reports as not existing are the removals selected
\* (SummaryPanel, "not counted below").
MissingAreRemovals ==
  Settled => Missing = {i \in Ids(selection) \ Groups : Element(i).change = "removed"}

\* The summary accounts for the whole selection: nothing is unresolved but
\* boxes, whatever polls removed, and each element is in one bucket of its
\* health (Summarize.ts, "stale or compound selections").
SummaryAddsUp ==
  /\ Ids(Unresolved) \subseteq Groups
  /\ Len(NodeIds) + Len(LinkIds) + Len(Unresolved) = Len(selection)
  /\ \A i \in Ids(selection) \ Groups :
       \E b \in HealthBuckets :
         /\ i \in Ids(b)
         /\ \A c \in HealthBuckets \ {b} : i \notin Ids(c)

\* "Revoke the escape hatch when the selection grows" (DetailPanel.tsx:31-33):
\* cards are forced only while everything selected was so when all cards were
\* asked for.
EscapeHatch == forced => Ids(selection) \subseteq allowed

\* In compare mode the fields a card lists are those in which the two sweeps
\* differ, from the earlier to the later value (Delta.tsx, graph.ts toElement).
ListedIsTheDifference ==
  Settled /\ model.mode = "compare" =>
    \A i \in Ids(selection) \cap Nodes :
      LET was == Fabric[model.since].nodes
          is  == Fabric[model.resolved].nodes
      IN  Listed(i) = IF i \in DOMAIN was /\ i \in DOMAIN is
                        THEN {<<f, Field(was[i], f), Field(is[i], f)>> :
                                f \in {f \in DOMAIN was[i] \cup DOMAIN is[i] :
                                         Field(was[i], f) # Field(is[i], f)}}
                        ELSE {}

\* A card shows its own element: asked for where it exists, removed where it
\* does not, with the differences there are.
CardsAreTrue ==
  /\ TypeOK
  /\ CardIsAnswered
  /\ MissingAreRemovals
  /\ ListedIsTheDifference

\* No step opens more than one card, however many elements it selects: only an
\* open card fetches, "which is what makes a large selection cheap"
\* (CardsPanel.tsx:77, 189-190).
AtMostOneOpens == \A i, j \in expanded' \ expanded : i = j

\* A new model closes no card of an element that is still there, and opens
\* none while cards are shown (CardsPanel effect after the remove handler).
OpenCardsSurvivePolls ==
  model' # model /\ CardsOn =>
    /\ expanded \cap Ids(selection') \subseteq expanded'
    /\ expanded' \subseteq expanded

\* A traversal closes no card but the one it started from, and leaves its
\* target open, unless the panel turns to the summary (CardsPanel navigate and
\* the pending id).
NavigationClosesItsOrigin ==
  focus' # focus /\ focus' # None =>
    /\ focus' \in expanded'
    /\ Cardinality(expanded \ expanded') <= 1

\* Cards open one by one and close only when asked to, whatever polls, boxes
\* and traversals do meanwhile.
CardsOpenOneByOne ==
  [][AtMostOneOpens /\ OpenCardsSurvivePolls /\ NavigationClosesItsOrigin]_vars
=============================================================================
