------------------------------- MODULE Overlay -------------------------------
(***************************************************************************)
(* The colours of the graph: App chooses a mask for the mode, rolls the    *)
(* answers up over the model on screen, and writes bins onto the elements  *)
(* beside the model (cy/overlay.ts), where the cascade of cy/style.ts      *)
(* turns them into the colours the legends count and select.               *)
(*                                                                         *)
(* The model, the counters and the traffic arrive on three clocks.  When   *)
(* the mode changes the old model stays on screen until the new one comes. *)
(* The counter window is fixed when the view or the instant last changed.  *)
(* The effects of a change run in the step that makes it.                  *)
(***************************************************************************)
EXTENDS Rollups

CONSTANTS
  Models,    \* the models that may arrive
  Deltas,    \* answers of the counter route
  Rates,     \* answers of the traffic route
  Pasted,    \* query strings the page is opened with
  PinnedAt,  \* the instant of point mode
  MaxNow,    \* bound: the clock
  Healths, Changes

ASSUME OverlayAssumption == PinnedAt \in Nat /\ MaxNow \in Nat

\* The namespace of the overlay on an element.
Written == [overlay : Overlays, bin : 0 .. BinCount - 1, untrusted : BOOLEAN]

\* null is no number, no name, no selection and no object.
ASSUME NullAssumption ==
  /\ None \notin Int \cup Masks \cup DOMAIN Windows \cup Inherited \cup {"max", "sum"}
  /\ None \notin Written
  /\ \A cs \in SUBSET Selectable : None \notin [cs -> Nat]

\* A list of names says how often each is in it.
IsQuery(q) ==
  q.counters = None \/ q.counters \in [DOMAIN q.counters -> Nat \ {0}]

ASSUME PastedAssumption == \A q \in Pasted : IsQuery(q)

\* A model is of a fabric, has both ends of its links, and says what changed;
\* of a comparison proved empty, that nothing did.
ASSUME ModelsAssumption ==
  \A m \in Models :
    /\ m.mode \in {"single", "compare"}
    /\ DOMAIN m.nodes \subseteq Nodes /\ IsFiniteSet(DOMAIN m.nodes)
    /\ DOMAIN m.links \subseteq Links /\ IsFiniteSet(DOMAIN m.links)
    /\ m.groups \subseteq Groups
    /\ \A l \in DOMAIN m.links : Ends[l] \subseteq DOMAIN m.nodes /\ m.links[l].change \in Changes
    /\ \A n \in DOMAIN m.nodes : m.nodes[n].change \in Changes
    /\ m.unchangedGuaranteed =>
         /\ m.mode = "compare"
         /\ \A i \in DOMAIN m.nodes : m.nodes[i].change = "unchanged"
         /\ \A i \in DOMAIN m.links : m.links[i].change = "unchanged"

\* Of a port: what `assemble` finds in its readings.
IsFact(f) ==
  /\ f.node \in Nodes /\ f.port \in Nat /\ f.polled \in BOOLEAN /\ f.fell \in BOOLEAN
  /\ f.gated \subseteq CapGated
  /\ \A c \in DOMAIN f.grew : f.grew[c] \in Nat \ {0}

\* An answer is what the API makes of the readings of the ports.  What was
\* measured was so over a span: between a baseline and a reading after it, or
\* between two readings (queries/counters.py assemble).
ASSUME AnswersAssumption ==
  /\ \A d \in Deltas :
       /\ d # None
       /\ Len(d.facts) \in Nat /\ DOMAIN d.facts = 1 .. Len(d.facts)
       /\ \A j \in DOMAIN d.facts : IsFact(d.facts[j])
       /\ d = Assembled(d.facts, d.span)
       /\ d.measured > 0 => d.span \in Nat \ {0}
  /\ \A r \in Rates :
       /\ r # None /\ r.measured \in Nat
       /\ Len(r.ports) \in Nat /\ DOMAIN r.ports = 1 .. Len(r.ports)
       /\ \A k \in DOMAIN r.ports :
            LET p == r.ports[k]
            IN  /\ p.node \in Nodes /\ p.port \in Nat /\ p.no_data \in BOOLEAN /\ p.reset \in BOOLEAN
                /\ p.tx \in Nat /\ p.rx \in Nat

VARIABLES
  mode,     \* time.mode: "live", "point" or "compare"
  view,     \* ViewState
  url,      \* the part of the query string the view owns
  now,
  since,    \* start of the counter window
  model,    \* what is drawn
  errors,   \* the answer for the counter window, or None
  traffic,  \* the answer for the instant, or None
  overlaid, \* overlay, bin and untrusted on every element, or None
  painted   \* the colour every element was last styled with

vars == <<mode, view, url, now, since, model, errors, traffic, overlaid, painted>>

\* A comparison here runs to now, as the mode picker makes it.
At(md) == IF md = "point" THEN PinnedAt ELSE None

EndOf(md) == IF At(md) = None THEN now ELSE At(md)

SinceOf(md, v) == EndOf(md) - Windows[v.window]

Mask(md, v)    == MaskFor(md, v.mask)
Shown(md, v)   == OverlayOf(Mask(md, v))
Selected(md, v) == CountersFor([v EXCEPT !.mask = Mask(md, v)])

Values(md, v, m, d, r) ==
  CASE Shown(md, v) = "utilisation" -> RollupTraffic(r, m, v.rollup)
    [] Shown(md, v) = "throughput"  -> RollupThroughput(r, m, v.rollup)
    [] OTHER                        -> Rollup(d, m, Selected(md, v), v.rollup)

SpanOf(d) == IF d = None THEN None ELSE d.span

-----------------------------------------------------------------------------
(* The cascade: the last rule that matches an element gives its colour.    *)

Untrusted == <<"untrusted">>

\* Boxes have a wash of their own in either mode.
Base(m, i) ==
  LET g == IF i \in Nodes THEN m.nodes[i] ELSE m.links[i]
  IN  CASE i \in Groups -> <<"box">>
        [] i \notin Groups /\ m.mode = "compare" -> <<"change", g.change>>
        [] OTHER -> <<"health", g.el.health>>

\* Mutant: the rules of the ramps come after the one of the untrusted.
MutColour(m, ov, i) ==
  IF ov = None THEN Base(m, i) ELSE <<ov.overlay, ov.bin>>

Colour(m, ov, i) ==
  CASE ov = None                  -> Base(m, i)
    [] ov # None /\ ov.untrusted  -> Untrusted
    [] OTHER                      -> <<ov.overlay, ov.bin>>

\* Mutant: what is cleared is not styled again.
MutRestyled(cleared, written, els) == written

\* removeData() leaves the computed style behind, so a pass that cleared
\* anything styles everything.
Restyled(cleared, written, els) == IF cleared # {} THEN els ELSE written

\* Reconciled: survivors keep what was written beside the model, newcomers
\* have nothing, and the patch of their data styles all of them.
Kept(m, ov) ==
  [i \in DOMAIN ToElements(m) |-> IF i \in DOMAIN ov THEN ov[i] ELSE None]

\* What every element should be showing; boxes are in neither map.
Wanted(md, v, m, d, r) ==
  LET overlay == Shown(md, v)
      values  == Values(md, v, m, d, r)
  IN  [i \in Drawn(m) \cup Boxes(m) |->
         IF overlay = None \/ ~Known(values, i) THEN None
         ELSE BinFor(overlay, values, SpanOf(d), i)]

\* The colours once `wanted` replaced `ov`, some elements being fresh.
Painting(m, wanted, ov, fresh) ==
  LET els     == DOMAIN wanted
      cleared == {i \in els : wanted[i] = None /\ ov[i] # None}
      written == {i \in els : wanted[i] # None /\ wanted[i] # ov[i]}
      styled  == fresh \cup Restyled(cleared, written, els)
  IN  [i \in els |-> IF i \in styled THEN Colour(m, wanted[i], i) ELSE painted[i]]

\* applyOverlay over the elements of m.
ApplyOverlay(md, v, m, d, r, ov, fresh) ==
  /\ overlaid' = Wanted(md, v, m, d, r)
  /\ painted' = Painting(m, overlaid', ov, fresh)

Redraw(md, v, d, r) == ApplyOverlay(md, v, model, d, r, overlaid, {})

-----------------------------------------------------------------------------
(* Answers.                                                                *)

ModelArrives(m) ==
  /\ m.mode = IF mode = "compare" THEN "compare" ELSE "single"
  /\ m # model
  /\ model' = m
  /\ ApplyOverlay(mode, view, m, errors, traffic, Kept(m, overlaid), DOMAIN ToElements(m))
  /\ UNCHANGED <<mode, view, url, now, since, errors, traffic>>

\* A pinned instant is answered once.
AnswerErrors(d) ==
  /\ Shown(mode, view) \in {"errors", "congestion"}
  /\ At(mode) # None => errors = None
  /\ d # errors
  /\ errors' = d
  /\ Redraw(mode, view, d, traffic)
  /\ UNCHANGED <<mode, view, url, now, since, model, traffic>>

AnswerTraffic(r) ==
  /\ Shown(mode, view) \in {"utilisation", "throughput"}
  /\ At(mode) # None => traffic = None
  /\ r # traffic
  /\ traffic' = r
  /\ Redraw(mode, view, errors, r)
  /\ UNCHANGED <<mode, view, url, now, since, model, errors>>

Tick ==
  /\ now < MaxNow
  /\ now' = now + 1
  /\ UNCHANGED <<mode, view, url, since, model, errors, traffic, overlaid, painted>>

-----------------------------------------------------------------------------
(* The user.  A window or an instant that was not asked for just before has *)
(* no answer yet, unless it is pinned and react-query still keeps one.       *)

Reask(md, v, d) ==
  /\ since' = SinceOf(md, v)
  /\ IF since' = since /\ At(md) = At(mode) THEN d = errors
     ELSE d = None \/ At(md) # None

SetMode(md) ==
  /\ md # mode
  /\ mode' = md
  /\ \E d \in Deltas \cup {None}, r \in Rates \cup {None} :
       /\ IF At(md) = At(mode) THEN since' = since /\ d = errors ELSE Reask(md, view, d)
       /\ At(md) = At(mode) => r = traffic
       /\ errors' = d /\ traffic' = r
       /\ Redraw(md, view, d, r)
  /\ UNCHANGED <<view, url, now, model>>

SetView(v) ==
  /\ v # view
  /\ view' = v
  /\ url' = ViewSearch(v)
  /\ \E d \in Deltas \cup {None} :
       /\ Reask(mode, v, d)
       /\ errors' = d
       /\ Redraw(mode, v, d, traffic)
  /\ UNCHANGED <<mode, now, model, traffic>>

\* The panels are those of the mask the legend shows.
Legend ==
  LET offered == MasksFor(IF model.mode = "compare" THEN "compare" ELSE "live")
      wanted  == Mask(mode, view)
  IN  IF wanted \in offered THEN wanted ELSE IF model.mode = "compare" THEN "change" ELSE "health"

PickMask(mask) ==
  /\ mask \in MasksFor(mode) /\ Cardinality(MasksFor(mode)) > 1
  /\ SetView([view EXCEPT !.mask = mask])

PickWindow(w) ==
  /\ Legend \in {"errors", "congestion"}
  /\ SetView([view EXCEPT !.window = w, !.mask = Legend])

\* The boxes go through a Set, so no name is in the list twice.
Ticked(cs) ==
  /\ Legend = "errors"
  /\ SetView([view EXCEPT !.counters = Once(cs)])

Chosen == DOMAIN view.counters

ToggleCounter(c) == Ticked(IF c \in Chosen THEN Chosen \ {c} ELSE Chosen \cup {c})

SetGroup(g, on) == Ticked(IF on THEN Chosen \cup Groupings[g] ELSE Chosen \ Groupings[g])

Bare == [i \in {} |-> None]

\* The page is opened again, from its own address or a pasted one.
Open(q) ==
  /\ view' = ParseView(q)
  /\ errors' = None /\ traffic' = None
  /\ \/ /\ Renders(view')
        /\ url' = ViewSearch(view')
        /\ since' = SinceOf(mode, view')
        /\ ApplyOverlay(mode, view', model, None, None, Kept(model, Bare), DOMAIN ToElements(model))
     \* Nothing catches what App throws: the page is blank, and no effect ran.
     \/ /\ ~Renders(view')
        /\ url' = q
        /\ overlaid' = Bare /\ painted' = Bare
        /\ UNCHANGED since
  /\ UNCHANGED <<mode, now, model>>

\* The page as an address opened it that renders; Open gives the others.
Init ==
  /\ mode = "live" /\ now = 0
  /\ view \in {ParseView(q) : q \in Pasted} /\ Renders(view)
  /\ url = ViewSearch(view)
  /\ since = SinceOf("live", view)
  /\ model \in {m \in Models : m.mode = "single"}
  /\ errors = None /\ traffic = None
  /\ overlaid = [i \in DOMAIN ToElements(model) |->
                   IF Shown("live", view) = None \/ i \in Groups THEN None
                   ELSE [overlay |-> Shown("live", view), bin |-> 0, untrusted |-> TRUE]]
  /\ painted = [i \in DOMAIN ToElements(model) |-> Colour(model, overlaid[i], i)]

Mounted ==
  \/ \E m \in Models : ModelArrives(m)
  \/ \E d \in Deltas : AnswerErrors(d)
  \/ \E r \in Rates : AnswerTraffic(r)
  \/ \E md \in {"live", "point", "compare"} : SetMode(md)
  \/ \E mask \in Masks : PickMask(mask)
  \/ \E w \in DOMAIN Windows : PickWindow(w)
  \/ \E c \in Selectable : ToggleCounter(c)
  \/ \E g \in DOMAIN Groupings, on \in BOOLEAN : SetGroup(g, on)

\* A blank page has nothing that could act.
Next ==
  \/ Renders(view) /\ Mounted
  \/ Tick
  \/ \E q \in Pasted \cup {url} : Open(q)

Spec == Init /\ [][Next]_vars
-----------------------------------------------------------------------------
(* The legends.                                                            *)

Drawing == Shown(mode, view)
Current == Values(mode, view, model, errors, traffic)

\* addMaskToSelection: the elements a click on a swatch selects.
Swatch(key, value) ==
  LET els == ToElements(model)
  IN  {i \in DOMAIN els :
         CASE key \in {"health", "change"} -> i \notin Groups /\ els[i].data[key] = value
           [] key = "bin"       -> overlaid[i] # None /\ overlaid[i].bin = value
           [] key = "untrusted" -> overlaid[i] # None /\ overlaid[i].untrusted = value}

\* The swatches of each section: a colour no link has is not listed, and with
\* nothing measured the ramp is not shown.  A comparison proved empty has a
\* note instead.
HealthSection ==
  {<<"health", h>> : h \in {h \in Healths : Tally(model, Healths, Changes).health[h] > 0}}
CompareSection ==
  IF model.unchangedGuaranteed THEN {}
  ELSE {<<"change", c>> : c \in {c \in Changes : Tally(model, Healths, Changes).change[c] > 0}}
RampSection ==
  IF Current.unmeasured THEN {}
  ELSE {<<"bin", k>> : k \in 0 .. BinCount - 1}
       \cup (IF Current.untrusted # {} THEN {<<"untrusted", TRUE>>} ELSE {})

Swatches ==
  CASE Legend = "health" -> HealthSection
    [] Legend = "change" -> CompareSection
    [] OTHER             -> RampSection

\* The links a legend counts under a colour of the ramp.
Hist(k) ==
  Cardinality({l \in DOMAIN Current.links :
    Bin(Drawing, Current.links[l], SpanOf(errors)) = k})

-----------------------------------------------------------------------------
(* Properties.                                                             *)

Els == IF Renders(view) THEN DOMAIN ToElements(model) ELSE {}

\* Type invariant: a view, wherever it was pasted from, names masks and windows
\* of the panels or what every object inherits (view/url.ts isMask,
\* view/mask.ts isWindowKey), and counters that have a box; colours belong to
\* the elements drawn, none on a blank page.
TypeOK ==
  /\ mode \in {"live", "point", "compare"}
  /\ isMask(view.mask) /\ isWindowKey(view.window)
  /\ DOMAIN view.counters \subseteq Selectable /\ view.rollup \in {"max", "sum"}
  /\ now \in 0 .. MaxNow /\ since \in Int
  /\ model \in Models
  /\ errors \in Deltas \cup {None} /\ traffic \in Rates \cup {None}
  /\ overlaid \in [Els -> Written \cup {None}]
  /\ DOMAIN painted = Els

ReadsTraffic == Drawing \in {"utilisation", "throughput"}
Answer == IF ReadsTraffic THEN traffic ELSE errors

\* Something was measured, and something of it is asked for.
Measured ==
  /\ Answer # None /\ Answer.measured > 0
  /\ ~ReadsTraffic => Selected(mode, view) # {}

\* The rows that account for an element.
RowsOf(i) ==
  {k \in DOMAIN Answer.ports :
     LET p == Answer.ports[k]
     IN  IF i \in Links THEN <<p.node, p.port>> \in Cable[i] ELSE p.node = i}

\* In a comparison a port that was recabled has two links, and its row is taken
\* for one of them.
Contested(i) ==
  i \in Links /\ \E l \in DOMAIN model.links \ {i} : Cable[l] \cap Cable[i] # {}

Dubious(p) ==
  \/ p.no_data \/ p.reset
  \/ ~ReadsTraffic /\ p.unsupported \cap Selected(mode, view) # {}

\* What a row says under the mask on screen, or None when it has no scale.
FigureOf(p) ==
  CASE Drawing = "throughput"  -> Busier(p)
    [] Drawing = "utilisation" -> UtilisationOf(p, LinkAt(model, p))
    [] OTHER                   -> SumOver(Selected(mode, view) \cap DOMAIN p.d, p.d)

Figure(i) ==
  LET figures == [k \in RowsOf(i) |-> FigureOf(Answer.ports[k])]
      told    == {k \in RowsOf(i) : figures[k] # None}
  IN  IF i \in Nodes /\ view.rollup = "sum" THEN SumOver(told, figures)
      ELSE Max({0} \cup {figures[k] : k \in told})

\* Grey is what was not measured, and nothing else is: with nothing measured
\* every element, and otherwise those with a row of a port that was unpolled,
\* was reset, or cannot count a selected counter that others can; and, under
\* utilisation, the links a row has no share of (cy/overlay.ts binFor,
\* model/counters.ts untrusted).
UntrustedIsGrey ==
  Drawing # None =>
    \A i \in Drawn(model) :
      /\ ~Measured => painted[i] = Untrusted
      /\ ~Contested(i) =>
           (painted[i] = Untrusted <=>
              \/ ~Measured
              \/ \E k \in RowsOf(i) :
                   \/ Dubious(Answer.ports[k])
                   \/ Drawing = "utilisation" /\ i \in Links /\ FigureOf(Answer.ports[k]) = None)

\* A zero that is made up is told: where a port of an element drawn cannot
\* report a counter that is selected, the element is grey, or the legend says
\* that no port can; unless the port was read and nothing else of it moved,
\* for then it has no row, and passes for a measured zero (assemble, rollup,
\* omittedOf).
CannotCountIsTold ==
  Drawing # None /\ ~ReadsTraffic /\ Measured =>
    \A i \in Drawn(model), j \in DOMAIN errors.facts :
      LET fact == errors.facts[j]
          ofIt == IF i \in Links THEN <<fact.node, fact.port>> \in Cable[i] ELSE fact.node = i
      IN  ofIt /\ ~Still(fact) /\ ~Contested(i) =>
            \A c \in fact.gated \cap Selected(mode, view) :
              painted[i] = Untrusted \/ c \in OmittedOf(errors, Selected(mode, view))

\* A colour of the ramp is the bin of the figure of what is drawn now: of a
\* node, its ports rolled up as the view asks, port 0 included; of a link, the
\* worse end.  Whatever order the model, the counters, the traffic and the
\* changes of mask came in (App.tsx effect of graphGen, applyOverlay).
RampIsTheFigure ==
  Drawing # None =>
    \A i \in Drawn(model) :
      painted[i] # Untrusted /\ ~Contested(i) =>
        painted[i] = <<Drawing, Bin(Drawing, Figure(i), SpanOf(errors))>>

\* Without an overlay nothing of one is left: every element has the colour of
\* its health or of its change again (applyOverlay, the style pass).
OverlayLeavesNoTrace ==
  Drawing = None => \A i \in DOMAIN painted : painted[i] = Base(model, i)

\* A click on a swatch selects the elements of its colour and no other, once
\* the model of the mode is there, except that bin 0 of a ramp also selects the
\* grey; and every change or reading drawn has its swatch, except that in a
\* comparison proved empty there is none, and every element has the same colour
\* (Toolbar CompareSection).
Proved == Legend = "change" /\ model.unchangedGuaranteed

SwatchSelectsColour ==
  Legend = Mask(mode, view) =>
    LET ColourOf(sw) == CASE sw[1] = "bin"       -> {<<Drawing, sw[2]>>}
                          [] sw[1] = "untrusted" -> {Untrusted}
                          [] OTHER               -> {sw}
        Grey(sw) == IF sw = <<"bin", 0>> THEN {Untrusted} ELSE {}
    IN  /\ \A sw \in Swatches :
             Swatch(sw[1], sw[2]) =
               {i \in DOMAIN painted : painted[i] \in ColourOf(sw) \cup Grey(sw)}
        /\ Proved => \A i \in Drawn(model) : painted[i] = <<"change", "unchanged">>
        /\ Legend # "health" /\ (Drawing # None => ~Current.unmeasured) /\ ~Proved =>
             \A i \in Drawn(model) : \E sw \in Swatches : painted[i] \in ColourOf(sw)

\* A legend counts the links, or under changes everything, of each colour; a
\* ramp never counts fewer than are drawn, nor more unless some are grey
\* (CountersPanel and TrafficPanel hist, Toolbar counts).
LegendCounts ==
  Legend = Mask(mode, view) =>
    LET tally == Tally(model, Healths, Changes)
        LinksOf(c) == Cardinality({l \in DOMAIN model.links : painted[l] = c})
        AllOf(c)    == Cardinality({i \in DOMAIN painted : painted[i] = c})
    IN  CASE Legend = "health" -> \A h \in Healths : tally.health[h] = LinksOf(<<"health", h>>)
          [] Legend = "change" -> ~Proved => \A c \in Changes : tally.change[c] = AllOf(<<"change", c>>)
          [] OTHER ->
               ~Current.unmeasured =>
                 \A k \in 0 .. BinCount - 1 :
                   /\ Hist(k) >= LinksOf(<<Drawing, k>>)
                   /\ LinksOf(Untrusted) = 0 => Hist(k) = LinksOf(<<Drawing, k>>)

\* The colours are those of the figures on screen, grey where nothing was
\* measured, and gone without a trace when the overlay is off.
ColoursAreTrue ==
  /\ TypeOK
  /\ Renders(view) => UntrustedIsGrey /\ CannotCountIsTold /\ RampIsTheFigure
  /\ OverlayLeavesNoTrace

\* The legend counts and selects what has its colour.
LegendsAgree == Renders(view) => SwatchSelectsColour /\ LegendCounts

\* The address carries what the map shows: opened elsewhere it gives the same
\* mask, window and rollup, and the same counters under the masks that sum
\* some, an empty selection included.  A list that names a counter more than
\* once, as a pasted address may, can pass for the default it is a part of, and
\* only such a list is lost (view/url.ts toSearch, sameSet, parseView).
UrlCarriesTheView ==
  LET opened == ParseView(url)
  IN  /\ opened.mask = view.mask /\ opened.window = view.window
      /\ opened.rollup = view.rollup
      /\ \/ CountersFor(opened) = CountersFor(view)
         \/ /\ opened.counters = DefaultSelection /\ Chosen \subseteq Groupings.cable
            /\ \E c \in Chosen : view.counters[c] > 1

\* The counter window ends at the pinned instant and spans the lookback; live,
\* it spans at least the lookback (App.tsx since).  A page without a lookback is
\* one whose address names a window that every object has.
WindowTrails ==
  CASE ~Renders(view)                      -> url.win \in Inherited
    [] Renders(view) /\ At(mode) # None -> since = At(mode) - Windows[view.window]
    [] OTHER                              -> since <= now - Windows[view.window]

\* The view outlives the tab, and the figures are of the window it names.
ViewHolds ==
  /\ UrlCarriesTheView
  /\ WindowTrails
=============================================================================
