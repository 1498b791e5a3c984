------------------------------- MODULE Timeline -------------------------------
(***************************************************************************)
(* The timeline strip and the instant the client looks at (time/Timeline,  *)
(* TimeContext, the head and snapshot queries of api/queries.ts), against  *)
(* a server on which sweeps keep landing.                                  *)
(*                                                                         *)
(* Four answers arrive on clocks of their own: the map on screen, which    *)
(* stays while the next one loads; the live map kept from before; the head *)
(* that is asked for while a handle is pinned; and the sweep index of the  *)
(* settled window, never asked again for one window.  "Now" is the newest  *)
(* sweep those answers know of, so it may step back, and the strip must    *)
(* stay put when it does.                                                  *)
(*                                                                         *)
(* One fabric.  A pinned instant has one answer.  Answers to a comparison  *)
(* up to now are not kept once it is left, and an index answer is not kept *)
(* once its window is left.                                                *)
(***************************************************************************)
EXTENDS TimeWindow, Sequences

CONSTANTS
  Histories,  \* sequences of sweeps that may land, each [iso, changed, complete]
  Landed,     \* of each, how many have when the page opens
  EdgePad,    \* EDGE_PAD_MS
  Limit,      \* LIMIT, rows of the sweep index
  Width,      \* of the strip, in pixels
  ColumnPx,
  Presets,    \* PRESETS
  Pans,       \* how far a drag of the track takes the view
  Zooms,      \* the wheel: 5/4 and 4/5, as fractions
  Cursors,    \* where the pointer is over the strip, as fractions
  Floor       \* bound: how far back the view is moved

ASSUME TimelineAssumption ==
  /\ EdgePad \in Nat \ {0} /\ Limit \in Nat \ {0} /\ Floor \in Int
  /\ Width \in Nat \ {0} /\ ColumnPx \in Nat \ {0}
  /\ Presets \subseteq Nat \ {0} /\ Pans \subseteq Int
  /\ Zooms \subseteq Nat \X (Nat \ {0}) /\ Cursors \subseteq Int \X (Nat \ {0})
  /\ Histories \subseteq Seq([iso : Int, changed : BOOLEAN, complete : BOOLEAN])
  /\ \A h \in Histories :
       /\ Landed[h] \in 1 .. Len(h)
       /\ h[1].complete
       /\ \A i, j \in 1 .. Len(h) : i < j => Ms(h[i].iso) < Ms(h[j].iso)

VARIABLES
  history,   \* what lands
  landed,    \* the sweeps the server has: history[1 .. landed]
  time,      \* TimeState
  shown,     \* `resolved` of the map on screen: [collected, latest]
  liveMap,   \* the live map react-query keeps, or None
  head,      \* the head it keeps, or None
  win,       \* the stretch of history shown
  index,     \* the sweep index of the window that last stood still, or None
  open,      \* the strip is open
  meant      \* history: the sweeps the ends in `time` were meant to name

server == <<history, landed>>
vars   == <<server, time, shown, liveMap, head, win, index, open, meant>>

Resolved == [collected : Int, latest : Int]

-----------------------------------------------------------------------------
(* The server. *)

Rows == {history[i] : i \in 1 .. landed}

AtOrBefore(t) == {r \in Rows : t = None \/ r.iso <= t}
CompleteAt(t) == {r \in AtOrBefore(t) : r.complete}
Newest(rows)  == (CHOOSE r \in rows : \A q \in rows : q.iso <= r.iso).iso

\* db.resolve: the newest complete sweep, and the newest of any kind.
Resolve(t) == [collected |-> Newest(CompleteAt(t)), latest |-> Newest(AtOrBefore(t))]

\* /snapshots: the newest Limit of the rows in a range, both ends included.
SnapshotRows(rows, since, until) ==
  LET asked == {r \in rows : since <= r.iso /\ r.iso <= until}
  IN  {r \in asked : Cardinality({q \in asked : r.iso < q.iso}) < Limit}

LandSweep ==
  /\ landed < Len(history)
  /\ landed' = landed + 1
  /\ UNCHANGED <<history, time, shown, liveMap, head, win, index, open, meant>>

-----------------------------------------------------------------------------
(* What the strip reads. *)

Pinned(t) == InstantOf(t) # None

NowOf(t, map, kept) == Ms(IF Pinned(t) /\ kept # None THEN kept.latest ELSE map.latest)

Now == NowOf(time, shown, head)

Truncated == index # None /\ Cardinality(index.rows) >= Limit
Sweeps    == IF index = None \/ Truncated THEN {} ELSE ToSweeps(index.rows)
Targets   == Targetable(Sweeps)

\* The effect of [time, now]: w is the window the same event left.
Follow(w, touched) ==
  win' = IF touched \/ Now' # Now THEN OnHeadMove(w, Now, Now', time') ELSE w

\* The strip opens and closes with the mode.
OpenFor(next) == IF next.mode # time.mode THEN next.mode # "live" ELSE open

\* An end that has not moved means what it meant; one that has means the sweep
\* the gesture named, when it is that sweep's millisecond.
Means(end, was, sweep, named) ==
  IF end = was THEN sweep
  ELSE IF end # None /\ \E s \in named : Ms(s) = Ms(end)
    THEN CHOOSE s \in named : Ms(s) = Ms(end) ELSE None

SinceOf(t) == IF t.mode = "compare" THEN t.since ELSE None

Meant(next, named) ==
  [since |-> Means(SinceOf(next), SinceOf(time), meant.since, named),
   last  |-> Means(InstantOf(next), InstantOf(time), meant.last, named)]

\* setTime.  Live is one object: setting it again changes nothing.  A live map
\* react-query still has is shown at once; otherwise the one on screen stays.
SetTime(next, w, named) ==
  /\ time' = next
  /\ meant' = Meant(next, named)
  /\ shown' \in {shown} \cup (IF next = Live /\ time # Live /\ liveMap # None
                                THEN {liveMap} ELSE {})
  /\ open' = OpenFor(next)
  /\ UNCHANGED <<server, liveMap, head, index>>
  /\ Follow(w, next # Live \/ time # Live)

-----------------------------------------------------------------------------
(* Answers. *)

AnswerMap ==
  /\ CompleteAt(InstantOf(time)) # {}
  /\ shown' = Resolve(InstantOf(time))
  /\ liveMap' = IF time = Live THEN shown' ELSE liveMap
  /\ UNCHANGED <<server, time, head, index, open, meant>>
  /\ Follow(win, FALSE)

\* Asked only while pinned; what was kept shows until it answers.
AnswerHead ==
  /\ Pinned(time)
  /\ head' = Resolve(None)
  /\ UNCHANGED <<server, time, shown, liveMap, index, open, meant>>
  /\ Follow(win, FALSE)

\* Mutant: the index ends at the edge of the window.
MutAsked(w) == <<InstantAt(w.from), InstantAt(w.to)>>

Asked(w) == <<InstantAt(w.from), InstantAt(w.to + EdgePad)>>

\* DEBOUNCE_MS after the last move the window has settled and its index is
\* asked for.  Until it is answered, or if it fails, there is none.
Settle ==
  /\ open
  /\ index # None => index.of # win
  /\ index' = None
  /\ UNCHANGED <<server, time, shown, liveMap, head, win, open, meant>>

AnswerIndex ==
  /\ open /\ index = None
  /\ index' = [of |-> win, rows |-> SnapshotRows(Rows, Asked(win)[1], Asked(win)[2]), upTo |-> landed]
  /\ UNCHANGED <<server, time, shown, liveMap, head, win, open, meant>>

-----------------------------------------------------------------------------
(* Gestures.  The strip has to be open for those that use it. *)

\* commit
Commit(grip, release) ==
  LET next == MoveHandle(time, grip, release, Targets, Now)
      land == Landing(Targets, release, Now)
  IN /\ open /\ release >= Floor
     /\ next # None
     /\ SetTime(next, win, IF land.kind = "sweep" THEN {land.sweep.iso} ELSE {})

\* A drag ends, or a click on the track moves the nearest handle.
Release(grip, release) ==
  /\ grip \in Grips(time)
  /\ Commit(grip, release)

TrackClick(release) ==
  \E grip \in Grips(time) :
    /\ \A g \in Grips(time) :
         Dist(HandleAt(time, grip, Now), release) <= Dist(HandleAt(time, g, Now), release)
    /\ Commit(grip, release)

\* An arrow key: the next sweep, or a fraction of the span where there is none.
KeyStep(grip, dir) ==
  LET t    == HandleAt(time, grip, Now)
      next == StepTarget(Targets, t, dir)
  IN /\ grip \in Grips(time)
     /\ Commit(grip, IF next = None THEN t + dir * Greater(Span(win) \div 50, 1) ELSE next.at)

Jump(dir) ==
  LET next == JumpTo(time, dir, Targets, Now) IN
  /\ open /\ ~ Truncated
  /\ next # None
  /\ SetTime(next, win, {s.iso : s \in Targets})

\* The Mode menu, always there.
PickMode(mode) ==
  LET next == DefaultFor(mode, shown.collected) IN
  mode # time.mode /\ SetTime(next, win, IF mode = "point" THEN {shown.collected} ELSE {})

Preset(ms) ==
  LET w == ClampWin(Win(Now - ms, Now), Now) IN
  /\ open
  /\ IF time.mode = "compare"
       THEN SetTime(Compare(InstantAt(Now - ms), None), w, {})
       ELSE /\ win' = w
            /\ UNCHANGED <<server, time, shown, liveMap, head, index, open, meant>>

MoveView(w) ==
  /\ open /\ w.from >= Floor
  /\ win' = w
  /\ UNCHANGED <<server, time, shown, liveMap, head, index, open, meant>>

Pan(by) == MoveView(ClampWin(PanWin(win, by), Now))
Zoom(factor, fraction) == MoveView(ClampWin(ZoomWin(win, factor, fraction), Now))

Toggle ==
  /\ open' = ~ open
  /\ UNCHANGED <<server, time, shown, liveMap, head, win, index, meant>>

\* The page is loaded from its link: the strip is made when the map is there.
Reload ==
  LET from == ParseTime(ToSearch(time)) IN
  /\ CompleteAt(InstantOf(from)) # {}
  /\ time' = from
  /\ shown' = Resolve(InstantOf(from))
  /\ liveMap' = IF from = Live THEN shown' ELSE None
  /\ head' = None
  /\ win' = DefaultWindow(from, Ms(shown'.latest))
  /\ index' = None
  /\ open' = (from.mode # "live")
  /\ UNCHANGED <<server, meant>>

-----------------------------------------------------------------------------
Init ==
  /\ history \in Histories
  /\ landed = Landed[history]
  /\ time = Live
  /\ shown = Resolve(None)
  /\ liveMap = shown
  /\ head = None
  /\ win = DefaultWindow(Live, Ms(shown.latest))
  /\ index = None
  /\ open = FALSE
  /\ meant = [since |-> None, last |-> None]

\* pointerT
PointerAt(fraction) == win.from + (Span(win) * fraction[1]) \div fraction[2]

Next ==
  \/ LandSweep
  \/ AnswerMap
  \/ AnswerHead
  \/ Settle
  \/ AnswerIndex
  \/ \E cursor \in Cursors : TrackClick(PointerAt(cursor))
  \/ \E grip \in Grips(time), cursor \in Cursors : Release(grip, PointerAt(cursor))
  \/ \E grip \in Grips(time), dir \in {-1, 1} : KeyStep(grip, dir)
  \/ \E dir \in {-1, 1} : Jump(dir)
  \/ \E mode \in {"live", "point", "compare"} : PickMode(mode)
  \/ \E ms \in Presets : Preset(ms)
  \/ \E by \in Pans : Pan(by)
  \/ \E factor \in Zooms, cursor \in Cursors : Zoom(factor, cursor)
  \/ Toggle
  \/ Reload

Spec == Init /\ [][Next]_vars
-----------------------------------------------------------------------------
\* Type invariant: instants, answers and rows are of their kinds, and the span of
\* the window stays within its bounds (time/window.ts clampWin).
TypeOK ==
  /\ landed \in 1 .. Len(history)
  /\ time \in TimeState
  /\ shown \in Resolved /\ {liveMap, head} \subseteq Resolved \cup {None}
  /\ win \in Window /\ Span(win) \in MinSpan .. MaxSpan
  /\ index \in {None} \cup [of : Window, rows : SUBSET Rows, upTo : 1 .. landed]
  /\ open \in BOOLEAN
  /\ meant.since \in Int \cup {None} /\ meant.last \in Int \cup {None}

Answers(sweep, t) == CompleteAt(t) # {} /\ Resolve(t).collected = sweep

\* An instant set by landing on a sweep, jumping to it or freezing on it is
\* answered by that sweep, to the microsecond, also when its link is reloaded.
NamedSweepAnswers ==
  /\ meant.since # None => Answers(meant.since, time.since)
  /\ meant.last # None => Answers(meant.last, InstantOf(time))

\* A comparison has its ends in order, however they were dragged, stepped,
\* preset or jumped to, and whatever "now" was at the time.  (Its start may be
\* the newest sweep itself when its end, once held a minute past the head, is
\* let go to follow it.)
RangeStaysOrdered ==
  time.mode = "compare" =>
    IF time.until = None THEN time.since <= Newest(Rows) ELSE time.since < time.until

\* What is looked at is what was set: a sweep that was named answers with
\* itself, and a comparison keeps its order.
TimeMeansWhatWasSet ==
  /\ TypeOK
  /\ NamedSweepAnswers
  /\ RangeStaysOrdered

\* Dropping the handle at the head always returns to live, also when the head
\* sweep did not complete, the index failed or there are too many sweeps.
LiveIsReachable ==
  time.mode = "point" => MoveHandle(time, "at", Now, Targets, Now) = Live

\* The index of a window is asked once, and stays true: whatever has landed
\* since, every sweep the server has in the window is drawn, in a column marked
\* changed if it is, the head included, which lies a fraction of a millisecond
\* past the edge.  (Of a window that did not reach past the head when asked.)
StripIsTheRecord ==
  /\ open /\ index # None /\ ~ Truncated /\ index.of = win
  /\ win.to <= Ms(history[index.upTo].iso)
  =>
    LET there == {s \in ToSweeps(Rows) : s.at \in win.from .. win.to}
    IN Columns(Sweeps, win, Width, ColumnPx) =
         {[x |-> x, count |-> Cardinality({s \in there : ColumnOf(s, win, Width, ColumnPx) = x}),
           changed |-> \E s \in there : s.changed /\ ColumnOf(s, win, Width, ColumnPx) = x] :
            x \in {ColumnOf(s, win, Width, ColumnPx) : s \in there}}

\* A jump in compare mode shows one event: exactly one complete sweep between
\* its ends, the later one included, recorded a change.
JumpShowsOneEvent ==
  open /\ time.mode = "compare" =>
    \A dir \in {-1, 1} :
      LET next == JumpTo(time, dir, Targets, Now) IN
      next # None =>
        Cardinality({r \in Rows : /\ r.complete /\ r.changed
                                  /\ next.since < r.iso /\ r.iso <= next.until}) = 1

\* A poll in live mode never throws the zoom away: a window parked at the head
\* follows it at the same span.
ZoomSurvivesPolls ==
  time = Live /\ time' = Live /\ Now' > Now /\ win.to = Now /\ ~ Reload
    => win' = Win(Now' - Span(win), Now')

\* A window that is not parked at the head stays where it is when sweeps land,
\* unless what is being looked at would leave it.
ViewStaysPut ==
  time' = time /\ Now' > Now /\ win.to < Now /\ Shows(win, time, Now') /\ ~ Reload
    => win' = win

\* A change of the instants looked at brings them into view, unless the head is
\* not known yet to be as late as they are, or they are too far apart.
ArtifactComesIntoView ==
  LET lo == RangeOf(time', Now')[1]
      hi == RangeOf(time', Now')[2]
  IN time' # time /\ hi <= Now' /\ 2 * PadFor(lo, hi) + hi - lo <= MaxSpan
       => Shows(win', time', Now')

\* The window follows what is looked at and nothing else: polls neither throw
\* the zoom away nor move a view that is elsewhere, and what is set is shown.
ViewFollows ==
  [][ZoomSurvivesPolls /\ ViewStaysPut /\ ArtifactComesIntoView]_vars
=============================================================================
