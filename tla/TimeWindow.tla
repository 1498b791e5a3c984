------------------------------ MODULE TimeWindow ------------------------------
(***************************************************************************)
(* The arithmetic of the time axis (frontend/src/time: state, instant,     *)
(* window, changes, handles, modes, url): which instants the client looks  *)
(* at, the stretch of history the strip shows, and what a released handle  *)
(* or a jump commits to.                                                   *)
(*                                                                         *)
(* Two units of time.  The server stamps a sweep in fine units (the        *)
(* microseconds of timestamptz), Fine of them to a millisecond; the strip  *)
(* computes in milliseconds (Date.parse).  What an instant loses on the    *)
(* way is kept, since an instant earlier than its sweep names the sweep    *)
(* before.  Doubles are integers here, rounded down.                       *)
(***************************************************************************)
EXTENDS Integers, FiniteSets

CONSTANTS
  Fine,     \* fine units in a millisecond
  Minute,   \* 60_000 ms, and the other spans of the source, scaled down
  MinSpan,
  MaxSpan,
  PadMin,
  HalfDay,
  Day,
  None      \* null

ASSUME TimeWindowAssumption ==
  /\ Fine \in Nat \ {0} /\ Minute \in Nat \ {0} /\ PadMin \in Nat \ {0}
  /\ MinSpan \in Nat \ {0} /\ MaxSpan \in Nat /\ HalfDay \in Nat /\ Day \in Nat
  /\ MinSpan <= Day /\ Day <= MaxSpan /\ 2 * HalfDay <= MaxSpan
  /\ None \notin Int

Lesser(a, b)  == IF a <= b THEN a ELSE b
Greater(a, b) == IF a >= b THEN a ELSE b
Clamp(x, lo, hi) == Lesser(Greater(x, lo), hi)
Dist(a, b)    == IF a <= b THEN b - a ELSE a - b

-----------------------------------------------------------------------------
(* Instants and TimeState. *)

Ms(t)         == t \div Fine   \* Date.parse of a stamp
InstantAt(ms) == ms * Fine     \* the last three digits are zero

Live == [mode |-> "live"]
Point(at) == [mode |-> "point", at |-> at]
Compare(since, until) == [mode |-> "compare", since |-> since, until |-> until]

TimeState ==
  {Live} \cup [mode : {"point"}, at : Int]
    \cup [mode : {"compare"}, since : Int, until : Int \cup {None}]

InstantOf(time) ==
  CASE time.mode = "live"    -> None
    [] time.mode = "point"   -> time.at
    [] time.mode = "compare" -> time.until

\* The parameters of the query string; an absent one is None.
Query(at, since, until) == [at |-> at, since |-> since, until |-> until]

ToSearch(time) ==
  CASE time.mode = "live"    -> Query(None, None, None)
    [] time.mode = "point"   -> Query(time.at, None, None)
    [] time.mode = "compare" -> Query(None, time.since, time.until)

ParseTime(q) ==
  IF q.since # None THEN Compare(q.since, q.until)
  ELSE IF q.at # None THEN Point(q.at) ELSE Live

-----------------------------------------------------------------------------
(* The window. *)

Window == [from : Int, to : Int]

Win(from, to) == [from |-> from, to |-> to]
Span(w) == w.to - w.from

ClampWin(w, now) ==
  LET to == Lesser(w.to, now) IN Win(to - Clamp(Span(w), MinSpan, MaxSpan), to)

\* The instants a mode cares about, as <<lo, hi>>.
RangeOf(time, now) ==
  CASE time.mode = "live"    -> <<now, now>>
    [] time.mode = "point"   -> <<Ms(time.at), Ms(time.at)>>
    [] time.mode = "compare" ->
         <<Ms(time.since), IF time.until = None THEN now ELSE Ms(time.until)>>

PadFor(lo, hi) == Greater((hi - lo) \div 4, PadMin)

DefaultWindow(time, now) ==
  LET lo  == RangeOf(time, now)[1]
      hi  == RangeOf(time, now)[2]
      pad == PadFor(lo, hi)
  IN CASE time.mode = "live"    -> ClampWin(Win(now - Day, now), now)
       [] time.mode = "point"   -> ClampWin(Win(lo - HalfDay, lo + HalfDay), now)
       [] time.mode = "compare" -> ClampWin(Win(lo - pad, hi + pad), now)

Shows(w, time, now) == RangeOf(time, now)[1] >= w.from /\ RangeOf(time, now)[2] <= w.to

EnsureVisible(w, time, now) ==
  IF Shows(w, time, now) THEN w ELSE DefaultWindow(time, now)

\* Mutant: the window does not follow the head.
MutOnHeadMove(w, prev, now, time) == EnsureVisible(w, time, now)

OnHeadMove(w, prev, now, time) ==
  LET moved == now - prev
      slid  == IF moved > 0 /\ w.to >= prev
                 THEN Win(w.from + moved, w.to + moved) ELSE w
  IN EnsureVisible(slid, time, now)

\* factor and fraction are <<numerator, denominator>>.
ZoomWin(w, factor, fraction) ==
  LET wanted == Clamp((Span(w) * factor[1]) \div factor[2], MinSpan, MaxSpan)
      anchor == w.from + (Span(w) * fraction[1]) \div fraction[2]
      from   == anchor - (wanted * fraction[1]) \div fraction[2]
  IN Win(from, from + wanted)

PanWin(w, by) == Win(w.from + by, w.to + by)

-----------------------------------------------------------------------------
(* The density columns.  Px(t) is a whole pixel. *)

Px(t, w, width) == ((t - w.from) * width) \div Span(w)

InWindow(s, w) == s.at >= w.from /\ s.at <= w.to

ColumnOf(s, w, width, px) == (Px(s.at, w, width) \div px) * px

Columns(sweeps, w, width, px) ==
  LET drawn == {s \in sweeps : InWindow(s, w)}
      In(x) == {s \in drawn : ColumnOf(s, w, width, px) = x}
  IN {[x |-> x, count |-> Cardinality(In(x)), changed |-> \E s \in In(x) : s.changed] :
        x \in {ColumnOf(s, w, width, px) : s \in drawn}}

-----------------------------------------------------------------------------
(* Sweeps on the client: at in ms, iso as the server stamped it.  No two   *)
(* have one millisecond, so the order of the source's arrays is that of    *)
(* at, and they are sets here.                                             *)

ToSweeps(rows) ==
  {[at |-> Ms(r.iso), iso |-> r.iso, changed |-> r.changed, complete |-> r.complete] : r \in rows}

Targetable(sweeps) == {s \in sweeps : s.complete}

Earliest(found) ==
  IF found = {} THEN None ELSE CHOOSE s \in found : \A r \in found : s.at <= r.at

Latest(found) ==
  IF found = {} THEN None ELSE CHOOSE s \in found : \A r \in found : r.at <= s.at

Nearest(sweeps, at) ==
  Earliest({s \in sweeps : \A r \in sweeps : Dist(s.at, at) <= Dist(r.at, at)})

After(sweeps, at)  == {s \in sweeps : s.at > at}
Before(sweeps, at) == {s \in sweeps : s.at < at}
Changed(sweeps)    == {s \in sweeps : s.changed}

StepTarget(sweeps, from, dir) ==
  IF dir = 1 THEN Earliest(After(sweeps, from)) ELSE Latest(Before(sweeps, from))

NextChange(sweeps, after)  == Earliest(After(Changed(sweeps), after))
PrevChange(sweeps, before) == Latest(Before(Changed(sweeps), before))

\* Mutant: off by one.
MutPairFor(sweeps, changed) ==
  IF Before(sweeps, changed.at) = {} THEN None ELSE Compare(changed.iso, changed.iso)

\* The changed sweep against the one before it.
PairFor(sweeps, changed) ==
  LET prior == Before(sweeps, changed.at)
  IN  IF prior = {} THEN None ELSE Compare(Latest(prior).iso, changed.iso)

-----------------------------------------------------------------------------
(* Handles. *)

Grips(time) == IF time.mode = "compare" THEN {"since", "until"} ELSE {"at"}

HandleAt(time, grip, now) == RangeOf(time, now)[IF grip = "until" THEN 2 ELSE 1]

AtHead == [kind |-> "head"]

\* Mutant: live means dropping it on the newest sweep.
MutLanding(targets, release, now) ==
  LET snap == Nearest(targets, release) IN
  IF snap = None
    THEN IF release >= now THEN AtHead ELSE [kind |-> "instant", at |-> release]
    ELSE IF snap.at = now /\ release >= now THEN AtHead ELSE [kind |-> "sweep", sweep |-> snap]

Landing(targets, release, now) ==
  LET snap == Nearest(targets, release) IN
  IF snap = None
    THEN IF release >= now THEN AtHead ELSE [kind |-> "instant", at |-> release]
    ELSE IF Dist(release, now) <= Dist(release, snap.at)
           THEN AtHead ELSE [kind |-> "sweep", sweep |-> snap]

LandedAt(land, now) ==
  CASE land.kind = "head"    -> now
    [] land.kind = "sweep"   -> land.sweep.at
    [] land.kind = "instant" -> land.at

\* Mutant: the stamp is rebuilt from the milliseconds.
MutStampOf(land, now) == InstantAt(LandedAt(land, now))

StampOf(land, now) ==
  IF land.kind = "sweep" THEN land.sweep.iso ELSE InstantAt(LandedAt(land, now))

MoveHandle(time, grip, release, targets, now) ==
  LET land  == Landing(targets, release, now)
      at    == LandedAt(land, now)
      stamp == StampOf(land, now)
      head  == land = AtHead
      ceiling == RangeOf(time, now)[2]
      floor   == RangeOf(time, now)[1]
  IN IF grip = "at" THEN IF head THEN Live ELSE Point(stamp)
     ELSE IF time.mode # "compare" THEN None
     ELSE IF grip = "since"
       THEN Compare(IF ~ head /\ at < ceiling THEN stamp ELSE InstantAt(ceiling - Minute),
                    time.until)
     ELSE IF head THEN Compare(time.since, None)
       ELSE Compare(time.since, IF at > floor THEN stamp ELSE InstantAt(floor + Minute))

JumpTo(time, dir, targets, now) ==
  LET anchor == RangeOf(time, now)[IF dir = 1 THEN 2 ELSE 1]
      target == IF dir = 1 THEN NextChange(targets, anchor) ELSE PrevChange(targets, anchor)
  IN IF target = None THEN None
     ELSE IF time.mode = "compare" THEN PairFor(targets, target)
     ELSE Point(target.iso)

DefaultFor(mode, collected) ==
  CASE mode = "live"    -> Live
    [] mode = "point"   -> Point(collected)
    [] mode = "compare" -> Compare(InstantAt(Ms(collected) - Day), None)
=============================================================================
