---------------------------- MODULE Timeline_proofs ----------------------------
(***************************************************************************)
(* Theorems about the timeline, for any history of sweeps, any strip and   *)
(* any constants of its arithmetic: what is looked at is what was set, the *)
(* head can always be returned to, a jump shows one event, the strip draws *)
(* every sweep of its window, and the window follows what is looked at.    *)
(***************************************************************************)
EXTENDS Timeline, FiniteSetTheorems, WellFoundedInduction, TLAPS

-----------------------------------------------------------------------------
(* The two units of time. *)

\* A stamp lies in its millisecond.
LEMMA MsBounds ==
  ASSUME NEW t \in Int
  PROVE  Ms(t) \in Int /\ Fine * Ms(t) <= t /\ t < Fine * (Ms(t) + 1)
<1>1. Fine \in Nat \ {0}
  BY TimeWindowAssumption
<1> QED
  BY <1>1, SMT DEF Ms

\* Whole milliseconds are ordered as their instants.
LEMMA FineOrder ==
  ASSUME NEW a \in Int, NEW b \in Int, a < b
  PROVE  Fine * (a + 1) <= Fine * b
<1>1. Fine \in Nat \ {0}
  BY TimeWindowAssumption
<1>2. b - (a + 1) \in Nat
  OBVIOUS
<1>3. Fine * (b - (a + 1)) >= 0
  BY <1>1, <1>2, SMT
<1>4. Fine * (b - (a + 1)) = Fine * b - Fine * (a + 1)
  BY <1>1, SMT
<1>5. Fine * b \in Int /\ Fine * (a + 1) \in Int
  BY <1>1
<1> QED
  BY <1>3, <1>4, <1>5, SMT

\* An instant of a whole millisecond is in it.
LEMMA MsOfInstant ==
  ASSUME NEW m \in Int
  PROVE  InstantAt(m) \in Int /\ Ms(InstantAt(m)) = m
<1>1. Fine \in Nat \ {0}
  BY TimeWindowAssumption
<1>2. InstantAt(m) = Fine * m /\ InstantAt(m) \in Int
  BY <1>1, SMT DEF InstantAt
<1> DEFINE n == Ms(InstantAt(m))
<1>3. n \in Int /\ Fine * n <= Fine * m /\ Fine * m < Fine * (n + 1)
  BY <1>2, MsBounds
<1> HIDE DEF n
<1>4. Fine * m \in Int /\ Fine * n \in Int /\ Fine * (n + 1) \in Int /\ Fine * (m + 1) \in Int
  BY <1>1, <1>3
<1>5. ~ (m < n)
  <2>1. Fine * (m + 1) = Fine * m + Fine
    BY <1>1, SMT
  <2> QED
    BY <1>1, <1>3, <1>4, <2>1, FineOrder
<1>6. ~ (n < m)
  BY <1>3, <1>4, FineOrder
<1>7. n = m
  BY <1>3, <1>5, <1>6
<1> QED
  BY <1>2, <1>7 DEF n

\* Stamps of one order have milliseconds of that order.
LEMMA MsOrder ==
  ASSUME NEW a \in Int, NEW b \in Int
  PROVE  /\ a <= b => Ms(a) <= Ms(b)
         /\ Ms(a) < Ms(b) => a < b
<1>1. Ms(a) \in Int /\ Ms(b) \in Int /\ Fine * Ms(a) <= a /\ b < Fine * (Ms(b) + 1)
  BY MsBounds
<1>2. Fine \in Nat \ {0}
  BY TimeWindowAssumption
<1>3. Fine * Ms(a) \in Int /\ Fine * (Ms(b) + 1) \in Int
  BY <1>1, <1>2
<1>4. Ms(b) < Ms(a) => b < a
  BY <1>1, <1>3, FineOrder
<1>5. Ms(a) < Ms(b) => a < b
  <2>1. a < Fine * (Ms(a) + 1) /\ Fine * Ms(b) <= b
    BY MsBounds
  <2>2. Fine * Ms(b) \in Int /\ Fine * (Ms(a) + 1) \in Int
    BY <1>1, <1>2
  <2> QED
    BY <1>1, <2>1, <2>2, FineOrder
<1> QED
  BY <1>1, <1>4, <1>5

\* A stamp is no earlier than a whole millisecond its own is no earlier than, and
\* earlier than one its own is earlier than.
LEMMA InstantOrder ==
  ASSUME NEW t \in Int, NEW m \in Int
  PROVE  /\ m <= Ms(t) => InstantAt(m) <= t
         /\ Ms(t) < m => t < InstantAt(m)
<1>1. InstantAt(m) \in Int /\ Ms(InstantAt(m)) = m /\ Ms(t) \in Int
  BY MsOfInstant, MsBounds
<1>2. Ms(t) < m => t < InstantAt(m)
  BY <1>1, MsOrder
<1>3. m < Ms(t) => InstantAt(m) < t
  BY <1>1, MsOrder
<1>4. m = Ms(t) => InstantAt(m) <= t
  <2>1. Fine \in Nat \ {0}
    BY TimeWindowAssumption
  <2>2. InstantAt(Ms(t)) = Fine * Ms(t)
    BY <2>1, <1>1, SMT DEF InstantAt
  <2> QED
    BY <2>2, MsBounds
<1> QED
  BY <1>1, <1>2, <1>3, <1>4

-----------------------------------------------------------------------------
(* The window. *)

\* A span is clamped into its bounds, and not cut when it is within them.
LEMMA ClampSpan ==
  ASSUME NEW x \in Int
  PROVE  /\ Clamp(x, MinSpan, MaxSpan) \in MinSpan .. MaxSpan
         /\ x <= MaxSpan => x <= Clamp(x, MinSpan, MaxSpan)
         /\ x \in MinSpan .. MaxSpan => Clamp(x, MinSpan, MaxSpan) = x
BY TimeWindowAssumption DEF Clamp, Lesser, Greater

\* A clamped window ends by now and has a span in bounds.
LEMMA ClampWinFits ==
  ASSUME NEW w \in Window, NEW now \in Int
  PROVE  /\ ClampWin(w, now) \in Window
         /\ Span(ClampWin(w, now)) \in MinSpan .. MaxSpan
         /\ ClampWin(w, now).to = Lesser(w.to, now)
         /\ Span(w) <= MaxSpan => ClampWin(w, now).from <= w.from
<1> DEFINE to == Lesser(w.to, now)
           c  == Clamp(Span(w), MinSpan, MaxSpan)
<1>1. w.from \in Int /\ w.to \in Int /\ Span(w) \in Int /\ Span(w) = w.to - w.from
  BY DEF Window, Span
<1>2. to \in Int /\ to <= w.to
  BY <1>1 DEF Lesser
<1>3. c \in MinSpan .. MaxSpan /\ (Span(w) <= MaxSpan => Span(w) <= c)
  BY <1>1, ClampSpan
<1>4. MinSpan \in Int /\ MaxSpan \in Int
  BY TimeWindowAssumption
<1>5. ClampWin(w, now) = [from |-> to - c, to |-> to]
  BY DEF ClampWin, Win
<1> HIDE DEF to, c
<1>6. Span(ClampWin(w, now)) = c
  BY <1>2, <1>3, <1>4, <1>5 DEF Span
<1> QED
  BY <1>1, <1>2, <1>3, <1>4, <1>5, <1>6 DEF Window, to

\* What a mode looks at is two numbers.
LEMMA RangeType ==
  ASSUME NEW t \in TimeState, NEW now \in Int
  PROVE  RangeOf(t, now)[1] \in Int /\ RangeOf(t, now)[2] \in Int
<1>1. CASE t = Live
  BY <1>1 DEF RangeOf, Live
<1>2. CASE t \in [mode : {"point"}, at : Int]
  BY <1>2, MsBounds DEF RangeOf
<1>3. CASE t \in [mode : {"compare"}, since : Int, until : Int \cup {None}]
  BY <1>3, MsBounds, TimeWindowAssumption DEF RangeOf
<1> QED
  BY <1>1, <1>2, <1>3 DEF TimeState

\* The default window is one, and shows what it is for if now is that late.
LEMMA DefaultWindowShows ==
  ASSUME NEW t \in TimeState, NEW now \in Int
  PROVE  LET lo == RangeOf(t, now)[1]
             hi == RangeOf(t, now)[2]
             w  == DefaultWindow(t, now)
         IN  /\ w \in Window /\ Span(w) \in MinSpan .. MaxSpan
             /\ hi <= now /\ 2 * PadFor(lo, hi) + hi - lo <= MaxSpan => Shows(w, t, now)
<1> DEFINE lo == RangeOf(t, now)[1]
           hi == RangeOf(t, now)[2]
           w  == DefaultWindow(t, now)
           pad == PadFor(lo, hi)
<1>1. lo \in Int /\ hi \in Int
  BY RangeType
<1>2. pad \in Int /\ pad > 0
  <2>1. (hi - lo) \div 4 \in Int
    BY <1>1
  <2> QED
    BY <2>1, TimeWindowAssumption DEF PadFor, Greater
<1>3. CASE t = Live
  <2>1. lo = now /\ hi = now
    BY <1>3 DEF RangeOf, Live
  <2>2. w = ClampWin(Win(now - Day, now), now)
    BY <1>3 DEF DefaultWindow, Live
  <2>3. Win(now - Day, now) \in Window /\ Win(now - Day, now).to = now
    BY TimeWindowAssumption DEF Window, Win
  <2>4. w.to = now
    <3>1. w.to = Lesser(now, now)
      BY <2>2, <2>3, ClampWinFits
    <3> QED
      BY <3>1 DEF Lesser
  <2>5. w \in Window /\ Span(w) \in MinSpan .. MaxSpan
    BY <2>2, <2>3, ClampWinFits
  <2>6. Shows(w, t, now)
    BY <2>1, <2>4, <2>5, TimeWindowAssumption DEF Shows, Span, Window
  <2> QED
    BY <2>5, <2>6
<1>4. CASE t \in [mode : {"point"}, at : Int]
  <2> DEFINE v == Win(lo - HalfDay, lo + HalfDay)
  <2>1. hi = lo
    BY <1>4 DEF RangeOf
  <2>2. w = ClampWin(v, now)
    BY <1>4 DEF DefaultWindow
  <2>3. v \in Window /\ v.to = lo + HalfDay /\ v.from = lo - HalfDay
    BY <1>1, TimeWindowAssumption DEF Window, Win
  <2>4. Span(v) <= MaxSpan
    BY <1>1, <2>3, TimeWindowAssumption DEF Span
  <2>5. w \in Window /\ Span(w) \in MinSpan .. MaxSpan
        /\ w.to = Lesser(v.to, now) /\ w.from <= v.from
    BY <2>2, <2>3, <2>4, ClampWinFits
  <2>6. hi <= now => Shows(w, t, now)
    BY <1>1, <2>1, <2>3, <2>5, TimeWindowAssumption DEF Shows, Lesser, Window
  <2> QED
    BY <2>5, <2>6
<1>5. CASE t \in [mode : {"compare"}, since : Int, until : Int \cup {None}]
  <2> DEFINE v == Win(lo - pad, hi + pad)
  <2>2. w = ClampWin(v, now)
    BY <1>5 DEF DefaultWindow
  <2>3. v \in Window /\ v.to = hi + pad /\ v.from = lo - pad
    BY <1>1, <1>2 DEF Window, Win
  <2>5. w \in Window /\ Span(w) \in MinSpan .. MaxSpan /\ w.to = Lesser(v.to, now)
        /\ (Span(v) <= MaxSpan => w.from <= v.from)
    BY <2>2, <2>3, ClampWinFits
  <2>6. Span(v) = 2 * pad + hi - lo
    BY <1>1, <1>2, <2>3 DEF Span
  <2>7. ASSUME hi <= now, 2 * pad + hi - lo <= MaxSpan
        PROVE  Shows(w, t, now)
    <3>1. w.from <= lo - pad /\ w.to = Lesser(hi + pad, now)
      BY <2>3, <2>5, <2>6, <2>7
    <3>2. w.from \in Int
      BY <2>5 DEF Window
    <3> HIDE DEF w, pad
    <3>3. w.from <= lo /\ hi <= w.to
      BY <1>1, <1>2, <2>7, <3>1, <3>2 DEF Lesser
    <3> QED
      BY <3>3 DEF Shows
  <2> QED
    BY <2>5, <2>7
<1> QED
  BY <1>3, <1>4, <1>5 DEF TimeState

\* The window after the head moved is one, keeps its span or is the default one,
\* and shows what is looked at.
LEMMA HeadMoveFits ==
  ASSUME NEW t \in TimeState, NEW prev \in Int, NEW now \in Int,
         NEW w \in Window, Span(w) \in MinSpan .. MaxSpan
  PROVE  LET lo == RangeOf(t, now)[1]
             hi == RangeOf(t, now)[2]
             v  == OnHeadMove(w, prev, now, t)
         IN  /\ v \in Window /\ Span(v) \in MinSpan .. MaxSpan
             /\ hi <= now /\ 2 * PadFor(lo, hi) + hi - lo <= MaxSpan => Shows(v, t, now)
<1> DEFINE moved == now - prev
           slid  == IF moved > 0 /\ w.to >= prev
                      THEN Win(w.from + moved, w.to + moved) ELSE w
           v     == OnHeadMove(w, prev, now, t)
<1>1. w.from \in Int /\ w.to \in Int /\ moved \in Int
  BY DEF Window
<1>2. slid \in Window /\ Span(slid) \in MinSpan .. MaxSpan
  <2>1. CASE moved > 0 /\ w.to >= prev
    <3>1. slid = Win(w.from + moved, w.to + moved)
      BY <2>1
    <3>2. Span(slid) = Span(w)
      BY <1>1, <3>1 DEF Span, Win
    <3> QED
      BY <1>1, <3>1, <3>2 DEF Window, Win
  <2>2. CASE ~ (moved > 0 /\ w.to >= prev)
    BY <2>2
  <2> QED
    BY <2>1, <2>2
<1>3. v = IF Shows(slid, t, now) THEN slid ELSE DefaultWindow(t, now)
  BY DEF OnHeadMove, EnsureVisible
<1> HIDE DEF slid, v
<1>4. CASE Shows(slid, t, now)
  BY <1>2, <1>3, <1>4 DEF v
<1>5. CASE ~ Shows(slid, t, now)
  BY <1>3, <1>5, DefaultWindowShows DEF v
<1> QED
  BY <1>4, <1>5

-----------------------------------------------------------------------------
(* The sweeps of the server. *)

\* What is known of the server in every state.
ServerInv == history \in Histories /\ landed \in 1 .. Len(history)

Row == [iso : Int, changed : BOOLEAN, complete : BOOLEAN]

\* Sweeps land in the order of their milliseconds, and the first is complete.
LEMMA HistoryFacts ==
  ASSUME ServerInv
  PROVE  /\ landed \in Nat /\ landed >= 1
         /\ \A i \in 1 .. Len(history) : history[i] \in Row
         /\ history[1].complete
         /\ \A i, j \in 1 .. Len(history) :
              i < j => /\ Ms(history[i].iso) < Ms(history[j].iso)
                       /\ history[i].iso < history[j].iso
<1>1. history \in Seq(Row) /\ Len(history) \in Nat
  BY TimelineAssumption DEF ServerInv, Row
<1>2. \A i \in 1 .. Len(history) : history[i] \in Row
  BY <1>1
<1>3. \A i, j \in 1 .. Len(history) : i < j => Ms(history[i].iso) < Ms(history[j].iso)
  BY TimelineAssumption DEF ServerInv
<1>4. ASSUME NEW i \in 1 .. Len(history), NEW j \in 1 .. Len(history), i < j
      PROVE  history[i].iso < history[j].iso
  <2>1. history[i].iso \in Int /\ history[j].iso \in Int
    BY <1>2 DEF Row
  <2> QED
    BY <1>3, <1>4, <2>1, MsOrder
<1>5. history[1].complete
  BY TimelineAssumption DEF ServerInv
<1> QED
  BY <1>1, <1>2, <1>3, <1>4, <1>5 DEF ServerInv

\* The rows are typed and finite, and no two are of one millisecond.
LEMMA RowFacts ==
  ASSUME ServerInv
  PROVE  /\ Rows \subseteq Row
         /\ IsFiniteSet(Rows)
         /\ \A r, q \in Rows : Ms(r.iso) = Ms(q.iso) => r = q
         /\ \A r, q \in Rows : r.iso < q.iso <=> Ms(r.iso) < Ms(q.iso)
<1>1. landed \in Nat /\ 1 .. landed \subseteq 1 .. Len(history)
  BY HistoryFacts DEF ServerInv
<1>2. Rows \subseteq Row
  BY <1>1, HistoryFacts DEF Rows
<1>3. IsFiniteSet(Rows)
  <2> DEFINE f == [i \in 1 .. landed |-> history[i]]
  <2>1. f \in Surjection(1 .. landed, Rows)
    BY DEF Surjection, Rows
  <2>2. IsFiniteSet(1 .. landed)
    BY <1>1, FS_Interval
  <2> QED
    BY <2>1, <2>2, FS_Surjection
<1>4. ASSUME NEW r \in Rows, NEW q \in Rows
      PROVE  /\ Ms(r.iso) = Ms(q.iso) => r = q
             /\ r.iso < q.iso <=> Ms(r.iso) < Ms(q.iso)
  <2>1. PICK i \in 1 .. landed, j \in 1 .. landed : r = history[i] /\ q = history[j]
    BY DEF Rows
  <2>2. /\ i < j => Ms(r.iso) < Ms(q.iso) /\ r.iso < q.iso
        /\ j < i => Ms(q.iso) < Ms(r.iso) /\ q.iso < r.iso
        /\ i = j => r = q
    BY <1>1, <2>1, HistoryFacts
  <2>3. Ms(r.iso) \in Int /\ Ms(q.iso) \in Int /\ r.iso \in Int /\ q.iso \in Int
    BY <1>2, MsBounds DEF Row
  <2>4. i < j \/ j < i \/ i = j
    BY <1>1
  <2> QED
    BY <2>2, <2>3, <2>4
<1> QED
  BY <1>2, <1>3, <1>4

\* A bounded set of naturals that has an element has a largest one.
LEMMA Highest ==
  ASSUME NEW H \in Nat, NEW S \in SUBSET (0 .. H), S # {}
  PROVE  \E m \in S : \A n \in S : n <= m
<1> DEFINE R == OpToRel(<, Nat)
           T == {H - n : n \in S}
<1>1. IsWellFoundedOn(R, Nat)
  BY NatLessThanWellFounded
<1>2. \A x, y \in Nat : <<y, x>> \in R <=> y < x
  BY DEF OpToRel
<1>3. T \subseteq Nat /\ T # {}
  <2>1. \A n \in S : H - n \in Nat
    OBVIOUS
  <2> QED
    BY <2>1
<1> HIDE DEF R
<1>4. PICK t \in T : \A u \in T : ~ (<<u, t>> \in R)
  BY <1>1, <1>3, WFMin
<1>5. PICK m \in S : t = H - m
  OBVIOUS
<1>6. ASSUME NEW n \in S PROVE n <= m
  <2>1. H - n \in T /\ H - n \in Nat /\ t \in Nat
    BY <1>3
  <2>2. ~ (H - n < t)
    BY <1>2, <1>4, <2>1
  <2> QED
    BY <1>5, <2>1, <2>2
<1> QED
  BY <1>6

\* Among some rows there is a last one, and a first one.
LEMMA RowExtremes ==
  ASSUME ServerInv, NEW S \in SUBSET Rows, S # {}
  PROVE  /\ \E r \in S : \A q \in S : q.iso <= r.iso
         /\ \E r \in S : \A q \in S : r.iso <= q.iso
<1> DEFINE I == {i \in 1 .. landed : history[i] \in S}
           J == {landed - i : i \in I}
<1>1. landed \in Nat /\ 1 .. landed \subseteq 1 .. Len(history)
  BY HistoryFacts DEF ServerInv
<1>2. \A r \in S : \E i \in I : r = history[i]
  BY DEF Rows
<1>3. I \subseteq 0 .. landed /\ I # {}
  BY <1>1, <1>2
<1>4. J \subseteq 0 .. landed /\ J # {}
  BY <1>1, <1>3
<1>5. \A i, j \in I : i <= j => history[i].iso <= history[j].iso
  <2> SUFFICES ASSUME NEW i \in I, NEW j \in I, i <= j
               PROVE  history[i].iso <= history[j].iso
    OBVIOUS
  <2>1. history[i].iso \in Int
    BY <1>1, HistoryFacts DEF Row
  <2>2. CASE i = j
    BY <2>1, <2>2
  <2>3. CASE i < j
    BY <1>1, <2>1, <2>3, HistoryFacts DEF Row
  <2> QED
    BY <1>1, <2>2, <2>3
<1>6. PICK i \in I : \A j \in I : j <= i
  BY <1>1, <1>3, Highest
<1>7. PICK d \in J : \A e \in J : e <= d
  BY <1>1, <1>4, Highest
<1>8. PICK k \in I : d = landed - k
  OBVIOUS
<1>9. \A j \in I : k <= j
  <2> SUFFICES ASSUME NEW j \in I PROVE k <= j
    OBVIOUS
  <2>1. landed - j \in J
    OBVIOUS
  <2>2. landed - j <= landed - k
    BY <1>7, <1>8, <2>1
  <2> QED
    BY <1>1, <2>2
<1> HIDE DEF I, J
<1>10. history[i] \in S /\ history[k] \in S
  BY DEF I
<1> QED
  BY <1>2, <1>5, <1>6, <1>9, <1>10

\* The newest of some rows is the stamp of one of them, and no earlier than any.
LEMMA NewestIs ==
  ASSUME ServerInv, NEW S \in SUBSET Rows, S # {}
  PROVE  /\ \E r \in S : Newest(S) = r.iso
         /\ \A q \in S : q.iso <= Newest(S)
         /\ Newest(S) \in Int
<1>1. \E r \in S : \A q \in S : q.iso <= r.iso
  BY RowExtremes
<1> DEFINE m == CHOOSE r \in S : \A q \in S : q.iso <= r.iso
<1>2. m \in S /\ \A q \in S : q.iso <= m.iso
  BY <1>1
<1>3. m.iso \in Int
  BY <1>2, RowFacts DEF Row
<1>4. Newest(S) = m.iso
  BY DEF Newest
<1> QED
  BY <1>2, <1>3, <1>4

\* There is always a complete sweep to show.
LEMMA SomeComplete ==
  ASSUME ServerInv
  PROVE  /\ CompleteAt(None) # {}
         /\ Rows # {}
<1>1. history[1] \in Rows /\ history[1].complete
  BY HistoryFacts DEF Rows
<1> QED
  BY <1>1 DEF CompleteAt, AtOrBefore

\* An answer is about a complete sweep that landed, and knows no later sweep than
\* the server does.
Known(r) ==
  /\ r \in Resolved
  /\ \E q \in Rows : q.complete /\ r.collected = q.iso
  /\ r.latest <= Newest(Rows)

\* What the server answers is known of it.
LEMMA ResolveKnown ==
  ASSUME ServerInv, NEW t \in Int \cup {None}, CompleteAt(t) # {}
  PROVE  Known(Resolve(t))
<1>1. CompleteAt(t) \subseteq AtOrBefore(t) /\ AtOrBefore(t) \subseteq Rows
  BY DEF CompleteAt, AtOrBefore
<1>2. PICK q \in CompleteAt(t) : Newest(CompleteAt(t)) = q.iso
  BY <1>1, NewestIs
<1>3. q \in Rows /\ q.complete /\ q.iso \in Int
  BY <1>1, RowFacts DEF CompleteAt, Row
<1>4. PICK r \in AtOrBefore(t) : Newest(AtOrBefore(t)) = r.iso
  BY <1>1, NewestIs
<1>5. r \in Rows /\ r.iso \in Int /\ r.iso <= Newest(Rows)
  BY <1>1, NewestIs, RowFacts DEF Row
<1> QED
  BY <1>2, <1>3, <1>4, <1>5 DEF Known, Resolve, Resolved

\* A sweep that is named by its stamp answers for it.
LEMMA NamedAnswers ==
  ASSUME ServerInv, NEW q \in Rows, q.complete
  PROVE  Answers(q.iso, q.iso)
<1>1. q.iso \in Int /\ q \in CompleteAt(q.iso)
  BY RowFacts DEF CompleteAt, AtOrBefore, Row
<1>2. CompleteAt(q.iso) \subseteq Rows
  BY DEF CompleteAt, AtOrBefore
<1>3. PICK r \in CompleteAt(q.iso) : Newest(CompleteAt(q.iso)) = r.iso
  BY <1>1, <1>2, NewestIs
<1>4. r.iso <= q.iso /\ r.iso \in Int
  BY <1>1, <1>2, RowFacts, TimeWindowAssumption DEF CompleteAt, AtOrBefore, Row
<1>5. q.iso <= r.iso
  BY <1>1, <1>2, <1>3, NewestIs
<1> QED
  BY <1>1, <1>3, <1>4, <1>5 DEF Answers, Resolve

-----------------------------------------------------------------------------
(* The sweeps the strip works with. *)

\* A sweep of the strip is a row of the server, whole.
LEMMA SweepFacts ==
  ASSUME ServerInv
  PROVE  /\ \A s \in ToSweeps(Rows) :
              /\ s.at \in Int /\ s.iso \in Int /\ s.at = Ms(s.iso)
              /\ \E r \in Rows : /\ r.iso = s.iso
                                 /\ r.complete <=> s.complete
                                 /\ r.changed <=> s.changed
         /\ \A s, q \in ToSweeps(Rows) :
              /\ s.at = q.at => s = q
              /\ s.at < q.at <=> s.iso < q.iso
<1>1. ASSUME NEW s \in ToSweeps(Rows)
      PROVE  \E r \in Rows :
               /\ s = [at |-> Ms(r.iso), iso |-> r.iso,
                       changed |-> r.changed, complete |-> r.complete]
               /\ Ms(r.iso) \in Int /\ r.iso \in Int
  BY RowFacts, MsBounds DEF ToSweeps, Row
<1>2. ASSUME NEW s \in ToSweeps(Rows)
      PROVE  /\ s.at \in Int /\ s.iso \in Int /\ s.at = Ms(s.iso)
             /\ \E r \in Rows : /\ r.iso = s.iso
                                /\ r.complete <=> s.complete
                                /\ r.changed <=> s.changed
  BY <1>1
<1>3. ASSUME NEW s \in ToSweeps(Rows), NEW q \in ToSweeps(Rows)
      PROVE  /\ s.at = q.at => s = q
             /\ s.at < q.at <=> s.iso < q.iso
  <2>1. PICK r \in Rows : s = [at |-> Ms(r.iso), iso |-> r.iso,
                               changed |-> r.changed, complete |-> r.complete]
    BY <1>1
  <2>2. PICK u \in Rows : q = [at |-> Ms(u.iso), iso |-> u.iso,
                               changed |-> u.changed, complete |-> u.complete]
    BY <1>1
  <2> QED
    BY <2>1, <2>2, RowFacts
<1> QED
  BY <1>2, <1>3

\* Among some sweeps the earliest and the latest are what they are called.
LEMMA ExtremeSweeps ==
  ASSUME ServerInv, NEW F \in SUBSET ToSweeps(Rows)
  PROVE  /\ F = {} => Earliest(F) = None /\ Latest(F) = None
         /\ F # {} => /\ Earliest(F) \in F /\ \A q \in F : Earliest(F).at <= q.at
                      /\ Latest(F) \in F /\ \A q \in F : q.at <= Latest(F).at
<1>1. CASE F = {}
  BY <1>1 DEF Earliest, Latest
<1>2. CASE F # {}
  <2> DEFINE S == {r \in Rows : \E s \in F : s.iso = r.iso}
  <2>1. \A s \in F : \E r \in S : r.iso = s.iso
    BY SweepFacts
  <2>2. \A r \in S : \E s \in F : r.iso = s.iso
    OBVIOUS
  <2>3. S \in SUBSET Rows /\ S # {}
    BY <1>2, <2>1
  <2> HIDE DEF S
  <2>4. \A s, q \in F : s.iso <= q.iso => s.at <= q.at
    BY SweepFacts
  <2>5. \E s \in F : \A q \in F : s.at <= q.at
    <3>1. PICK r \in S : \A q \in S : r.iso <= q.iso
      BY <2>3, RowExtremes
    <3>2. PICK s \in F : r.iso = s.iso
      BY <2>2
    <3>3. \A q \in F : s.iso <= q.iso
      BY <2>1, <3>1, <3>2
    <3> QED
      BY <2>4, <3>3
  <2>6. \E s \in F : \A q \in F : q.at <= s.at
    <3>1. PICK r \in S : \A q \in S : q.iso <= r.iso
      BY <2>3, RowExtremes
    <3>2. PICK s \in F : r.iso = s.iso
      BY <2>2
    <3>3. \A q \in F : q.iso <= s.iso
      BY <2>1, <3>1, <3>2
    <3> QED
      BY <2>4, <3>3
  <2>7. Earliest(F) \in F /\ \A q \in F : Earliest(F).at <= q.at
    BY <1>2, <2>5 DEF Earliest
  <2>8. Latest(F) \in F /\ \A q \in F : q.at <= Latest(F).at
    BY <1>2, <2>6 DEF Latest
  <2> QED
    BY <1>2, <2>7, <2>8
<1> QED
  BY <1>1, <1>2

\* A release lands on the head, on a sweep, or on an instant before now.
LEMMA LandingIs ==
  ASSUME ServerInv, NEW T \in SUBSET ToSweeps(Rows), NEW release \in Int, NEW now \in Int
  PROVE  LET land == Landing(T, release, now) IN
         \/ land = AtHead
         \/ \E s \in T : land = [kind |-> "sweep", sweep |-> s]
         \/ land = [kind |-> "instant", at |-> release] /\ release < now
<1> DEFINE near == {s \in T : \A r \in T : Dist(s.at, release) <= Dist(r.at, release)}
           snap == Nearest(T, release)
<1>1. near \in SUBSET ToSweeps(Rows) /\ near \subseteq T
  OBVIOUS
<1>2. snap = Earliest(near)
  BY DEF Nearest
<1> HIDE DEF near, snap
<1>3. snap = None \/ snap \in T
  BY <1>1, <1>2, ExtremeSweeps
<1> QED
  BY <1>3 DEF Landing, snap

\* A release at the head lands on it.
LEMMA HeadLandsOnHead ==
  ASSUME ServerInv, NEW T \in SUBSET ToSweeps(Rows), NEW now \in Int
  PROVE  Landing(T, now, now) = AtHead
<1> DEFINE near == {s \in T : \A r \in T : Dist(s.at, now) <= Dist(r.at, now)}
           snap == Nearest(T, now)
<1>1. near \in SUBSET ToSweeps(Rows) /\ near \subseteq T
  OBVIOUS
<1>2. snap = Earliest(near)
  BY DEF Nearest
<1> HIDE DEF near, snap
<1>3. snap = None \/ snap \in T
  BY <1>1, <1>2, ExtremeSweeps
<1>4. CASE snap = None
  BY <1>4 DEF Landing, snap
<1>5. CASE snap # None /\ snap \in T
  <2>1. snap.at \in Int
    BY <1>5, SweepFacts
  <2>2. Dist(now, now) <= Dist(now, snap.at)
    BY <2>1 DEF Dist
  <2> QED
    BY <1>5, <2>2 DEF Landing, snap
<1> QED
  BY <1>3, <1>4, <1>5

\* The strip has sweeps of the server or none.
LEMMA StripSweeps ==
  ASSUME index = None \/ index.rows \subseteq Rows
  PROVE  /\ Sweeps \subseteq ToSweeps(Rows) /\ Targets \subseteq Sweeps
         /\ \A s \in Targets : s.complete
<1>1. Sweeps \subseteq ToSweeps(Rows)
  BY DEF Sweeps, ToSweeps
<1> QED
  BY <1>1 DEF Targets, Targetable

-----------------------------------------------------------------------------
(* What is set. *)

\* The ends of a comparison are in order, the first no later than the newest
\* sweep and the last no more than a minute past it.
EndsFit(t) ==
  t.mode = "compare" =>
    /\ t.since <= Newest(Rows)
    /\ t.until # None => /\ t.since < t.until
                         /\ Ms(t.until) <= Ms(Newest(Rows)) + Minute

\* An end that is set when a gesture named a sweep, and that is in the sweep's
\* millisecond, is the sweep's stamp.
Exact(end, was, sweeps) ==
  end # was /\ end # None => \A q \in sweeps : Ms(q) = Ms(end) => q = end

\* What a release sets its handle's end to: the stamp of the sweep it lands on,
\* an instant before now, or a minute's distance kept from the other end.
LEMMA StampIs ==
  ASSUME ServerInv, NEW T \in SUBSET ToSweeps(Rows), NEW release \in Int,
         NEW now \in Int, now <= Ms(Newest(Rows)),
         Landing(T, release, now) # AtHead
  PROVE  LET land  == Landing(T, release, now)
             stamp == StampOf(land, now)
             at    == LandedAt(land, now)
         IN  /\ at \in Int /\ stamp \in Int /\ Ms(stamp) = at
             /\ stamp <= Newest(Rows)
             /\ land.kind = "sweep" => land.sweep \in T /\ stamp = land.sweep.iso
<1> DEFINE land  == Landing(T, release, now)
           stamp == StampOf(land, now)
           at    == LandedAt(land, now)
<1>1. Newest(Rows) \in Int /\ \A r \in Rows : r.iso <= Newest(Rows)
  BY SomeComplete, NewestIs
<1>2. CASE \E s \in T : land = [kind |-> "sweep", sweep |-> s]
  <2>1. PICK s \in T : land = [kind |-> "sweep", sweep |-> s]
    BY <1>2
  <2>2. at = s.at /\ stamp = s.iso
    BY <2>1 DEF LandedAt, StampOf
  <2>3. s.at \in Int /\ s.iso \in Int /\ s.at = Ms(s.iso) /\ s.iso <= Newest(Rows)
    BY <1>1, SweepFacts
  <2> QED
    BY <2>1, <2>2, <2>3
<1>3. CASE land = [kind |-> "instant", at |-> release] /\ release < now
  <2>1. at = release /\ stamp = InstantAt(release) /\ land.kind # "sweep"
    BY <1>3 DEF LandedAt, StampOf
  <2>2. stamp \in Int /\ Ms(stamp) = release
    BY <2>1, MsOfInstant
  <2>3. Ms(Newest(Rows)) \in Int
    BY <1>1, MsBounds
  <2>4. Ms(stamp) < Ms(Newest(Rows))
    BY <1>3, <2>2, <2>3
  <2>5. stamp < Newest(Rows)
    BY <1>1, <2>2, <2>4, MsOrder
  <2> QED
    BY <1>1, <2>1, <2>2, <2>5
<1> QED
  BY <1>2, <1>3, LandingIs

\* The clamped ends: a minute off the other end, in order and in bounds.
LEMMA ClampedEnds ==
  ASSUME ServerInv, NEW m \in Int
  PROVE  /\ InstantAt(m - Minute) \in Int /\ Ms(InstantAt(m - Minute)) = m - Minute
         /\ InstantAt(m + Minute) \in Int /\ Ms(InstantAt(m + Minute)) = m + Minute
         /\ m - Minute \in Int /\ m + Minute \in Int /\ m - Minute < m /\ m < m + Minute
         /\ m <= Ms(Newest(Rows)) + Minute => InstantAt(m - Minute) <= Newest(Rows)
<1>1. Minute \in Int /\ Minute > 0
  BY TimeWindowAssumption
<1>2. m - Minute \in Int /\ m + Minute \in Int /\ m - Minute < m /\ m < m + Minute
  BY <1>1
<1>3. Newest(Rows) \in Int /\ Ms(Newest(Rows)) \in Int
  BY SomeComplete, NewestIs, MsBounds
<1>4. m <= Ms(Newest(Rows)) + Minute => m - Minute <= Ms(Newest(Rows))
  BY <1>1, <1>3
<1> QED
  BY <1>2, <1>3, <1>4, MsOfInstant, InstantOrder

\* A released handle sets a state of the client, with its ends in order, and
\* means the sweep it lands on when it sets that sweep's millisecond.
LEMMA MoveHandleSets ==
  ASSUME ServerInv, NEW t \in TimeState, EndsFit(t), NEW grip \in Grips(t),
         NEW T \in SUBSET ToSweeps(Rows), NEW release \in Int,
         NEW now \in Int, now <= Ms(Newest(Rows))
  PROVE  LET next  == MoveHandle(t, grip, release, T, now)
             land  == Landing(T, release, now)
             named == IF land.kind = "sweep" THEN {land.sweep.iso} ELSE {}
         IN  /\ next \in TimeState /\ EndsFit(next)
             /\ Exact(SinceOf(next), SinceOf(t), named)
             /\ Exact(InstantOf(next), InstantOf(t), named)
<1> DEFINE land  == Landing(T, release, now)
           stamp == StampOf(land, now)
           at    == LandedAt(land, now)
           next  == MoveHandle(t, grip, release, T, now)
           named == IF land.kind = "sweep" THEN {land.sweep.iso} ELSE {}
           floor == RangeOf(t, now)[1]
           ceiling == RangeOf(t, now)[2]
           Goal == /\ next \in TimeState /\ EndsFit(next)
                   /\ Exact(SinceOf(next), SinceOf(t), named)
                   /\ Exact(InstantOf(next), InstantOf(t), named)
<1> SUFFICES Goal
  OBVIOUS
<1>1. floor \in Int /\ ceiling \in Int
  BY RangeType
<1>2. land # AtHead =>
        /\ at \in Int /\ stamp \in Int /\ Ms(stamp) = at /\ stamp <= Newest(Rows)
        /\ named # {} => named = {stamp}
  BY StampIs
<1>3. land = AtHead => named = {}
  BY DEF AtHead
<1>4. Newest(Rows) \in Int /\ Ms(Newest(Rows)) \in Int
  BY SomeComplete, NewestIs, MsBounds
<1>5. Live \in TimeState
  BY DEF TimeState
<1> HIDE DEF land, stamp, at, named, floor, ceiling
<1>6. CASE grip = "at"
  <2>1. next = IF land = AtHead THEN Live ELSE Point(stamp)
    BY <1>6 DEF MoveHandle, next, land, stamp
  <2>2. CASE land = AtHead
    BY <1>5, <2>1, <2>2 DEF Exact, EndsFit, SinceOf, InstantOf, Live
  <2>3. CASE land # AtHead
    <3>1. next = [mode |-> "point", at |-> stamp]
      BY <2>1, <2>3 DEF Point
    <3>2. next \in TimeState /\ EndsFit(next)
      BY <1>2, <2>3, <3>1 DEF TimeState, EndsFit
    <3>3. SinceOf(next) = None /\ InstantOf(next) = stamp
      BY <3>1 DEF SinceOf, InstantOf
    <3> QED
      BY <1>2, <2>3, <3>2, <3>3 DEF Exact
  <2> QED
    BY <2>2, <2>3
<1>7. CASE grip # "at"
  <2>1. t.mode = "compare" /\ grip \in {"since", "until"}
    BY <1>7 DEF Grips
  <2>2. t \in [mode : {"compare"}, since : Int, until : Int \cup {None}]
    BY <2>1 DEF TimeState, Live
  <2>3. /\ t.since \in Int /\ t.until \in Int \cup {None} /\ floor = Ms(t.since)
        /\ ceiling = IF t.until = None THEN now ELSE Ms(t.until)
    BY <2>2 DEF RangeOf, floor, ceiling
  <2>4. SinceOf(t) = t.since /\ InstantOf(t) = t.until
    BY <2>2 DEF SinceOf, InstantOf
  <2>5. /\ t.since <= Newest(Rows)
        /\ t.until # None => t.since < t.until /\ Ms(t.until) <= Ms(Newest(Rows)) + Minute
    BY <2>1 DEF EndsFit
  <2>6. CASE grip = "since"
    <3> DEFINE since == IF land # AtHead /\ at < ceiling THEN stamp
                          ELSE InstantAt(ceiling - Minute)
    <3>1. next = [mode |-> "compare", since |-> since, until |-> t.until]
      BY <2>1, <2>6 DEF MoveHandle, Compare, next, land, stamp, at, ceiling
    <3>2. ceiling <= Ms(Newest(Rows)) + Minute
      BY <1>1, <1>4, <2>3, <2>5, TimeWindowAssumption
    <3>3. since \in Int /\ Ms(since) < ceiling /\ since <= Newest(Rows)
      BY <1>1, <1>2, <3>2, ClampedEnds
    <3>4. Exact(since, t.since, named)
      <4>1. CASE land # AtHead /\ at < ceiling
        BY <1>2, <4>1 DEF Exact
      <4>2. CASE land # AtHead /\ ~ (at < ceiling)
        <5>1. Ms(stamp) # Ms(since)
          BY <1>1, <1>2, <3>3, <4>2
        <5> QED
          BY <1>2, <4>2, <5>1 DEF Exact
      <4>3. CASE land = AtHead
        BY <1>3, <4>3 DEF Exact
      <4> QED
        BY <4>1, <4>2, <4>3
    <3> HIDE DEF since
    <3>5. next \in TimeState
      BY <2>3, <3>1, <3>3 DEF TimeState
    <3>6. t.until # None => since < t.until
      BY <2>3, <3>3, MsOrder
    <3>7. EndsFit(next)
      BY <2>5, <3>1, <3>3, <3>6 DEF EndsFit
    <3>8. SinceOf(next) = since /\ InstantOf(next) = t.until
      BY <3>1 DEF SinceOf, InstantOf
    <3> QED
      BY <2>4, <3>4, <3>5, <3>7, <3>8 DEF Exact
  <2>7. CASE grip = "until"
    <3> DEFINE until == IF at > floor THEN stamp ELSE InstantAt(floor + Minute)
    <3>1. CASE land = AtHead
      <4>1. next = [mode |-> "compare", since |-> t.since, until |-> None]
        BY <2>1, <2>7, <3>1 DEF MoveHandle, Compare, next, land
      <4>2. next \in TimeState /\ EndsFit(next)
        BY <2>3, <2>5, <4>1 DEF TimeState, EndsFit
      <4>3. SinceOf(next) = t.since /\ InstantOf(next) = None
        BY <4>1 DEF SinceOf, InstantOf
      <4> QED
        BY <2>4, <4>2, <4>3 DEF Exact
    <3>2. CASE land # AtHead
      <4>1. next = [mode |-> "compare", since |-> t.since, until |-> until]
        BY <2>1, <2>7, <3>2 DEF MoveHandle, Compare, next, land, stamp, at, floor
      <4>2. floor <= Ms(Newest(Rows))
        BY <1>4, <2>3, <2>5, MsOrder
      <4>3. at \in Int /\ stamp \in Int /\ Ms(stamp) = at /\ Ms(stamp) <= Ms(Newest(Rows))
        BY <1>2, <1>4, <3>2, MsOrder
      <4>4. until \in Int /\ floor < Ms(until) /\ Ms(until) <= Ms(Newest(Rows)) + Minute
        <5>1. CASE at > floor
          BY <1>1, <1>4, <4>3, <5>1, TimeWindowAssumption
        <5>2. CASE ~ (at > floor)
          BY <1>1, <1>4, <4>2, <5>2, ClampedEnds, TimeWindowAssumption
        <5> QED
          BY <5>1, <5>2
      <4>5. Exact(until, t.until, named)
        <5>1. CASE at > floor
          BY <1>2, <3>2, <5>1 DEF Exact
        <5>2. CASE ~ (at > floor)
          <6>1. Ms(stamp) # Ms(until)
            <7>1. until = InstantAt(floor + Minute)
              BY <5>2
            <7>2. Ms(until) > floor /\ Ms(until) \in Int
              BY <1>1, <7>1, ClampedEnds
            <7> QED
              BY <1>1, <4>3, <5>2, <7>2
          <6> QED
            BY <1>2, <3>2, <6>1 DEF Exact
        <5> QED
          BY <5>1, <5>2
      <4> HIDE DEF until
      <4>6. until # None /\ t.since < until
        BY <2>3, <4>4, MsOrder, TimeWindowAssumption
      <4>7. next \in TimeState /\ EndsFit(next)
        BY <2>3, <2>5, <4>1, <4>4, <4>6 DEF TimeState, EndsFit
      <4>8. SinceOf(next) = t.since /\ InstantOf(next) = until
        BY <4>1 DEF SinceOf, InstantOf
      <4> QED
        BY <2>4, <4>5, <4>7, <4>8 DEF Exact
    <3> QED
      BY <3>1, <3>2
  <2> QED
    BY <2>1, <2>6, <2>7
<1> QED
  BY <1>6, <1>7

\* A jump goes to a changed sweep, in compare mode from the sweep before it.
LEMMA JumpSets ==
  ASSUME ServerInv, NEW t \in TimeState, NEW dir \in {-1, 1},
         NEW T \in SUBSET ToSweeps(Rows), NEW now \in Int,
         JumpTo(t, dir, T, now) # None
  PROVE  LET next == JumpTo(t, dir, T, now) IN
         \/ /\ t.mode # "compare"
            /\ \E s \in T : next = [mode |-> "point", at |-> s.iso]
         \/ /\ t.mode = "compare"
            /\ \E p, s \in T :
                 /\ s.changed /\ p.at < s.at
                 /\ \A q \in T : q.at < s.at => q.at <= p.at
                 /\ next = [mode |-> "compare", since |-> p.iso, until |-> s.iso]
<1> DEFINE anchor == RangeOf(t, now)[IF dir = 1 THEN 2 ELSE 1]
           found  == IF dir = 1 THEN After(Changed(T), anchor) ELSE Before(Changed(T), anchor)
           target == IF dir = 1 THEN NextChange(T, anchor) ELSE PrevChange(T, anchor)
           next   == JumpTo(t, dir, T, now)
<1>1. found \subseteq T /\ \A s \in found : s.changed
  BY DEF After, Before, Changed
<1>2. target = IF dir = 1 THEN Earliest(found) ELSE Latest(found)
  BY DEF NextChange, PrevChange
<1>3. next = IF target = None THEN None
             ELSE IF t.mode = "compare" THEN PairFor(T, target) ELSE Point(target.iso)
  BY DEF JumpTo
<1> HIDE DEF found, target, anchor
<1>4. found \in SUBSET ToSweeps(Rows)
  BY <1>1
<1>5. found # {}
  BY <1>2, <1>3, <1>4, ExtremeSweeps DEF next
<1>6. target \in found
  BY <1>2, <1>4, <1>5, ExtremeSweeps
<1>7. target \in T /\ target.changed
  BY <1>1, <1>6
<1>8. CASE t.mode # "compare"
  BY <1>3, <1>7, <1>8 DEF Point, next
<1>9. CASE t.mode = "compare"
  <2> DEFINE prior == Before(T, target.at)
  <2>1. next = IF prior = {} THEN None ELSE Compare(Latest(prior).iso, target.iso)
    BY <1>3, <1>9 DEF PairFor, next
  <2>2. prior # {}
    BY <2>1 DEF next
  <2>3. prior \in SUBSET ToSweeps(Rows) /\ prior \subseteq T
    BY DEF Before
  <2>4. Latest(prior) \in prior /\ \A q \in prior : q.at <= Latest(prior).at
    BY <2>2, <2>3, ExtremeSweeps
  <2>5. \A q \in T : q.at < target.at <=> q \in prior
    BY DEF Before
  <2> HIDE DEF prior
  <2>6. Latest(prior) \in T /\ Latest(prior).at < target.at
    BY <2>3, <2>4, <2>5
  <2>7. next = [mode |-> "compare", since |-> Latest(prior).iso, until |-> target.iso]
    BY <2>1, <2>2 DEF Compare
  <2> QED
    BY <1>7, <1>9, <2>4, <2>5, <2>6, <2>7
<1> QED
  BY <1>8, <1>9

\* A jump sets a state of the client, with its ends in order, each the stamp of a
\* sweep of the strip.
LEMMA JumpFits ==
  ASSUME ServerInv, NEW t \in TimeState, NEW dir \in {-1, 1},
         NEW T \in SUBSET ToSweeps(Rows), NEW now \in Int,
         JumpTo(t, dir, T, now) # None
  PROVE  LET next  == JumpTo(t, dir, T, now)
             named == {s.iso : s \in T}
         IN  /\ next \in TimeState /\ EndsFit(next)
             /\ Exact(SinceOf(next), SinceOf(t), named)
             /\ Exact(InstantOf(next), InstantOf(t), named)
<1> DEFINE next  == JumpTo(t, dir, T, now)
           named == {s.iso : s \in T}
<1>1. \A q \in named : \E s \in T : q = s.iso
  OBVIOUS
<1>2. \A s, q \in T : Ms(s.iso) = Ms(q.iso) => s.iso = q.iso
  BY SweepFacts
<1>3. Newest(Rows) \in Int /\ \A r \in Rows : r.iso <= Newest(Rows)
  BY SomeComplete, NewestIs
<1>4. \A s \in T : s.iso \in Int /\ s.at = Ms(s.iso) /\ s.iso <= Newest(Rows)
  BY <1>3, SweepFacts
<1>5. CASE \E s \in T : next = [mode |-> "point", at |-> s.iso]
  <2>1. PICK s \in T : next = [mode |-> "point", at |-> s.iso]
    BY <1>5
  <2> HIDE DEF next, named
  <2>2. next \in TimeState /\ EndsFit(next) /\ SinceOf(next) = None /\ InstantOf(next) = s.iso
    BY <1>4, <2>1 DEF TimeState, EndsFit, SinceOf, InstantOf
  <2> QED
    BY <1>1, <1>2, <2>2 DEF Exact, next, named
<1>6. CASE \E p, s \in T : /\ p.at < s.at
                           /\ next = [mode |-> "compare", since |-> p.iso, until |-> s.iso]
  <2>1. PICK p \in T, s \in T :
          p.at < s.at /\ next = [mode |-> "compare", since |-> p.iso, until |-> s.iso]
    BY <1>6
  <2>2. p.iso < s.iso
    BY <2>1, SweepFacts
  <2>3. Ms(s.iso) <= Ms(Newest(Rows)) + Minute
    <3>1. Ms(s.iso) <= Ms(Newest(Rows)) /\ Ms(s.iso) \in Int /\ Ms(Newest(Rows)) \in Int
      BY <1>3, <1>4, MsOrder, MsBounds
    <3> QED
      BY <3>1, TimeWindowAssumption
  <2> HIDE DEF next, named
  <2>4. next \in TimeState /\ EndsFit(next) /\ SinceOf(next) = p.iso /\ InstantOf(next) = s.iso
    BY <1>4, <2>1, <2>2, <2>3 DEF TimeState, EndsFit, SinceOf, InstantOf
  <2> QED
    BY <1>1, <1>2, <2>4 DEF Exact, next, named
<1> QED
  BY <1>5, <1>6, JumpSets

\* A mode sets a state of the client, with its ends in order; to freeze names the
\* sweep on screen.
LEMMA DefaultFits ==
  ASSUME ServerInv, NEW mode \in {"live", "point", "compare"}, NEW t \in TimeState,
         NEW c \in Int, c <= Newest(Rows)
  PROVE  LET next  == DefaultFor(mode, c)
             named == IF mode = "point" THEN {c} ELSE {}
         IN  /\ next \in TimeState /\ EndsFit(next)
             /\ Exact(SinceOf(next), SinceOf(t), named)
             /\ Exact(InstantOf(next), InstantOf(t), named)
<1>1. CASE mode = "live"
  BY <1>1 DEF DefaultFor, Live, TimeState, EndsFit, Exact, SinceOf, InstantOf
<1>2. CASE mode = "point"
  <2>1. DefaultFor(mode, c) = [mode |-> "point", at |-> c]
    BY <1>2 DEF DefaultFor, Point
  <2> QED
    BY <1>2, <2>1 DEF TimeState, EndsFit, Exact, SinceOf, InstantOf
<1>3. CASE mode = "compare"
  <2> DEFINE since == InstantAt(Ms(c) - Day)
  <2>1. DefaultFor(mode, c) = [mode |-> "compare", since |-> since, until |-> None]
    BY <1>3 DEF DefaultFor, Compare
  <2>2. Newest(Rows) \in Int /\ Ms(c) \in Int /\ Ms(Newest(Rows)) \in Int
    BY SomeComplete, NewestIs, MsBounds
  <2>3. Ms(c) - Day \in Int /\ Ms(c) - Day <= Ms(Newest(Rows))
    BY <2>2, MsOrder, TimeWindowAssumption
  <2>4. since \in Int /\ since <= Newest(Rows)
    BY <2>2, <2>3, MsOfInstant, InstantOrder
  <2> HIDE DEF since
  <2> QED
    BY <1>3, <2>1, <2>4 DEF TimeState, EndsFit, Exact, SinceOf, InstantOf
<1> QED
  BY <1>1, <1>2, <1>3

\* A preset in compare mode sets a state of the client, up to the head.
LEMMA PresetFits ==
  ASSUME ServerInv, NEW t \in TimeState, NEW now \in Int, now <= Ms(Newest(Rows)),
         NEW ms \in Nat
  PROVE  LET next == Compare(InstantAt(now - ms), None)
         IN  /\ next \in TimeState /\ EndsFit(next)
             /\ Exact(SinceOf(next), SinceOf(t), {})
             /\ Exact(InstantOf(next), InstantOf(t), {})
<1> DEFINE since == InstantAt(now - ms)
<1>1. Newest(Rows) \in Int /\ Ms(Newest(Rows)) \in Int
  BY SomeComplete, NewestIs, MsBounds
<1>2. now - ms \in Int /\ now - ms <= Ms(Newest(Rows))
  BY <1>1
<1>3. since \in Int /\ since <= Newest(Rows)
  BY <1>1, <1>2, MsOfInstant, InstantOrder
<1> HIDE DEF since
<1>4. Compare(since, None) = [mode |-> "compare", since |-> since, until |-> None]
  BY DEF Compare
<1>5. Compare(since, None) \in TimeState /\ EndsFit(Compare(since, None))
  BY <1>3, <1>4 DEF TimeState, EndsFit
<1> QED
  BY <1>5 DEF Exact, since

-----------------------------------------------------------------------------
(* What was meant. *)

\* A sweep an end was meant to name is complete, has landed, and the end is its
\* stamp.
MeantIs(sweep, end) ==
  sweep # None => sweep = end /\ \E q \in Rows : q.complete /\ q.iso = sweep

\* That a gesture sets an end exactly is enough for it to be meant.
LEMMA MeansIs ==
  ASSUME NEW end \in Int \cup {None}, NEW was \in Int \cup {None},
         NEW sweep \in Int \cup {None}, NEW named \in SUBSET Int,
         \A s \in named : \E q \in Rows : q.complete /\ q.iso = s,
         MeantIs(sweep, was), Exact(end, was, named)
  PROVE  /\ Means(end, was, sweep, named) \in Int \cup {None}
         /\ MeantIs(Means(end, was, sweep, named), end)
<1>1. CASE end = was
  BY <1>1 DEF Means
<1>2. CASE end # was /\ end # None /\ \E s \in named : Ms(s) = Ms(end)
  <2> DEFINE m == CHOOSE s \in named : Ms(s) = Ms(end)
  <2>1. m \in named /\ Ms(m) = Ms(end)
    BY <1>2
  <2>2. Means(end, was, sweep, named) = m
    BY <1>2 DEF Means
  <2> HIDE DEF m
  <2>3. m = end
    BY <1>2, <2>1 DEF Exact
  <2> QED
    BY <2>1, <2>2, <2>3 DEF MeantIs
<1>3. CASE end # was /\ ~ (end # None /\ \E s \in named : Ms(s) = Ms(end))
  <2>1. Means(end, was, sweep, named) = None
    BY <1>3 DEF Means
  <2> QED
    BY <2>1 DEF MeantIs
<1> QED
  BY <1>1, <1>2, <1>3

-----------------------------------------------------------------------------
(* The inductive invariant. *)

RowsUpTo(n) == {history[i] : i \in 1 .. n}

\* The index holds what its window asked for, of the sweeps there were.
IndexTrue ==
  index # None =>
    index.rows = SnapshotRows(RowsUpTo(index.upTo), Asked(index.of)[1], Asked(index.of)[2])

IInv ==
  /\ TypeOK
  /\ ServerInv
  /\ Known(shown)
  /\ liveMap # None => Known(liveMap)
  /\ head # None => Known(head)
  /\ EndsFit(time)
  /\ MeantIs(meant.since, SinceOf(time))
  /\ MeantIs(meant.last, InstantOf(time))
  /\ IndexTrue

\* The ends of what is looked at are instants, or there are none.
LEMMA EndTypes ==
  ASSUME NEW t \in TimeState
  PROVE  SinceOf(t) \in Int \cup {None} /\ InstantOf(t) \in Int \cup {None}
<1>1. CASE t = Live
  BY <1>1 DEF Live, SinceOf, InstantOf
<1>2. CASE t \in [mode : {"point"}, at : Int]
  BY <1>2 DEF SinceOf, InstantOf
<1>3. CASE t \in [mode : {"compare"}, since : Int, until : Int \cup {None}]
  BY <1>3 DEF SinceOf, InstantOf
<1> QED
  BY <1>1, <1>2, <1>3 DEF TimeState

\* Now is a number whatever has been answered.
LEMMA NowType ==
  ASSUME NEW t, NEW map \in Resolved, NEW kept \in Resolved \cup {None}
  PROVE  NowOf(t, map, kept) \in Int
<1>1. map.latest \in Int /\ (kept # None => kept.latest \in Int)
  BY DEF Resolved
<1> QED
  BY <1>1, MsBounds DEF NowOf

\* Now is not past the newest sweep.
LEMMA NowKnown ==
  ASSUME IInv
  PROVE  Now \in Int /\ Now <= Ms(Newest(Rows))
<1>1. shown \in Resolved /\ shown.latest <= Newest(Rows)
      /\ (head # None => head \in Resolved /\ head.latest <= Newest(Rows))
  BY DEF IInv, Known
<1>2. Newest(Rows) \in Int
  BY SomeComplete, NewestIs DEF IInv
<1>3. shown.latest \in Int /\ (head # None => head.latest \in Int)
  BY <1>1 DEF Resolved
<1>4. Now \in {Ms(shown.latest)} \cup IF head # None THEN {Ms(head.latest)} ELSE {}
  BY DEF Now, NowOf
<1> QED
  BY <1>1, <1>2, <1>3, <1>4, MsOrder, MsBounds

\* Wherever the window goes with what is looked at, it keeps its bounds.
LEMMA FollowFits ==
  ASSUME IInv, NEW w \in Window, Span(w) \in MinSpan .. MaxSpan, NEW touched \in BOOLEAN,
         Follow(w, touched), time' \in TimeState, shown' \in Resolved,
         head' \in Resolved \cup {None}
  PROVE  win' \in Window /\ Span(win') \in MinSpan .. MaxSpan
<1>1. Now \in Int /\ Now' \in Int
  <2>1. Now' = NowOf(time', shown', head')
    BY DEF Now, NowOf, Pinned
  <2> QED
    BY <2>1, NowKnown, NowType
<1>2. OnHeadMove(w, Now, Now', time') \in Window
      /\ Span(OnHeadMove(w, Now, Now', time')) \in MinSpan .. MaxSpan
  BY <1>1, HeadMoveFits
<1> QED
  BY <1>2 DEF Follow

\* While no sweep lands, the rows, what is known and what is meant stand.
LEMMA ServerStands ==
  ASSUME IInv, UNCHANGED server
  PROVE  /\ Rows' = Rows /\ ServerInv' /\ landed' = landed /\ history' = history
         /\ \A n : RowsUpTo(n)' = RowsUpTo(n)
BY DEF IInv, server, Rows, ServerInv, RowsUpTo

\* A sweep that lands is the newest, and the others stay.
LEMMA LandKeeps ==
  ASSUME IInv, LandSweep
  PROVE  IInv'
<1>1. ServerInv /\ TypeOK
  BY DEF IInv
<1>2. /\ landed \in Nat /\ Len(history) \in Nat /\ landed < Len(history)
      /\ landed' = landed + 1 /\ history' = history
      /\ landed + 1 \in 1 .. Len(history)
  <2>1. Len(history) \in Nat
    BY <1>1, TimelineAssumption DEF ServerInv
  <2> QED
    BY <1>1, <2>1, HistoryFacts DEF LandSweep
<1>3. ServerInv'
  BY <1>1, <1>2 DEF ServerInv
<1>4. Rows \subseteq Rows'
  BY <1>2 DEF Rows
<1>5. Newest(Rows) \in Int /\ (\E r \in Rows : Newest(Rows) = r.iso)
  BY <1>1, SomeComplete, NewestIs
<1>6. Newest(Rows)' \in Int /\ Newest(Rows) <= Newest(Rows)'
  <2> DEFINE z == history[landed + 1]
             m == CHOOSE r \in Rows' : \A q \in Rows' : q.iso <= r.iso
  <2>1. z \in Rows' /\ z.iso \in Int
    BY <1>1, <1>2, HistoryFacts DEF Rows, Row
  <2>2. \A q \in Rows' : q.iso \in Int /\ q.iso <= z.iso
    <3> SUFFICES ASSUME NEW q \in Rows' PROVE q.iso \in Int /\ q.iso <= z.iso
      OBVIOUS
    <3>1. PICK i \in 1 .. landed + 1 : q = history[i]
      BY <1>2 DEF Rows
    <3>2. i \in 1 .. Len(history)
      BY <1>2
    <3>3. q.iso \in Int
      BY <1>1, <3>1, <3>2, HistoryFacts DEF Row
    <3>4. CASE i = landed + 1
      BY <2>1, <3>1, <3>4
    <3>5. CASE i # landed + 1
      <4>1. i < landed + 1
        BY <1>2, <3>5
      <4>2. q.iso < z.iso
        BY <1>1, <1>2, <3>1, <3>2, <4>1, HistoryFacts
      <4> QED
        BY <2>1, <3>3, <4>2
    <3> QED
      BY <3>4, <3>5
  <2> HIDE DEF z
  <2>3. m \in Rows' /\ \A q \in Rows' : q.iso <= m.iso
    BY <2>1, <2>2
  <2>4. Newest(Rows)' = m.iso
    BY DEF Newest
  <2> HIDE DEF m
  <2>5. m.iso \in Int /\ m.iso = z.iso
    BY <2>1, <2>2, <2>3
  <2> QED
    BY <1>4, <1>5, <2>2, <2>4, <2>5
<1>7. UNCHANGED <<time, shown, liveMap, head, win, index, open, meant>>
  BY DEF LandSweep
<1>8. \A r : Known(r) => Known(r)'
  <2> SUFFICES ASSUME NEW r, Known(r) PROVE Known(r)'
    OBVIOUS
  <2>1. r.latest \in Int
    BY DEF Known, Resolved
  <2> QED
    BY <1>4, <1>5, <1>6, <2>1 DEF Known
<1>9. \A s, e : MeantIs(s, e) => MeantIs(s, e)'
  BY <1>4 DEF MeantIs
<1>10. EndsFit(time)'
  <2> SUFFICES ASSUME time.mode = "compare"
               PROVE  /\ time.since <= Newest(Rows)'
                      /\ time.until # None =>
                           /\ time.since < time.until
                           /\ Ms(time.until) <= Ms(Newest(Rows)') + Minute
    BY <1>7 DEF EndsFit
  <2>1. time.since \in Int /\ time.until \in Int \cup {None}
    BY <1>1 DEF TypeOK, TimeState, Live
  <2>2. /\ time.since <= Newest(Rows)
        /\ time.until # None => /\ time.since < time.until
                                /\ Ms(time.until) <= Ms(Newest(Rows)) + Minute
    BY DEF IInv, EndsFit
  <2>3. Ms(Newest(Rows)) <= Ms(Newest(Rows)') /\ Ms(Newest(Rows)) \in Int
        /\ Ms(Newest(Rows)') \in Int
    BY <1>5, <1>6, MsOrder, MsBounds
  <2>4. time.until # None => Ms(time.until) \in Int
    BY <2>1, MsBounds
  <2> QED
    BY <1>5, <1>6, <2>1, <2>2, <2>3, <2>4, TimeWindowAssumption
<1>11. TypeOK'
  <2>1. index \in {None} \cup [of : Window, rows : SUBSET Rows', upTo : 1 .. landed']
    <3>1. 1 .. landed \subseteq 1 .. landed'
      BY <1>2
    <3> QED
      BY <1>1, <1>4, <3>1 DEF TypeOK
  <2>2. landed' \in 1 .. Len(history')
    BY <1>2
  <2> QED
    BY <1>1, <1>7, <2>1, <2>2 DEF TypeOK
<1>12. IndexTrue'
  <2>1. index' = index /\ RowsUpTo(index.upTo)' = RowsUpTo(index.upTo)
    BY <1>2, <1>7 DEF RowsUpTo
  <2> QED
    BY <2>1 DEF IInv, IndexTrue
<1> QED
  BY <1>3, <1>7, <1>8, <1>9, <1>10, <1>11, <1>12 DEF IInv, SinceOf, InstantOf

\* What a gesture sets keeps the invariant, if it is in order and exact.
LEMMA SetTimeKeeps ==
  ASSUME IInv, NEW next \in TimeState, EndsFit(next),
         NEW w \in Window, Span(w) \in MinSpan .. MaxSpan, NEW named \in SUBSET Int,
         \A s \in named : \E q \in Rows : q.complete /\ q.iso = s,
         Exact(SinceOf(next), SinceOf(time), named),
         Exact(InstantOf(next), InstantOf(time), named),
         SetTime(next, w, named)
  PROVE  IInv'
<1>1. Rows' = Rows /\ ServerInv' /\ landed' = landed /\ history' = history
      /\ \A n : RowsUpTo(n)' = RowsUpTo(n)
  BY ServerStands DEF SetTime
<1>2. time' = next /\ meant' = Meant(next, named) /\ open' = OpenFor(next)
      /\ UNCHANGED <<liveMap, head, index>>
  BY DEF SetTime
<1>3. shown' = shown \/ (liveMap # None /\ shown' = liveMap)
  BY DEF SetTime
<1>4. Known(shown')
  BY <1>3 DEF IInv
<1>5. TypeOK
  BY DEF IInv
<1>6. win' \in Window /\ Span(win') \in MinSpan .. MaxSpan
  <2>1. Follow(w, next # Live \/ time # Live)
    BY DEF SetTime
  <2>2. shown' \in Resolved /\ head' \in Resolved \cup {None}
    BY <1>2, <1>4, <1>5 DEF Known, TypeOK
  <2> QED
    BY <1>2, <2>1, <2>2, FollowFits
<1>7. /\ meant'.since \in Int \cup {None} /\ meant'.last \in Int \cup {None}
      /\ MeantIs(meant'.since, SinceOf(next)) /\ MeantIs(meant'.last, InstantOf(next))
  <2>1. /\ meant.since \in Int \cup {None} /\ meant.last \in Int \cup {None}
        /\ MeantIs(meant.since, SinceOf(time)) /\ MeantIs(meant.last, InstantOf(time))
        /\ time \in TimeState
    BY DEF IInv, TypeOK
  <2>2. /\ meant'.since = Means(SinceOf(next), SinceOf(time), meant.since, named)
        /\ meant'.last = Means(InstantOf(next), InstantOf(time), meant.last, named)
    BY <1>2 DEF Meant
  <2>3. /\ SinceOf(next) \in Int \cup {None} /\ InstantOf(next) \in Int \cup {None}
        /\ SinceOf(time) \in Int \cup {None} /\ InstantOf(time) \in Int \cup {None}
    BY <2>1, EndTypes
  <2>4. MeantIs(meant'.since, SinceOf(next)) /\ meant'.since \in Int \cup {None}
    <3> DEFINE end == SinceOf(next)
               was == SinceOf(time)
               sweep == meant.since
    <3>1. end \in Int \cup {None} /\ was \in Int \cup {None} /\ sweep \in Int \cup {None}
          /\ MeantIs(sweep, was) /\ Exact(end, was, named)
      BY <2>1, <2>3
    <3> HIDE DEF end, was, sweep
    <3>2. /\ Means(end, was, sweep, named) \in Int \cup {None}
          /\ MeantIs(Means(end, was, sweep, named), end)
      BY <3>1, MeansIs
    <3> QED
      BY <2>2, <3>2 DEF end, was, sweep
  <2>5. MeantIs(meant'.last, InstantOf(next)) /\ meant'.last \in Int \cup {None}
    <3> DEFINE end == InstantOf(next)
               was == InstantOf(time)
               sweep == meant.last
    <3>1. end \in Int \cup {None} /\ was \in Int \cup {None} /\ sweep \in Int \cup {None}
          /\ MeantIs(sweep, was) /\ Exact(end, was, named)
      BY <2>1, <2>3
    <3> HIDE DEF end, was, sweep
    <3>2. /\ Means(end, was, sweep, named) \in Int \cup {None}
          /\ MeantIs(Means(end, was, sweep, named), end)
      BY <3>1, MeansIs
    <3> QED
      BY <2>2, <3>2 DEF end, was, sweep
  <2> QED
    BY <2>4, <2>5
<1>8. open' \in BOOLEAN
  BY <1>2, <1>5 DEF OpenFor, TypeOK
<1>9. TypeOK'
  BY <1>1, <1>2, <1>4, <1>5, <1>6, <1>7, <1>8 DEF TypeOK, Known
<1>10. IndexTrue'
  BY <1>1, <1>2 DEF IInv, IndexTrue
<1>11. Known(shown)' /\ (liveMap # None => Known(liveMap))' /\ (head # None => Known(head))'
  BY <1>1, <1>2, <1>4 DEF IInv, Known
<1>12. EndsFit(time)'
  BY <1>1, <1>2 DEF EndsFit
<1>13. MeantIs(meant.since, SinceOf(time))' /\ MeantIs(meant.last, InstantOf(time))'
  BY <1>1, <1>2, <1>7 DEF MeantIs, SinceOf, InstantOf
<1> QED
  BY <1>1, <1>9, <1>10, <1>11, <1>12, <1>13 DEF IInv

\* A step that sets no time keeps the invariant, if its answers are known.
LEMMA AnswerKeeps ==
  ASSUME IInv, UNCHANGED <<server, time, meant>>,
         Known(shown'), liveMap' # None => Known(liveMap'), head' # None => Known(head'),
         win' \in Window, Span(win') \in MinSpan .. MaxSpan, open' \in BOOLEAN,
         index' \in {None} \cup [of : Window, rows : SUBSET Rows, upTo : 1 .. landed],
         index' # None =>
           index'.rows = SnapshotRows(RowsUpTo(index'.upTo),
                                      Asked(index'.of)[1], Asked(index'.of)[2])
  PROVE  IInv'
<1>1. Rows' = Rows /\ ServerInv' /\ landed' = landed /\ history' = history
      /\ \A n : RowsUpTo(n)' = RowsUpTo(n)
  BY ServerStands
<1>2. time' = time /\ meant' = meant
  OBVIOUS
<1>3. TypeOK'
  BY <1>1, <1>2 DEF IInv, TypeOK, Known, ServerInv
<1>4. IndexTrue'
  BY <1>1 DEF IndexTrue
<1>5. Known(shown)' /\ (liveMap # None => Known(liveMap))' /\ (head # None => Known(head))'
  BY <1>1 DEF Known
<1>6. EndsFit(time)'
  BY <1>1, <1>2 DEF IInv, EndsFit
<1>7. MeantIs(meant.since, SinceOf(time))' /\ MeantIs(meant.last, InstantOf(time))'
  BY <1>1, <1>2 DEF IInv, MeantIs, SinceOf, InstantOf
<1> QED
  BY <1>1, <1>3, <1>4, <1>5, <1>6, <1>7 DEF IInv

\* The same of a step that changes no answer either.
LEMMA ViewKeeps ==
  ASSUME IInv, UNCHANGED <<server, time, meant, shown, liveMap, head, index>>,
         win' \in Window, Span(win') \in MinSpan .. MaxSpan, open' \in BOOLEAN
  PROVE  IInv'
<1>1. /\ Known(shown) /\ (liveMap # None => Known(liveMap)) /\ (head # None => Known(head))
      /\ index \in {None} \cup [of : Window, rows : SUBSET Rows, upTo : 1 .. landed]
      /\ index # None =>
           index.rows = SnapshotRows(RowsUpTo(index.upTo),
                                     Asked(index.of)[1], Asked(index.of)[2])
  BY DEF IInv, TypeOK, IndexTrue
<1>2. /\ Known(shown') /\ (liveMap' # None => Known(liveMap')) /\ (head' # None => Known(head'))
      /\ index' \in {None} \cup [of : Window, rows : SUBSET Rows, upTo : 1 .. landed]
      /\ index' # None =>
           index'.rows = SnapshotRows(RowsUpTo(index'.upTo),
                                      Asked(index'.of)[1], Asked(index'.of)[2])
  BY <1>1
<1> QED
  BY <1>2, AnswerKeeps

\* A map that answers is known, and the window follows it.
LEMMA AnswerMapKeeps ==
  ASSUME IInv, AnswerMap
  PROVE  IInv'
<1>1. time \in TimeState /\ TypeOK /\ ServerInv
  BY DEF IInv, TypeOK
<1>2. CompleteAt(InstantOf(time)) # {} /\ shown' = Resolve(InstantOf(time))
      /\ UNCHANGED <<server, time, head, index, open, meant>> /\ Follow(win, FALSE)
  BY DEF AnswerMap
<1>3. Known(shown')
  BY <1>1, <1>2, EndTypes, ResolveKnown
<1>4. liveMap' = shown' \/ liveMap' = liveMap
  BY DEF AnswerMap
<1>5. (liveMap' # None => Known(liveMap')) /\ (head' # None => Known(head'))
  BY <1>2, <1>3, <1>4 DEF IInv
<1>6. win' \in Window /\ Span(win') \in MinSpan .. MaxSpan
  BY <1>1, <1>2, <1>3, FollowFits DEF TypeOK, Known
<1> QED
  BY <1>1, <1>2, <1>3, <1>5, <1>6, AnswerKeeps DEF IInv, TypeOK, IndexTrue

\* A head that answers is known, and the window follows it.
LEMMA AnswerHeadKeeps ==
  ASSUME IInv, AnswerHead
  PROVE  IInv'
<1>1. time \in TimeState /\ TypeOK /\ ServerInv
  BY DEF IInv, TypeOK
<1>2. head' = Resolve(None) /\ Follow(win, FALSE)
      /\ UNCHANGED <<server, time, shown, liveMap, index, open, meant>>
  BY DEF AnswerHead
<1>3. Known(head')
  BY <1>1, <1>2, SomeComplete, ResolveKnown
<1>4. Known(shown') /\ (liveMap' # None => Known(liveMap'))
  BY <1>2 DEF IInv
<1>5. win' \in Window /\ Span(win') \in MinSpan .. MaxSpan
  BY <1>1, <1>2, <1>3, <1>4, FollowFits DEF TypeOK, Known
<1> QED
  BY <1>1, <1>2, <1>3, <1>4, <1>5, AnswerKeeps DEF IInv, TypeOK, IndexTrue

\* An index that answers holds what was asked for, of the sweeps there are.
LEMMA AnswerIndexKeeps ==
  ASSUME IInv, AnswerIndex
  PROVE  IInv'
<1>1. TypeOK /\ ServerInv
  BY DEF IInv
<1>2. index' = [of |-> win, rows |-> SnapshotRows(Rows, Asked(win)[1], Asked(win)[2]),
                upTo |-> landed]
      /\ UNCHANGED <<server, time, shown, liveMap, head, win, open, meant>>
  BY DEF AnswerIndex
<1>3. Known(shown') /\ (liveMap' # None => Known(liveMap')) /\ (head' # None => Known(head'))
  BY <1>2 DEF IInv
<1>4. SnapshotRows(Rows, Asked(win)[1], Asked(win)[2]) \in SUBSET Rows
  BY DEF SnapshotRows
<1>5. landed \in 1 .. landed
  BY <1>1, HistoryFacts
<1>6. index' \in {None} \cup [of : Window, rows : SUBSET Rows, upTo : 1 .. landed]
  BY <1>1, <1>2, <1>4, <1>5 DEF TypeOK
<1>7. index'.rows = SnapshotRows(RowsUpTo(index'.upTo),
                                 Asked(index'.of)[1], Asked(index'.of)[2])
  <2>1. RowsUpTo(landed) = Rows
    BY DEF RowsUpTo, Rows
  <2> QED
    BY <1>2, <2>1
<1>8. win' \in Window /\ Span(win') \in MinSpan .. MaxSpan /\ open' \in BOOLEAN
  BY <1>1, <1>2 DEF TypeOK
<1> QED
  BY <1>2, <1>3, <1>6, <1>7, <1>8, AnswerKeeps

\* A page loaded from its link shows what the link says.
LEMMA ReloadKeeps ==
  ASSUME IInv, Reload
  PROVE  IInv' /\ time' = time
<1>1. TypeOK /\ ServerInv /\ time \in TimeState
  BY DEF IInv, TypeOK
<1> DEFINE from == ParseTime(ToSearch(time))
<1>2. from = time
  <2>1. CASE time = Live
    BY <2>1 DEF Live, ToSearch, Query, ParseTime
  <2>2. CASE time \in [mode : {"point"}, at : Int]
    <3>1. from = Point(time.at)
      BY <2>2, TimeWindowAssumption DEF ToSearch, Query, ParseTime
    <3> QED
      BY <2>2, <3>1 DEF Point
  <2>3. CASE time \in [mode : {"compare"}, since : Int, until : Int \cup {None}]
    <3>1. from = Compare(time.since, time.until)
      BY <2>3, TimeWindowAssumption DEF ToSearch, Query, ParseTime
    <3> QED
      BY <2>3, <3>1 DEF Compare
  <2> QED
    BY <1>1, <2>1, <2>2, <2>3 DEF TimeState
<1>3. /\ CompleteAt(InstantOf(time)) # {} /\ time' = time
      /\ shown' = Resolve(InstantOf(time))
      /\ liveMap' \in {shown', None} /\ head' = None /\ index' = None
      /\ win' = DefaultWindow(time, Ms(shown'.latest))
      /\ open' \in BOOLEAN /\ UNCHANGED <<server, meant>>
  <2> HIDE DEF from
  <2> USE <1>2
  <2> QED
    BY DEF Reload, from
<1>4. Known(shown')
  BY <1>1, <1>3, EndTypes, ResolveKnown
<1>5. win' \in Window /\ Span(win') \in MinSpan .. MaxSpan
  <2>1. Ms(shown'.latest) \in Int
    BY <1>4, MsBounds DEF Known, Resolved
  <2> QED
    BY <1>1, <1>3, <2>1, DefaultWindowShows
<1>6. (liveMap' # None => Known(liveMap')) /\ (head' # None => Known(head'))
  BY <1>3, <1>4
<1> QED
  BY <1>3, <1>4, <1>5, <1>6, AnswerKeeps

\* A handle that is let go keeps the invariant.
LEMMA CommitKeeps ==
  ASSUME IInv, NEW grip \in Grips(time), NEW release \in Int, Commit(grip, release)
  PROVE  IInv'
<1> DEFINE next  == MoveHandle(time, grip, release, Targets, Now)
           land  == Landing(Targets, release, Now)
           named == IF land.kind = "sweep" THEN {land.sweep.iso} ELSE {}
<1>1. TypeOK /\ ServerInv /\ time \in TimeState /\ EndsFit(time)
  BY DEF IInv, TypeOK
<1>2. Now \in Int /\ Now <= Ms(Newest(Rows))
  BY NowKnown
<1>3. Targets \in SUBSET ToSweeps(Rows) /\ \A s \in Targets : s.complete
  BY <1>1, StripSweeps DEF TypeOK
<1>4. /\ next \in TimeState /\ EndsFit(next)
      /\ Exact(SinceOf(next), SinceOf(time), named)
      /\ Exact(InstantOf(next), InstantOf(time), named)
  BY <1>1, <1>2, <1>3, MoveHandleSets
<1>5. named \in SUBSET Int /\ \A s \in named : \E q \in Rows : q.complete /\ q.iso = s
  <2>1. CASE \E s \in Targets : land = [kind |-> "sweep", sweep |-> s]
    <3>1. PICK s \in Targets : land = [kind |-> "sweep", sweep |-> s]
      BY <2>1
    <3>2. named = {s.iso}
      BY <3>1
    <3> HIDE DEF named
    <3> QED
      BY <1>1, <1>3, <3>2, SweepFacts
  <2>2. CASE ~ \E s \in Targets : land = [kind |-> "sweep", sweep |-> s]
    <3>1. land.kind # "sweep"
      BY <1>1, <1>2, <1>3, <2>2, LandingIs DEF AtHead
    <3> QED
      BY <3>1
  <2> QED
    BY <2>1, <2>2
<1>6. SetTime(next, win, named)
  BY DEF Commit
<1>7. win \in Window /\ Span(win) \in MinSpan .. MaxSpan
  BY <1>1 DEF TypeOK
<1> HIDE DEF next, named
<1> QED
  BY <1>4, <1>5, <1>6, <1>7, SetTimeKeeps

\* An arrow key moves a handle to an instant.
LEMMA KeyStepCommits ==
  ASSUME IInv, NEW grip \in Grips(time), NEW dir \in {-1, 1}, KeyStep(grip, dir)
  PROVE  \E release \in Int : Commit(grip, release)
<1> DEFINE t    == HandleAt(time, grip, Now)
           next == StepTarget(Targets, t, dir)
           step == IF next = None THEN t + dir * Greater(Span(win) \div 50, 1) ELSE next.at
<1>1. TypeOK /\ ServerInv /\ time \in TimeState /\ Now \in Int
  BY NowKnown DEF IInv, TypeOK
<1>2. t \in Int
  BY <1>1, RangeType DEF HandleAt
<1>3. Targets \in SUBSET ToSweeps(Rows)
  BY <1>1, StripSweeps DEF TypeOK
<1>4. next = None \/ next \in Targets
  <2> DEFINE found == IF dir = 1 THEN After(Targets, t) ELSE Before(Targets, t)
  <2>1. found \subseteq Targets
    BY DEF After, Before
  <2>2. next = IF dir = 1 THEN Earliest(found) ELSE Latest(found)
    BY DEF StepTarget
  <2> HIDE DEF found, next
  <2>3. found \in SUBSET ToSweeps(Rows)
    BY <1>3, <2>1
  <2> QED
    BY <1>1, <2>1, <2>2, <2>3, ExtremeSweeps
<1>5. next # None => next.at \in Int
  BY <1>1, <1>3, <1>4, SweepFacts
<1>6. t + dir * Greater(Span(win) \div 50, 1) \in Int
  <2>1. Span(win) \in Int
    BY <1>1, TimeWindowAssumption DEF TypeOK
  <2>2. Greater(Span(win) \div 50, 1) \in Int
    BY <2>1 DEF Greater
  <2> QED
    BY <1>2, <2>2
<1>7. step \in Int
  BY <1>5, <1>6
<1>8. Commit(grip, step)
  BY DEF KeyStep
<1> QED
  BY <1>7, <1>8

\* A jump keeps the invariant.
LEMMA JumpKeeps ==
  ASSUME IInv, NEW dir \in {-1, 1}, Jump(dir)
  PROVE  IInv'
<1> DEFINE next  == JumpTo(time, dir, Targets, Now)
           named == {s.iso : s \in Targets}
<1>1. TypeOK /\ ServerInv /\ time \in TimeState /\ Now \in Int
  BY NowKnown DEF IInv, TypeOK
<1>2. Targets \in SUBSET ToSweeps(Rows) /\ \A s \in Targets : s.complete
  BY <1>1, StripSweeps DEF TypeOK
<1>3. next # None /\ SetTime(next, win, named)
  BY DEF Jump
<1>4. /\ next \in TimeState /\ EndsFit(next)
      /\ Exact(SinceOf(next), SinceOf(time), named)
      /\ Exact(InstantOf(next), InstantOf(time), named)
  BY <1>1, <1>2, <1>3, JumpFits
<1>5. named \in SUBSET Int /\ \A s \in named : \E q \in Rows : q.complete /\ q.iso = s
  BY <1>1, <1>2, SweepFacts
<1>6. win \in Window /\ Span(win) \in MinSpan .. MaxSpan
  BY <1>1 DEF TypeOK
<1> HIDE DEF next, named
<1> QED
  BY <1>3, <1>4, <1>5, <1>6, SetTimeKeeps

\* So does the choice of a mode.
LEMMA PickModeKeeps ==
  ASSUME IInv, NEW mode \in {"live", "point", "compare"}, PickMode(mode)
  PROVE  IInv'
<1> DEFINE c     == shown.collected
           next  == DefaultFor(mode, c)
           named == IF mode = "point" THEN {c} ELSE {}
<1>1. TypeOK /\ ServerInv /\ time \in TimeState /\ Known(shown)
  BY DEF IInv, TypeOK
<1>2. PICK q \in Rows : q.complete /\ c = q.iso
  BY <1>1 DEF Known
<1>3. c \in Int /\ c <= Newest(Rows)
  BY <1>1, <1>2, SomeComplete, NewestIs, RowFacts DEF Row
<1>4. SetTime(next, win, named)
  BY DEF PickMode
<1> HIDE DEF c
<1>5. /\ next \in TimeState /\ EndsFit(next)
      /\ Exact(SinceOf(next), SinceOf(time), named)
      /\ Exact(InstantOf(next), InstantOf(time), named)
  BY <1>1, <1>3, DefaultFits
<1>6. named \in SUBSET Int /\ \A s \in named : \E r \in Rows : r.complete /\ r.iso = s
  BY <1>2, <1>3
<1>7. win \in Window /\ Span(win) \in MinSpan .. MaxSpan
  BY <1>1 DEF TypeOK
<1> HIDE DEF next, named
<1> QED
  BY <1>4, <1>5, <1>6, <1>7, SetTimeKeeps

\* So does a preset, in either of its effects.
LEMMA PresetKeeps ==
  ASSUME IInv, NEW ms \in Presets, Preset(ms)
  PROVE  IInv'
<1> DEFINE w    == ClampWin(Win(Now - ms, Now), Now)
           next == Compare(InstantAt(Now - ms), None)
<1>1. TypeOK /\ ServerInv /\ time \in TimeState
  BY DEF IInv, TypeOK
<1>2. Now \in Int /\ Now <= Ms(Newest(Rows)) /\ ms \in Nat
  BY NowKnown, TimelineAssumption
<1>3. w \in Window /\ Span(w) \in MinSpan .. MaxSpan
  <2>1. Win(Now - ms, Now) \in Window
    BY <1>2 DEF Win, Window
  <2> QED
    BY <1>2, <2>1, ClampWinFits
<1>4. /\ next \in TimeState /\ EndsFit(next)
      /\ Exact(SinceOf(next), SinceOf(time), {})
      /\ Exact(InstantOf(next), InstantOf(time), {})
  BY <1>1, <1>2, PresetFits
<1>5. CASE time.mode = "compare"
  <2>1. SetTime(next, w, {})
    BY <1>5 DEF Preset
  <2> HIDE DEF next, w
  <2> QED
    BY <1>3, <1>4, <2>1, SetTimeKeeps
<1>6. CASE time.mode # "compare"
  <2>1. win' = w /\ UNCHANGED <<server, time, shown, liveMap, head, index, open, meant>>
    BY <1>6 DEF Preset
  <2> HIDE DEF w
  <2> QED
    BY <1>1, <1>3, <2>1, ViewKeeps DEF TypeOK
<1> QED
  BY <1>5, <1>6

\* A pan or a zoom moves the window within its bounds.
LEMMA MoveViewKeeps ==
  ASSUME IInv, NEW w \in Window, MoveView(ClampWin(w, Now))
  PROVE  IInv'
<1> DEFINE v == ClampWin(w, Now)
<1>1. TypeOK /\ Now \in Int
  BY NowKnown DEF IInv
<1>2. v \in Window /\ Span(v) \in MinSpan .. MaxSpan
  BY <1>1, ClampWinFits
<1>3. win' = v /\ UNCHANGED <<server, time, shown, liveMap, head, index, open, meant>>
  BY DEF MoveView
<1> HIDE DEF v
<1> QED
  BY <1>1, <1>2, <1>3, ViewKeeps DEF TypeOK

\* Zooms and pans make windows.
LEMMA MovedWindows ==
  ASSUME NEW w \in Window, Span(w) \in MinSpan .. MaxSpan
  PROVE  /\ \A by \in Pans : PanWin(w, by) \in Window
         /\ \A f \in Zooms, c \in Cursors : ZoomWin(w, f, c) \in Window
<1>1. w.from \in Int /\ w.to \in Int /\ Span(w) \in Int
  BY TimeWindowAssumption DEF Window
<1>2. \A by \in Pans : PanWin(w, by) \in Window
  BY <1>1, TimelineAssumption DEF PanWin, Win, Window
<1>3. ASSUME NEW f \in Zooms, NEW c \in Cursors
      PROVE  ZoomWin(w, f, c) \in Window
  <2>1. f[1] \in Int /\ f[2] \in Nat \ {0} /\ c[1] \in Int /\ c[2] \in Nat \ {0}
    BY TimelineAssumption
  <2> DEFINE wanted == Clamp((Span(w) * f[1]) \div f[2], MinSpan, MaxSpan)
             anchor == w.from + (Span(w) * c[1]) \div c[2]
             from   == anchor - (wanted * c[1]) \div c[2]
  <2>2. (Span(w) * f[1]) \div f[2] \in Int /\ (Span(w) * c[1]) \div c[2] \in Int
    BY <1>1, <2>1
  <2>3. wanted \in Int /\ anchor \in Int
    BY <1>1, <2>2, ClampSpan, TimeWindowAssumption
  <2>4. ZoomWin(w, f, c) = [from |-> from, to |-> from + wanted]
    BY DEF ZoomWin, Win
  <2> HIDE DEF wanted, anchor
  <2>5. (wanted * c[1]) \div c[2] \in Int
    BY <2>1, <2>3
  <2>6. from \in Int
    BY <2>3, <2>5
  <2> HIDE DEF from
  <2> QED
    BY <2>3, <2>4, <2>6 DEF Window
<1> QED
  BY <1>2, <1>3

\* The pointer is over an instant.
LEMMA PointerType ==
  ASSUME IInv, NEW c \in Cursors
  PROVE  PointerAt(c) \in Int
<1>1. win.from \in Int /\ Span(win) \in Int
  BY TimeWindowAssumption DEF IInv, TypeOK, Window
<1>2. c[1] \in Int /\ c[2] \in Nat \ {0}
  BY TimelineAssumption
<1>3. (Span(win) * c[1]) \div c[2] \in Int
  BY <1>1, <1>2
<1> QED
  BY <1>1, <1>3 DEF PointerAt

\* The invariant holds from the start ...
LEMMA InitKeeps ==
  ASSUME Init
  PROVE  IInv
<1>1. history \in Histories /\ landed = Landed[history]
  BY DEF Init
<1>2. ServerInv
  BY <1>1, TimelineAssumption DEF ServerInv
<1>3. time = Live /\ shown = Resolve(None) /\ liveMap = shown /\ head = None /\ index = None
      /\ win = DefaultWindow(Live, Ms(shown.latest)) /\ open = FALSE
      /\ meant = [since |-> None, last |-> None]
  BY DEF Init
<1>4. Known(shown)
  BY <1>2, <1>3, SomeComplete, ResolveKnown
<1>5. Live \in TimeState /\ Ms(shown.latest) \in Int
  BY <1>4, MsBounds DEF TimeState, Known, Resolved
<1>6. win \in Window /\ Span(win) \in MinSpan .. MaxSpan
  BY <1>3, <1>5, DefaultWindowShows
<1>7. TypeOK
  BY <1>2, <1>3, <1>4, <1>5, <1>6 DEF TypeOK, Known, ServerInv
<1>8. EndsFit(time)
  BY <1>3 DEF EndsFit, Live
<1>9. MeantIs(meant.since, SinceOf(time)) /\ MeantIs(meant.last, InstantOf(time))
  BY <1>3 DEF MeantIs
<1>10. IndexTrue
  BY <1>3 DEF IndexTrue
<1> QED
  BY <1>2, <1>3, <1>4, <1>7, <1>8, <1>9, <1>10 DEF IInv

\* ... and every step keeps it.
LEMMA NextKeeps ==
  ASSUME IInv, [Next]_vars
  PROVE  IInv'
<1>1. TypeOK /\ ServerInv
  BY DEF IInv
<1>2. CASE LandSweep
  BY <1>2, LandKeeps
<1>3. CASE AnswerMap
  BY <1>3, AnswerMapKeeps
<1>4. CASE AnswerHead
  BY <1>4, AnswerHeadKeeps
<1>5. CASE Settle
  <2>1. index' = None /\ UNCHANGED <<server, time, shown, liveMap, head, win, open, meant>>
    BY <1>5 DEF Settle
  <2>2. Known(shown') /\ (liveMap' # None => Known(liveMap')) /\ (head' # None => Known(head'))
    BY <2>1 DEF IInv
  <2> QED
    BY <1>1, <2>1, <2>2, AnswerKeeps DEF TypeOK
<1>6. CASE AnswerIndex
  BY <1>6, AnswerIndexKeeps
<1>7. CASE \E cursor \in Cursors : TrackClick(PointerAt(cursor))
  BY <1>7, PointerType, CommitKeeps DEF TrackClick
<1>8. CASE \E grip \in Grips(time), cursor \in Cursors : Release(grip, PointerAt(cursor))
  BY <1>8, PointerType, CommitKeeps DEF Release
<1>9. CASE \E grip \in Grips(time), dir \in {-1, 1} : KeyStep(grip, dir)
  BY <1>9, KeyStepCommits, CommitKeeps
<1>10. CASE \E dir \in {-1, 1} : Jump(dir)
  BY <1>10, JumpKeeps
<1>11. CASE \E mode \in {"live", "point", "compare"} : PickMode(mode)
  BY <1>11, PickModeKeeps
<1>12. CASE \E ms \in Presets : Preset(ms)
  BY <1>12, PresetKeeps
<1>13. CASE \E by \in Pans : Pan(by)
  BY <1>1, <1>13, MovedWindows, MoveViewKeeps DEF Pan, TypeOK
<1>14. CASE \E factor \in Zooms, cursor \in Cursors : Zoom(factor, cursor)
  BY <1>1, <1>14, MovedWindows, MoveViewKeeps DEF Zoom, TypeOK
<1>15. CASE Toggle
  <2>1. open' = ~ open /\ UNCHANGED <<server, time, shown, liveMap, head, win, index, meant>>
    BY <1>15 DEF Toggle
  <2> QED
    BY <1>1, <2>1, ViewKeeps DEF TypeOK
<1>16. CASE Reload
  BY <1>16, ReloadKeeps
<1>17. CASE UNCHANGED vars
  <2>1. UNCHANGED <<server, time, meant, shown, liveMap, head, index, win, open>>
    BY <1>17 DEF vars
  <2> QED
    BY <1>1, <2>1, ViewKeeps DEF TypeOK
<1> QED
  BY <1>2, <1>3, <1>4, <1>5, <1>6, <1>7, <1>8, <1>9, <1>10, <1>11, <1>12, <1>13,
     <1>14, <1>15, <1>16, <1>17 DEF Next

\* So it holds in every state.
LEMMA AlwaysIInv == Spec => []IInv
BY InitKeeps, NextKeeps, PTL DEF Spec

-----------------------------------------------------------------------------
(* The theorems. *)

\* What is looked at is what was set: a sweep that was named answers with itself,
\* to the microsecond, and a comparison keeps its order.
THEOREM WhatWasSet == Spec => []TimeMeansWhatWasSet
<1>1. ASSUME IInv PROVE TimeMeansWhatWasSet
  <2>1. TypeOK /\ ServerInv /\ EndsFit(time)
        /\ MeantIs(meant.since, SinceOf(time)) /\ MeantIs(meant.last, InstantOf(time))
    BY <1>1 DEF IInv
  <2>2. ASSUME meant.since # None PROVE Answers(meant.since, time.since)
    <3>1. meant.since = SinceOf(time) /\ \E q \in Rows : q.complete /\ q.iso = meant.since
      BY <2>1, <2>2 DEF MeantIs
    <3>2. SinceOf(time) = time.since
      BY <2>2, <3>1 DEF SinceOf
    <3> QED
      BY <2>1, <3>1, <3>2, NamedAnswers
  <2>3. ASSUME meant.last # None PROVE Answers(meant.last, InstantOf(time))
    <3>1. meant.last = InstantOf(time) /\ \E q \in Rows : q.complete /\ q.iso = meant.last
      BY <2>1, <2>3 DEF MeantIs
    <3> QED
      BY <2>1, <3>1, NamedAnswers
  <2>4. RangeStaysOrdered
    BY <2>1 DEF EndsFit, RangeStaysOrdered
  <2> QED
    BY <2>1, <2>2, <2>3, <2>4 DEF TimeMeansWhatWasSet, NamedSweepAnswers
<1> QED
  BY <1>1, AlwaysIInv, PTL

\* The handle dropped at the head returns to live, whatever the index holds.
THEOREM HeadIsReachable == Spec => []LiveIsReachable
<1>1. ASSUME IInv PROVE LiveIsReachable
  <2>1. TypeOK /\ ServerInv /\ Now \in Int
    BY <1>1, NowKnown DEF IInv
  <2>2. Targets \in SUBSET ToSweeps(Rows)
    BY <2>1, StripSweeps DEF TypeOK
  <2>3. Landing(Targets, Now, Now) = AtHead
    BY <2>1, <2>2, HeadLandsOnHead
  <2> QED
    BY <2>3 DEF LiveIsReachable, MoveHandle
<1> QED
  BY <1>1, AlwaysIInv, PTL

-----------------------------------------------------------------------------
(* The index holds every row its window asked for, unless it is cut off. *)

\* The rows of a range, when fewer than Limit of them are returned, are all of
\* them: of what is left out the newest has Limit newer ones, all returned.
LEMMA NotCutOff ==
  ASSUME ServerInv, NEW R \in SUBSET Rows, NEW since \in Int, NEW until \in Int,
         Cardinality(SnapshotRows(R, since, until)) < Limit
  PROVE  SnapshotRows(R, since, until) = {r \in R : since <= r.iso /\ r.iso <= until}
<1> DEFINE asked == {r \in R : since <= r.iso /\ r.iso <= until}
           newer(r) == {q \in asked : r.iso < q.iso}
           given == {r \in asked : Cardinality(newer(r)) < Limit}
           left  == asked \ given
<1>1. SnapshotRows(R, since, until) = given
  BY DEF SnapshotRows
<1>2. Rows \subseteq Row /\ IsFiniteSet(Rows) /\ Limit \in Nat
  BY RowFacts, TimelineAssumption
<1>3. asked \in SUBSET Rows /\ given \in SUBSET Rows /\ left \in SUBSET Rows
  OBVIOUS
<1>4. IsFiniteSet(given) /\ Cardinality(given) \in Nat
  BY <1>2, <1>3, FS_Subset, FS_CardinalityType
<1>5. ASSUME left # {} PROVE FALSE
  <2>1. PICK r \in left : \A q \in left : q.iso <= r.iso
    BY <1>3, <1>5, RowExtremes
  <2>2. newer(r) \in SUBSET given
    <3> SUFFICES ASSUME NEW q \in newer(r) PROVE q \in given
      OBVIOUS
    <3>1. q \in asked /\ r.iso < q.iso
      OBVIOUS
    <3>2. q.iso \in Int /\ r.iso \in Int
      BY <1>2, <1>3, <2>1, <3>1 DEF Row
    <3>3. q \notin left
      BY <2>1, <3>1, <3>2
    <3> QED
      BY <3>1, <3>3
  <2>3. IsFiniteSet(newer(r)) /\ Cardinality(newer(r)) <= Cardinality(given)
    BY <1>4, <2>2, FS_Subset
  <2>4. Cardinality(newer(r)) \in Nat
    BY <2>3, FS_CardinalityType
  <2>5. ~ (Cardinality(newer(r)) < Limit)
    BY <2>1
  <2>6. Cardinality(given) < Limit
    BY <1>1
  <2> HIDE DEF newer, given
  <2> QED
    BY <1>2, <1>4, <2>3, <2>4, <2>5, <2>6
<1>6. given = asked
  BY <1>5
<1> QED
  BY <1>1, <1>6

\* What an index that is not cut off holds: every row of its range that had landed.
LEMMA IndexHolds ==
  ASSUME IInv, index # None, ~ Truncated
  PROVE  /\ index.of \in Window /\ index.upTo \in 1 .. landed
         /\ Sweeps = ToSweeps(index.rows) /\ index.rows \subseteq Rows
         /\ index.rows = {r \in RowsUpTo(index.upTo) :
                            Asked(index.of)[1] <= r.iso /\ r.iso <= Asked(index.of)[2]}
<1>1. ServerInv /\ index.of \in Window /\ index.upTo \in 1 .. landed
      /\ index.rows \subseteq Rows
  BY DEF IInv, TypeOK
<1>2. Sweeps = ToSweeps(index.rows)
  BY DEF Sweeps
<1>3. RowsUpTo(index.upTo) \in SUBSET Rows
  BY <1>1, HistoryFacts DEF RowsUpTo, Rows
<1> DEFINE lo == Asked(index.of)[1]
           hi == Asked(index.of)[2]
<1>4. lo \in Int /\ hi \in Int
  <2>1. index.of.from \in Int /\ index.of.to + EdgePad \in Int
    BY <1>1, TimelineAssumption DEF Window
  <2> QED
    BY <2>1, MsOfInstant DEF Asked
<1>5. index.rows = SnapshotRows(RowsUpTo(index.upTo), lo, hi)
  BY DEF IInv, IndexTrue
<1>6. Cardinality(index.rows) < Limit
  <2>1. IsFiniteSet(index.rows)
    BY <1>1, RowFacts, FS_Subset
  <2>2. Cardinality(index.rows) \in Nat /\ Limit \in Nat
    BY <2>1, FS_CardinalityType, TimelineAssumption
  <2>3. ~ (Cardinality(index.rows) >= Limit)
    BY DEF Truncated
  <2> QED
    BY <2>2, <2>3
<1> HIDE DEF lo, hi
<1>7. index.rows = {r \in RowsUpTo(index.upTo) : lo <= r.iso /\ r.iso <= hi}
  BY <1>1, <1>3, <1>4, <1>5, <1>6, NotCutOff
<1> QED
  BY <1>1, <1>2, <1>7 DEF lo, hi

\* The strip draws every sweep the server has in its window, the head included.
THEOREM StripDrawsAll == Spec => []StripIsTheRecord
<1>1. ASSUME IInv PROVE StripIsTheRecord
  <2> SUFFICES ASSUME open, index # None, ~ Truncated, index.of = win,
                      win.to <= Ms(history[index.upTo].iso)
               PROVE  LET there == {s \in ToSweeps(Rows) : s.at \in win.from .. win.to}
                      IN Columns(Sweeps, win, Width, ColumnPx) =
                           {[x |-> x,
                             count |-> Cardinality({s \in there :
                                          ColumnOf(s, win, Width, ColumnPx) = x}),
                             changed |-> \E s \in there :
                               s.changed /\ ColumnOf(s, win, Width, ColumnPx) = x] :
                              x \in {ColumnOf(s, win, Width, ColumnPx) : s \in there}}
    BY DEF StripIsTheRecord
  <2> DEFINE there == {s \in ToSweeps(Rows) : s.at \in win.from .. win.to}
             drawn == {s \in Sweeps : InWindow(s, win)}
             Col(s) == ColumnOf(s, win, Width, ColumnPx)
  <2>1. ServerInv /\ win.from \in Int /\ win.to \in Int
    BY <1>1 DEF IInv, TypeOK, Window
  <2>2. /\ index.upTo \in 1 .. landed
        /\ Sweeps = ToSweeps(index.rows) /\ index.rows \subseteq Rows
        /\ index.rows = {r \in RowsUpTo(index.upTo) :
                           Asked(win)[1] <= r.iso /\ r.iso <= Asked(win)[2]}
    BY <1>1, IndexHolds
  <2>3. ASSUME NEW r \in Rows, Ms(r.iso) \in win.from .. win.to
        PROVE  r \in index.rows
    <3>1. PICK i \in 1 .. landed : r = history[i]
      BY DEF Rows
    <3>2. landed \in Nat /\ landed <= Len(history) /\ Len(history) \in Nat
      BY <2>1, TimelineAssumption DEF ServerInv
    <3>3. r.iso \in Int /\ Ms(r.iso) \in Int
      BY <2>1, RowFacts, MsBounds DEF Row
    <3>4. ~ (index.upTo < i)
      <4> SUFFICES ASSUME index.upTo < i PROVE FALSE
        OBVIOUS
      <4>1. index.upTo \in 1 .. Len(history) /\ i \in 1 .. Len(history)
        BY <2>2, <3>2
      <4>2. Ms(history[index.upTo].iso) < Ms(r.iso)
        BY <2>1, <3>1, <4>1, HistoryFacts
      <4>3. Ms(history[index.upTo].iso) \in Int
        BY <2>1, <4>1, HistoryFacts, MsBounds DEF Row
      <4> QED
        BY <2>1, <2>3, <3>3, <4>2, <4>3
    <3>5. i \in 1 .. index.upTo
      BY <2>2, <3>2, <3>4
    <3>6. r \in RowsUpTo(index.upTo)
      BY <3>1, <3>5 DEF RowsUpTo
    <3>7. InstantAt(win.from) <= r.iso
      BY <2>1, <2>3, <3>3, InstantOrder
    <3>8. r.iso <= InstantAt(win.to + EdgePad)
      <4>1. win.to + EdgePad \in Int /\ Ms(r.iso) < win.to + EdgePad
        BY <2>1, <2>3, <3>3, TimelineAssumption
      <4>2. InstantAt(win.to + EdgePad) \in Int
        BY <4>1, MsOfInstant
      <4> QED
        BY <3>3, <4>1, <4>2, InstantOrder
    <3> QED
      BY <2>2, <3>6, <3>7, <3>8 DEF Asked
  <2>4. drawn = there
    <3>1. \A s \in ToSweeps(Rows) : s.at \in Int
      BY <2>1, SweepFacts
    <3>2. Sweeps \subseteq ToSweeps(Rows)
      BY <2>2 DEF ToSweeps
    <3>3. \A s \in ToSweeps(Rows) : InWindow(s, win) <=> s.at \in win.from .. win.to
      BY <2>1, <3>1 DEF InWindow
    <3>4. \A s \in there : s \in Sweeps
      <4> SUFFICES ASSUME NEW s \in there PROVE s \in Sweeps
        OBVIOUS
      <4>1. PICK r \in Rows : s = [at |-> Ms(r.iso), iso |-> r.iso,
                                   changed |-> r.changed, complete |-> r.complete]
        BY DEF ToSweeps
      <4>2. Ms(r.iso) \in win.from .. win.to
        BY <4>1
      <4>3. r \in index.rows
        BY <2>3, <4>2
      <4> QED
        BY <2>2, <4>1, <4>3 DEF ToSweeps
    <3> QED
      BY <3>2, <3>3, <3>4
  <2> DEFINE In(x) == {s \in there : Col(s) = x}
  <2>5. Columns(Sweeps, win, Width, ColumnPx) =
          {[x |-> x, count |-> Cardinality(In(x)), changed |-> \E s \in In(x) : s.changed] :
             x \in {Col(s) : s \in there}}
    BY <2>4 DEF Columns
  <2>6. \A x : (\E s \in In(x) : s.changed) = (\E s \in there : s.changed /\ Col(s) = x)
    OBVIOUS
  <2> HIDE DEF there
  <2> QED
    BY <2>5, <2>6 DEF there
<1> QED
  BY <1>1, AlwaysIInv, PTL

\* A jump in compare mode shows one event.
THEOREM JumpShowsOne == Spec => []JumpShowsOneEvent
<1>1. ASSUME IInv PROVE JumpShowsOneEvent
  <2> DEFINE next(dir) == JumpTo(time, dir, Targets, Now)
             event(n) == {r \in Rows : /\ r.complete /\ r.changed
                                       /\ n.since < r.iso /\ r.iso <= n.until}
  <2> SUFFICES ASSUME time.mode = "compare", NEW dir \in {-1, 1}, next(dir) # None
               PROVE  Cardinality(event(next(dir))) = 1
    BY DEF JumpShowsOneEvent
  <2>1. ServerInv /\ TypeOK /\ time \in TimeState /\ Now \in Int
    BY <1>1, NowKnown DEF IInv, TypeOK
  <2>2. Targets \in SUBSET ToSweeps(Rows) /\ Targets \subseteq Sweeps
        /\ \A s \in Targets : s.complete
    BY <2>1, StripSweeps DEF TypeOK
  <2>3. PICK p \in Targets, s \in Targets :
          /\ s.changed /\ p.at < s.at
          /\ \A q \in Targets : q.at < s.at => q.at <= p.at
          /\ next(dir) = [mode |-> "compare", since |-> p.iso, until |-> s.iso]
    BY <2>1, <2>2, JumpSets
  <2>4. index # None /\ ~ Truncated
    BY <2>2, <2>3 DEF Sweeps
  <2>5. /\ index.upTo \in 1 .. landed /\ index.of \in Window
        /\ Sweeps = ToSweeps(index.rows) /\ index.rows \subseteq Rows
        /\ index.rows = {r \in RowsUpTo(index.upTo) :
                           Asked(index.of)[1] <= r.iso /\ r.iso <= Asked(index.of)[2]}
    BY <1>1, <2>4, IndexHolds
  <2>6. PICK a \in index.rows : p = [at |-> Ms(a.iso), iso |-> a.iso,
                                     changed |-> a.changed, complete |-> a.complete]
    BY <2>2, <2>3, <2>5 DEF ToSweeps
  <2>7. PICK b \in index.rows : s = [at |-> Ms(b.iso), iso |-> b.iso,
                                     changed |-> b.changed, complete |-> b.complete]
    BY <2>2, <2>3, <2>5 DEF ToSweeps
  <2>8. a.iso \in Int /\ b.iso \in Int /\ a.iso < b.iso /\ b.complete /\ b.changed
    BY <2>1, <2>2, <2>3, <2>5, <2>6, <2>7, RowFacts DEF Row
  <2>9. ASSUME NEW r \in Rows, r.complete, r.changed, a.iso < r.iso, r.iso <= b.iso
        PROVE  r = b
    <3>1. r.iso \in Int
      BY <2>1, RowFacts DEF Row
    <3>2. PICK i \in 1 .. landed, j \in 1 .. index.upTo : r = history[i] /\ b = history[j]
      BY <2>5 DEF Rows, RowsUpTo
    <3>3. landed \in Nat /\ landed <= Len(history) /\ Len(history) \in Nat
      BY <2>1, TimelineAssumption DEF ServerInv
    <3>4. i \in 1 .. Len(history) /\ j \in 1 .. Len(history) /\ index.upTo \in Nat
      BY <2>5, <3>3
    <3>5. ~ (j < i)
      <4>1. j < i => b.iso < r.iso
        BY <2>1, <3>2, <3>4, HistoryFacts
      <4> QED
        BY <2>8, <2>9, <3>1, <4>1
    <3>6. i \in 1 .. index.upTo
      BY <3>4, <3>5
    <3>7. r \in index.rows
      <4>1. Asked(index.of)[1] <= a.iso /\ b.iso <= Asked(index.of)[2]
        BY <2>5, <2>6, <2>7
      <4>2. Asked(index.of)[1] \in Int /\ Asked(index.of)[2] \in Int
        <5>1. index.of.from \in Int /\ index.of.to + EdgePad \in Int
          BY <2>5, TimelineAssumption DEF Window
        <5> QED
          BY <5>1, MsOfInstant DEF Asked
      <4>3. Asked(index.of)[1] <= r.iso /\ r.iso <= Asked(index.of)[2]
        BY <2>8, <2>9, <3>1, <4>1, <4>2
      <4>4. r \in RowsUpTo(index.upTo)
        BY <3>2, <3>6 DEF RowsUpTo
      <4> QED
        BY <2>5, <4>3, <4>4
    <3> DEFINE q == [at |-> Ms(r.iso), iso |-> r.iso,
                     changed |-> r.changed, complete |-> r.complete]
    <3>8. q \in Targets
      BY <2>4, <2>5, <2>9, <3>7 DEF Targets, Targetable, ToSweeps
    <3>9. Ms(a.iso) < Ms(r.iso) /\ Ms(a.iso) \in Int /\ Ms(r.iso) \in Int
      BY <2>1, <2>5, <2>8, <2>9, <3>1, RowFacts, MsBounds
    <3>10. ~ (Ms(r.iso) < Ms(b.iso))
      BY <2>3, <2>6, <2>7, <3>8, <3>9
    <3>11. Ms(r.iso) <= Ms(b.iso) /\ Ms(b.iso) \in Int
      BY <2>8, <2>9, <3>1, MsOrder, MsBounds
    <3>12. Ms(r.iso) = Ms(b.iso)
      BY <3>9, <3>10, <3>11
    <3> QED
      BY <2>1, <2>5, <3>12, RowFacts
  <2>10. b \in Rows /\ next(dir).since = a.iso /\ next(dir).until = b.iso
    BY <2>3, <2>5, <2>6, <2>7
  <2> HIDE DEF next
  <2>11. event(next(dir)) = {b}
    BY <2>8, <2>9, <2>10
  <2> QED
    BY <2>11, FS_Singleton
<1> QED
  BY <1>1, AlwaysIInv, PTL

-----------------------------------------------------------------------------
(* The window. *)

\* A step loads the page, leaves what is looked at and the head alone, has an
\* answer followed, or sets the time and has that followed.
LEMMA StepKinds ==
  ASSUME IInv, [Next]_vars
  PROVE  \/ Reload /\ time' = time
         \/ UNCHANGED <<time, shown, head>>
         \/ UNCHANGED time /\ Follow(win, FALSE)
         \/ \E w \in Window : /\ Span(w) \in MinSpan .. MaxSpan
                              /\ \E next, named : SetTime(next, w, named)
<1>1. win \in Window /\ Span(win) \in MinSpan .. MaxSpan /\ Now \in Int
  BY NowKnown DEF IInv, TypeOK
<1> DEFINE Sets == \E w \in Window : /\ Span(w) \in MinSpan .. MaxSpan
                                     /\ \E next, named : SetTime(next, w, named)
<1>2. (\E next, named : SetTime(next, win, named)) => Sets
  BY <1>1
<1>3. ASSUME NEW grip, NEW release, Commit(grip, release) PROVE Sets
  BY <1>2, <1>3 DEF Commit
<1>4. CASE Reload
  BY <1>4, ReloadKeeps
<1>5. CASE LandSweep \/ Settle \/ AnswerIndex \/ Toggle \/ UNCHANGED vars
  BY <1>5 DEF LandSweep, Settle, AnswerIndex, Toggle, vars
<1>6. CASE AnswerMap \/ AnswerHead
  BY <1>6 DEF AnswerMap, AnswerHead
<1>7. CASE \E cursor \in Cursors : TrackClick(PointerAt(cursor))
  BY <1>3, <1>7 DEF TrackClick
<1>8. CASE \E grip \in Grips(time), cursor \in Cursors : Release(grip, PointerAt(cursor))
  BY <1>3, <1>8 DEF Release
<1>9. CASE \E grip \in Grips(time), dir \in {-1, 1} : KeyStep(grip, dir)
  BY <1>3, <1>9 DEF KeyStep
<1>10. CASE \E dir \in {-1, 1} : Jump(dir)
  BY <1>2, <1>10 DEF Jump
<1>11. CASE \E mode \in {"live", "point", "compare"} : PickMode(mode)
  BY <1>2, <1>11 DEF PickMode
<1>12. CASE \E ms \in Presets : Preset(ms)
  <2>1. PICK ms \in Presets : Preset(ms)
    BY <1>12
  <2> DEFINE w == ClampWin(Win(Now - ms, Now), Now)
  <2>2. w \in Window /\ Span(w) \in MinSpan .. MaxSpan
    <3>1. Win(Now - ms, Now) \in Window
      BY <1>1, TimelineAssumption DEF Win, Window
    <3> QED
      BY <1>1, <3>1, ClampWinFits
  <2>3. CASE time.mode = "compare"
    <3>1. SetTime(Compare(InstantAt(Now - ms), None), w, {})
      BY <2>1, <2>3 DEF Preset
    <3> QED
      BY <2>2, <3>1
  <2>4. CASE time.mode # "compare"
    BY <2>1, <2>4 DEF Preset
  <2> QED
    BY <2>3, <2>4
<1>13. CASE \E by \in Pans : Pan(by)
  BY <1>13 DEF Pan, MoveView
<1>14. CASE \E factor \in Zooms, cursor \in Cursors : Zoom(factor, cursor)
  BY <1>14 DEF Zoom, MoveView
<1> QED
  BY <1>4, <1>5, <1>6, <1>7, <1>8, <1>9, <1>10, <1>11, <1>12, <1>13, <1>14, Zenon DEF Next

\* When the head moves on, a window parked there moves with it, and any other
\* that shows what is looked at stays.
LEMMA HeadMoves ==
  ASSUME NEW t \in TimeState, NEW prev \in Int, NEW now \in Int, prev < now,
         NEW w \in Window, Span(w) \in MinSpan .. MaxSpan
  PROVE  /\ t = Live /\ w.to = prev => OnHeadMove(w, prev, now, t) = Win(now - Span(w), now)
         /\ w.to < prev /\ Shows(w, t, now) => OnHeadMove(w, prev, now, t) = w
<1>1. w.from \in Int /\ w.to \in Int /\ Span(w) = w.to - w.from /\ Span(w) > 0
  BY TimeWindowAssumption DEF Window, Span
<1>2. ASSUME t = Live, w.to = prev
      PROVE  OnHeadMove(w, prev, now, t) = Win(now - Span(w), now)
  <2> DEFINE slid == Win(w.from + (now - prev), w.to + (now - prev))
  <2>1. slid = Win(now - Span(w), now)
    BY <1>1, <1>2 DEF Win
  <2>2. RangeOf(t, now)[1] = now /\ RangeOf(t, now)[2] = now
    BY <1>2 DEF RangeOf, Live
  <2>3. Shows(slid, t, now)
    BY <1>1, <2>1, <2>2 DEF Shows, Win
  <2>4. now - prev > 0 /\ w.to >= prev
    BY <1>1, <1>2
  <2>5. OnHeadMove(w, prev, now, t) = EnsureVisible(slid, t, now)
    BY <2>4 DEF OnHeadMove
  <2> HIDE DEF slid
  <2> QED
    BY <2>1, <2>3, <2>5 DEF EnsureVisible
<1>3. ASSUME w.to < prev, Shows(w, t, now)
      PROVE  OnHeadMove(w, prev, now, t) = w
  BY <1>1, <1>3 DEF OnHeadMove, EnsureVisible
<1> QED
  BY <1>2, <1>3

\* The window follows what is looked at and nothing else.
THEOREM ViewIsSteady == Spec => ViewFollows
<1>1. ASSUME IInv, [Next]_vars
      PROVE  ZoomSurvivesPolls /\ ViewStaysPut /\ ArtifactComesIntoView
  <2>1. IInv'
    BY <1>1, NextKeeps
  <2>2. time \in TimeState /\ win \in Window /\ Span(win) \in MinSpan .. MaxSpan /\ Now \in Int
    BY <1>1, NowKnown DEF IInv, TypeOK
  <2>3. time' \in TimeState /\ Now' \in Int
    <3>1. time' \in TimeState /\ shown' \in Resolved /\ head' \in Resolved \cup {None}
      BY <2>1 DEF IInv, TypeOK
    <3>2. Now' = NowOf(time', shown', head')
      BY DEF Now, NowOf, Pinned
    <3> QED
      BY <3>1, <3>2, NowType
  <2>4. UNCHANGED <<time, shown, head>> => Now' = Now
    BY DEF Now, NowOf, Pinned
  <2>5. CASE Reload /\ time' = time
    BY <2>5 DEF ZoomSurvivesPolls, ViewStaysPut, ArtifactComesIntoView
  <2>6. CASE UNCHANGED <<time, shown, head>>
    BY <2>2, <2>4, <2>6 DEF ZoomSurvivesPolls, ViewStaysPut, ArtifactComesIntoView
  <2>7. CASE UNCHANGED time /\ Follow(win, FALSE)
    <3>1. Now' # Now => win' = OnHeadMove(win, Now, Now', time)
      BY <2>7 DEF Follow
    <3>2. ASSUME Now' > Now PROVE Now < Now' /\ win' = OnHeadMove(win, Now, Now', time)
      BY <2>2, <2>3, <3>1, <3>2
    <3>3. ZoomSurvivesPolls
      BY <2>2, <2>3, <3>2, HeadMoves DEF ZoomSurvivesPolls
    <3>4. ViewStaysPut
      BY <2>2, <2>3, <3>2, HeadMoves DEF ViewStaysPut
    <3>5. ArtifactComesIntoView
      BY <2>7 DEF ArtifactComesIntoView
    <3> QED
      BY <3>3, <3>4, <3>5
  <2>8. CASE \E w \in Window : /\ Span(w) \in MinSpan .. MaxSpan
                               /\ \E next, named : SetTime(next, w, named)
    <3>1. PICK w \in Window : /\ Span(w) \in MinSpan .. MaxSpan
                              /\ \E next, named : SetTime(next, w, named)
      BY <2>8
    <3>2. PICK next, named : SetTime(next, w, named)
      BY <3>1
    <3>3. time' = next /\ UNCHANGED head /\ Follow(w, next # Live \/ time # Live)
          /\ shown' \in {shown} \cup (IF next = Live /\ time # Live /\ liveMap # None
                                        THEN {liveMap} ELSE {})
      BY <3>2 DEF SetTime
    <3>4. CASE time' = time
      <4>1. shown' = shown
        BY <3>3, <3>4
      <4>2. Now' = Now
        BY <2>4, <3>3, <3>4, <4>1
      <4> QED
        BY <2>2, <3>4, <4>2 DEF ZoomSurvivesPolls, ViewStaysPut, ArtifactComesIntoView
    <3>5. CASE time' # time
      <4>1. next # Live \/ time # Live
        BY <3>3, <3>5
      <4>2. win' = OnHeadMove(w, Now, Now', time')
        BY <3>3, <4>1 DEF Follow
      <4>3. ArtifactComesIntoView
        BY <2>2, <2>3, <3>1, <4>2, HeadMoveFits DEF ArtifactComesIntoView
      <4>4. ZoomSurvivesPolls /\ ViewStaysPut
        BY <3>5 DEF ZoomSurvivesPolls, ViewStaysPut
      <4> QED
        BY <4>3, <4>4
    <3> QED
      BY <3>4, <3>5
  <2> QED
    BY <1>1, <2>5, <2>6, <2>7, <2>8, StepKinds
<1> QED
  BY <1>1, AlwaysIInv, PTL DEF ViewFollows, Spec

=============================================================================
