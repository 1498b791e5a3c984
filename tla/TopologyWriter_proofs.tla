------------------------- MODULE TopologyWriter_proofs -------------------------
(***************************************************************************)
(* Theorems about the topology writer, for every set of nodes, ports and   *)
(* sweeps.  That rows are typed, that quiet means unchanged and that the   *)
(* past stands holds of any clock; that the tables follow the sweeps, that *)
(* the feed tells their history and that they implement the record, of     *)
(* one that does not step back.                                            *)
(***************************************************************************)
EXTENDS TopologyWriter, TLAPS

-----------------------------------------------------------------------------
(* What a diff does to an interval table, for every table, observation and *)
(* timestamp.                                                              *)

\* Every row of a diffed table was there before, is an open row closed at ts,
\* or opens at ts with an observed value (writer.py, _close and _open_*).
LEMMA DiffedRow ==
  ASSUME NEW T, NEW want, NEW ts, NEW r \in Diffed(T, want, ts)
  PROVE  \/ r \in T /\ r \notin Stale(T, want)
         \/ \E q \in T : q.to = Open /\ q \in Stale(T, want) /\ r = [q EXCEPT !.to = ts]
         \/ \E k \in Missing(T, want) :
              r = [key |-> k, val |-> want[k], from |-> ts, to |-> Open]
  BY DEF Diffed, OpenRows, Closed, CloseRows, Stale, Current

\* A diff of a typed table with typed values is a typed table.
LEMMA DiffedType ==
  ASSUME NEW Key, NEW Val, NEW Time, NEW T, T \subseteq Rows(Key, Val, Time),
         NEW want, \A k \in DOMAIN want : k \in Key /\ want[k] \in Val,
         NEW ts \in Time
  PROVE  Diffed(T, want, ts) \subseteq Rows(Key, Val, Time)
<1> SUFFICES ASSUME NEW r \in Diffed(T, want, ts)
             PROVE  r \in Rows(Key, Val, Time)
  OBVIOUS
<1>1. CASE r \in T
  BY <1>1
<1>2. CASE \E q \in T : r = [q EXCEPT !.to = ts]
  BY <1>2 DEF Rows
<1>3. CASE \E k \in Missing(T, want) :
             r = [key |-> k, val |-> want[k], from |-> ts, to |-> Open]
  BY <1>3 DEF Rows, Missing
<1> QED
  BY <1>1, <1>2, <1>3, DiffedRow

\* A diff at ts changes nothing a reader of an instant before ts can see.
LEMMA DiffedPast ==
  ASSUME NEW Key, NEW Val, NEW T, T \subseteq Rows(Key, Val, Nat),
         NEW want, NEW ts \in Nat, NEW t \in Nat, t < ts
  PROVE  AsOf(Diffed(T, want, ts), t) = AsOf(T, t)
<1>1. ASSUME NEW r \in Diffed(T, want, ts), Covers(r, t)
      PROVE  \E q \in T : Covers(q, t) /\ q.key = r.key /\ q.val = r.val
  <2>1. CASE r \in T
    BY <1>1, <2>1
  <2>2. CASE \E q \in T : q.to = Open /\ r = [q EXCEPT !.to = ts]
    BY <1>1, <2>2 DEF Rows, Covers, Open
  <2>3. CASE \E k \in Missing(T, want) :
               r = [key |-> k, val |-> want[k], from |-> ts, to |-> Open]
    BY <1>1, <2>3 DEF Covers
  <2> QED
    BY <2>1, <2>2, <2>3, DiffedRow
<1>2. ASSUME NEW q \in T, Covers(q, t)
      PROVE  \E r \in Diffed(T, want, ts) :
               Covers(r, t) /\ r.key = q.key /\ r.val = q.val
  <2>1. CASE q \in Stale(T, want)
    <3> DEFINE r == [q EXCEPT !.to = ts]
    <3>1. r \in Diffed(T, want, ts)
      BY <2>1 DEF Diffed, OpenRows, Closed, CloseRows
    <3>2. Covers(r, t) /\ r.key = q.key /\ r.val = q.val
      BY <1>2, <2>1 DEF Rows, Covers, Open
    <3> QED
      BY <3>1, <3>2
  <2>2. CASE q \notin Stale(T, want)
    BY <1>2, <2>2 DEF Diffed, OpenRows, Closed, CloseRows
  <2> QED
    BY <2>1, <2>2
<1> QED
  BY <1>1, <1>2 DEF AsOf

\* A diff at ts adds no edge but ts.
LEMMA DiffedEdges ==
  ASSUME NEW Key, NEW Val, NEW Time, NEW T, T \subseteq Rows(Key, Val, Time),
         NEW want, NEW ts \in Time
  PROVE  Edges(Diffed(T, want, ts)) \subseteq Edges(T) \cup {ts}
<1> SUFFICES ASSUME NEW r \in Diffed(T, want, ts)
             PROVE  /\ r.from \in Edges(T) \cup {ts}
                    /\ r.to # Open => r.to \in Edges(T) \cup {ts}
  BY DEF Edges
<1>1. CASE r \in T
  BY <1>1 DEF Edges
<1>2. CASE \E q \in T : r = [q EXCEPT !.to = ts]
  BY <1>2 DEF Edges, Rows
<1>3. CASE \E k \in Missing(T, want) :
             r = [key |-> k, val |-> want[k], from |-> ts, to |-> Open]
  BY <1>3
<1> QED
  BY <1>1, <1>2, <1>3, DiffedRow

\* A table says the same of two instants with no edge after the first and up
\* to the second.
LEMMA NoEdgeNoChange ==
  ASSUME NEW Key, NEW Val, NEW T, T \subseteq Rows(Key, Val, Nat),
         NEW a \in Nat, NEW b \in Nat, a <= b,
         \A e \in Edges(T) : ~ (a < e /\ e <= b)
  PROVE  AsOf(T, a) = AsOf(T, b)
<1>1. ASSUME NEW r \in T
      PROVE  Covers(r, a) <=> Covers(r, b)
  <2>1. r.from \in Edges(T) /\ r.from \in Nat
    BY DEF Edges, Rows
  <2>2. CASE r.to = Open
    BY <2>1, <2>2 DEF Covers
  <2>3. CASE r.to # Open
    <3>1. r.to \in Edges(T) /\ r.to \in Nat
      BY <2>3 DEF Edges, Rows
    <3> QED
      BY <2>1, <2>3, <3>1 DEF Covers
  <2> QED
    BY <2>2, <2>3
<1> QED
  BY <1>1 DEF AsOf
-----------------------------------------------------------------------------
(* Tables whose clock moves forward: no date in them lies after `now', and *)
(* a diff comes later.                                                     *)

Dated(T, now) == \A r \in T : r.from <= now /\ (r.to = Open \/ r.to <= now)

\* A diff made later dates nothing after itself.
LEMMA DiffedDated ==
  ASSUME NEW Key, NEW Val, NEW T, T \subseteq Rows(Key, Val, Nat), NEW want,
         NEW now \in Nat, NEW ts \in Nat, now < ts, Dated(T, now)
  PROVE  Dated(Diffed(T, want, ts), ts)
<1> SUFFICES ASSUME NEW r \in Diffed(T, want, ts)
             PROVE  r.from <= ts /\ (r.to = Open \/ r.to <= ts)
  BY DEF Dated
<1>1. CASE r \in T
  <2>1. r.from \in Nat /\ (r.to \in Nat \/ r.to = Open)
    BY <1>1 DEF Rows
  <2> QED
    BY <1>1, <2>1 DEF Dated
<1>2. CASE \E q \in T : r = [q EXCEPT !.to = ts]
  BY <1>2 DEF Dated, Rows
<1>3. CASE \E k \in Missing(T, want) :
             r = [key |-> k, val |-> want[k], from |-> ts, to |-> Open]
  BY <1>3
<1> QED
  BY <1>1, <1>2, <1>3, DiffedRow

\* The open rows of a diffed table are what was observed, key by key.
LEMMA DiffedCurrent ==
  ASSUME NEW Key, NEW Val, NEW T, T \subseteq Rows(Key, Val, Nat),
         NEW want, NEW ts \in Nat
  PROVE  {<<r.key, r.val>> : r \in Current(Diffed(T, want, ts))}
           = {<<k, want[k]>> : k \in DOMAIN want}
<1>1. ASSUME NEW r \in Current(Diffed(T, want, ts))
      PROVE  r.key \in DOMAIN want /\ r.val = want[r.key]
  <2>1. r \in Diffed(T, want, ts) /\ r.to = Open
    BY <1>1 DEF Current
  <2>2. CASE r \in T /\ r \notin Stale(T, want)
    BY <2>1, <2>2 DEF Stale, Current
  <2>3. CASE \E q \in T : q.to = Open /\ q \in Stale(T, want) /\ r = [q EXCEPT !.to = ts]
    BY <2>1, <2>3 DEF Rows, Open
  <2>4. CASE \E k \in Missing(T, want) :
               r = [key |-> k, val |-> want[k], from |-> ts, to |-> Open]
    BY <2>4 DEF Missing
  <2> QED
    BY <2>1, <2>2, <2>3, <2>4, DiffedRow
<1>2. ASSUME NEW k \in DOMAIN want
      PROVE  \E r \in Current(Diffed(T, want, ts)) : r.key = k /\ r.val = want[k]
  <2>1. CASE k \in Missing(T, want)
    <3> DEFINE r == [key |-> k, val |-> want[k], from |-> ts, to |-> Open]
    <3>1. r \in Current(Diffed(T, want, ts))
      BY <2>1 DEF Diffed, OpenRows, Current
    <3> QED
      BY <3>1
  <2>2. CASE k \notin Missing(T, want)
    <3>1. PICK r \in Current(T) : r.key = k /\ r.val = want[k]
      BY <1>2, <2>2 DEF Missing
    <3>2. r \notin Stale(T, want)
      BY <1>2, <3>1 DEF Stale
    <3>3. r \in Current(Diffed(T, want, ts))
      BY <3>1, <3>2 DEF Diffed, OpenRows, Closed, CloseRows, Current
    <3> QED
      BY <3>1, <3>3
  <2> QED
    BY <2>1, <2>2
<1> QED
  BY <1>1, <1>2

\* From the last date of a table on, a reader sees its open rows.
LEMMA AsOfNow ==
  ASSUME NEW Key, NEW Val, NEW T, T \subseteq Rows(Key, Val, Nat),
         NEW now \in Nat, Dated(T, now), NEW t \in Nat, now <= t
  PROVE  AsOf(T, t) = {<<r.key, r.val>> : r \in Current(T)}
<1>1. ASSUME NEW r \in T
      PROVE  Covers(r, t) <=> r.to = Open
  <2>1. r.from \in Nat /\ (r.to \in Nat \/ r.to = Open)
    BY DEF Rows
  <2>2. r.from <= now /\ (r.to = Open \/ r.to <= now)
    BY DEF Dated
  <2> QED
    BY <2>1, <2>2 DEF Covers
<1> QED
  BY <1>1 DEF AsOf, Current

\* So from ts on, a reader of the diffed table sees what was observed.
LEMMA DiffedFuture ==
  ASSUME NEW Key, NEW Val, NEW T, T \subseteq Rows(Key, Val, Nat),
         NEW want, \A k \in DOMAIN want : k \in Key /\ want[k] \in Val,
         NEW now \in Nat, NEW ts \in Nat, now < ts, Dated(T, now),
         NEW t \in Nat, ts <= t
  PROVE  AsOf(Diffed(T, want, ts), t) = {<<k, want[k]>> : k \in DOMAIN want}
<1>1. Diffed(T, want, ts) \subseteq Rows(Key, Val, Nat)
  BY DiffedType
<1>2. Dated(Diffed(T, want, ts), ts)
  BY DiffedDated
<1>3. AsOf(Diffed(T, want, ts), t) = {<<r.key, r.val>> : r \in Current(Diffed(T, want, ts))}
  BY <1>1, <1>2, AsOfNow
<1> QED
  BY <1>3, DiffedCurrent

-----------------------------------------------------------------------------
(* What becomes of each row, and the constraints it has to meet.           *)

\* Row q of the table before, in the table after.
After(T, want, ts, q) == IF q \in Stale(T, want) THEN [q EXCEPT !.to = ts] ELSE q

\* The table after holds each row of the table before, closed if it was stale.
LEMMA DiffedAfter ==
  ASSUME NEW T, NEW want, NEW ts, NEW q \in T
  PROVE  After(T, want, ts, q) \in Diffed(T, want, ts)
  BY DEF After, Diffed, OpenRows, Closed, CloseRows

\* And nothing else but the rows it opened.
LEMMA DiffedOrigin ==
  ASSUME NEW T, NEW want, NEW ts, NEW r \in Diffed(T, want, ts)
  PROVE  \/ \E q \in T : r = After(T, want, ts, q)
         \/ \E k \in Missing(T, want) :
              r = [key |-> k, val |-> want[k], from |-> ts, to |-> Open]
  BY DiffedRow DEF After

\* A row keeps its key, value and start; its end is as before, or ts.
LEMMA AfterFields ==
  ASSUME NEW Key, NEW Val, NEW T, T \subseteq Rows(Key, Val, Nat),
         NEW want, NEW ts \in Nat, NEW q \in T
  PROVE  LET r == After(T, want, ts, q)
         IN  /\ r.key = q.key /\ r.val = q.val /\ r.from = q.from
             /\ q.to # Open => r = q
             /\ q \in Stale(T, want) => r.to = ts /\ q.to = Open
             /\ q \notin Stale(T, want) => r = q
  BY DEF After, Rows, Stale, Current

\* Rows that were apart stay apart.
LEMMA AfterApart ==
  ASSUME NEW Key, NEW Val, NEW T, T \subseteq Rows(Key, Val, Nat), NEW want,
         NEW now \in Nat, NEW ts \in Nat, now < ts, Dated(T, now),
         NEW q \in T, NEW s \in T, Apart(q, s)
  PROVE  Apart(After(T, want, ts, q), After(T, want, ts, s))
<1> DEFINE qq == After(T, want, ts, q)
           ss == After(T, want, ts, s)
<1>1. qq.from = q.from /\ ss.from = s.from
  BY AfterFields
<1>2. q.to # Open => qq.to = q.to
  BY AfterFields
<1>3. s.to # Open => ss.to = s.to
  BY AfterFields
<1> QED
  BY <1>1, <1>2, <1>3 DEF Apart

\* An exclusion constraint, for any relation C between the keys that exclude
\* each other: it survives the diff if no two observed keys exclude each other.
Excluding(T, C) ==
  \A r, s \in T : <<r.key, s.key>> \in C /\ r # s => Apart(r, s)

\* A new row is apart from every row of a key it excludes: that row is closed.
LEMMA OpenedApart ==
  ASSUME NEW Key, NEW Val, NEW T, T \subseteq Rows(Key, Val, Nat), NEW want,
         NEW now \in Nat, NEW ts \in Nat, now < ts, Dated(T, now),
         NEW k \in Missing(T, want), NEW q \in T,
         q.key \in DOMAIN want => q.key = k
  PROVE  LET s == After(T, want, ts, q) IN s.to # Open /\ s.to <= ts
<1> DEFINE s == After(T, want, ts, q)
<1>1. q.from \in Nat /\ (q.to = Open \/ q.to \in Nat)
  BY DEF Rows
<1>2. q.to = Open \/ q.to <= now
  BY DEF Dated
<1>3. CASE q \in Stale(T, want)
  BY <1>3, AfterFields DEF Open
<1>4. CASE q \notin Stale(T, want)
  <2>1. q.to # Open
    BY <1>4 DEF Stale, Missing, Current
  <2> QED
    BY <1>1, <1>2, <2>1, AfterFields
<1> QED
  BY <1>3, <1>4

\* The diff keeps an exclusion constraint its observation does not break.
LEMMA DiffedExcluding ==
  ASSUME NEW Key, NEW Val, NEW T, T \subseteq Rows(Key, Val, Nat), NEW want,
         NEW now \in Nat, NEW ts \in Nat, now < ts, Dated(T, now),
         NEW C, \A x, y : <<x, y>> \in C => <<y, x>> \in C,
         \A j, k \in DOMAIN want : <<j, k>> \in C => j = k,
         Excluding(T, C)
  PROVE  Excluding(Diffed(T, want, ts), C)
<1> SUFFICES ASSUME NEW r \in Diffed(T, want, ts), NEW s \in Diffed(T, want, ts),
                    <<r.key, s.key>> \in C, r # s
             PROVE  Apart(r, s)
  BY DEF Excluding
<1> DEFINE New(k) == [key |-> k, val |-> want[k], from |-> ts, to |-> Open]
<1>1. CASE \E p, q \in T : r = After(T, want, ts, p) /\ s = After(T, want, ts, q)
  <2>1. PICK p \in T, q \in T : r = After(T, want, ts, p) /\ s = After(T, want, ts, q)
    BY <1>1
  <2>2. p # q /\ p.key = r.key /\ q.key = s.key
    BY <2>1, AfterFields
  <2>3. Apart(p, q)
    BY <2>2 DEF Excluding
  <2> QED
    BY <2>1, <2>3, AfterApart
<1>2. ASSUME NEW k \in Missing(T, want), NEW q \in T, NEW x,
             x = After(T, want, ts, q), <<k, x.key>> \in C
      PROVE  x.to # Open /\ x.to <= ts
  <2>1. q.key = x.key
    BY <1>2, AfterFields
  <2>2. q.key \in DOMAIN want => q.key = k
    BY <1>2, <2>1 DEF Missing
  <2> QED
    BY <1>2, <2>2, OpenedApart
<1>3. CASE \E k \in Missing(T, want), q \in T : r = New(k) /\ s = After(T, want, ts, q)
  <2>1. PICK k \in Missing(T, want), q \in T : r = New(k) /\ s = After(T, want, ts, q)
    BY <1>3
  <2>2. s.to # Open /\ s.to <= ts
    BY <1>2, <2>1
  <2> QED
    BY <2>1, <2>2 DEF Apart
<1>4. CASE \E k \in Missing(T, want), q \in T : s = New(k) /\ r = After(T, want, ts, q)
  <2>1. PICK k \in Missing(T, want), q \in T : s = New(k) /\ r = After(T, want, ts, q)
    BY <1>4
  <2>2. r.to # Open /\ r.to <= ts
    BY <1>2, <2>1
  <2> QED
    BY <2>1, <2>2 DEF Apart
<1>5. ~ \E j, k \in Missing(T, want) : r = New(j) /\ s = New(k)
  BY DEF Missing
<1> QED
  BY <1>1, <1>3, <1>4, <1>5, DiffedOrigin

\* A later diff leaves no row that ends before it starts.
LEMMA DiffedOrdered ==
  ASSUME NEW Key, NEW Val, NEW T, T \subseteq Rows(Key, Val, Nat), NEW want,
         NEW now \in Nat, NEW ts \in Nat, now < ts, Dated(T, now), Ordered(T)
  PROVE  Ordered(Diffed(T, want, ts))
<1> SUFFICES ASSUME NEW r \in Diffed(T, want, ts)
             PROVE  r.to = Open \/ r.from < r.to
  BY DEF Ordered
<1>1. CASE r \in T
  BY <1>1 DEF Ordered
<1>2. CASE \E q \in T : r = [q EXCEPT !.to = ts]
  BY <1>2 DEF Dated, Rows
<1>3. CASE \E k \in Missing(T, want) :
             r = [key |-> k, val |-> want[k], from |-> ts, to |-> Open]
  BY <1>3
<1> QED
  BY <1>1, <1>2, <1>3, DiffedRow

\* A later diff keeps the constraints of a node or port table, whatever the
\* sweep: such a table never refuses a sweep collected in order.
LEMMA DiffedLawful ==
  ASSUME NEW Key, NEW Val, NEW T, T \subseteq Rows(Key, Val, Nat), NEW want,
         NEW now \in Nat, NEW ts \in Nat, now < ts, Dated(T, now), Lawful(T)
  PROVE  Lawful(Diffed(T, want, ts))
<1> DEFINE C == {<<r.key, r.key>> : r \in T} \cup {<<k, k>> : k \in DOMAIN want}
<1>1. Excluding(T, C)
  BY DEF Excluding, Lawful, NoOverlap
<1>2. Excluding(Diffed(T, want, ts), C)
  BY <1>1, DiffedExcluding
<1>3. ASSUME NEW r \in Diffed(T, want, ts)
      PROVE  <<r.key, r.key>> \in C
  <2>1. CASE \E q \in T : r = After(T, want, ts, q)
    BY <2>1, AfterFields
  <2>2. CASE \E k \in Missing(T, want) :
               r = [key |-> k, val |-> want[k], from |-> ts, to |-> Open]
    BY <2>2 DEF Missing
  <2> QED
    BY <2>1, <2>2, DiffedOrigin
<1>4. NoOverlap(Diffed(T, want, ts))
  BY <1>2, <1>3 DEF Excluding, NoOverlap
<1> QED
  BY <1>4, DiffedOrdered DEF Lawful

\* A lawful table has one open row per key.
LEMMA OneOpenRow ==
  ASSUME NEW T, NoOverlap(T), NEW r \in Current(T), NEW s \in Current(T), r.key = s.key
  PROVE  r = s
  BY DEF NoOverlap, Apart, Current

-----------------------------------------------------------------------------
(* What the writer makes of a sweep. *)

\* What a sweep calls for is typed, whatever the SM columns carry forward.
LEMMA WantedTypes ==
  ASSUME TypeOK, NEW obs \in Observations
  PROVE  /\ \A k \in DOMAIN WantedNodes(obs) :
              k \in Guid /\ WantedNodes(obs)[k] \in NodeVal
         /\ \A k \in DOMAIN WantedPorts(obs) :
              k \in Port /\ WantedPorts(obs)[k] \in PortVal
         /\ \A k \in DOMAIN WantedLinks(obs) :
              k \in Link /\ WantedLinks(obs)[k] \in LinkVal
<1>1. obs \in Observation
  BY WriterAssumption
<1>2. DOMAIN obs.nodes \subseteq Guid /\ \A g \in DOMAIN obs.nodes : obs.nodes[g] \in NodeVal
  BY <1>1 DEF Observation, PartialFcns
<1>3. DOMAIN obs.ports \subseteq Port /\ \A p \in DOMAIN obs.ports : obs.ports[p] \in PortVal
  BY <1>1 DEF Observation, PartialFcns
<1>4. obs.links \subseteq Link
  BY <1>1 DEF Observation
<1>5. ASSUME NEW g \in DOMAIN obs.nodes
      PROVE  WantedSm(obs, g) \in SmState
  <2>1. CASE g \in CurrentKeys(nodeState)
    <3>1. PICK r \in Current(nodeState) : r.key = g
      BY <2>1 DEF CurrentKeys
    <3>2. CurrentVal(nodeState, g) \in NodeVal
      BY <3>1 DEF CurrentVal, Current, TypeOK, Rows
    <3> QED
      BY <1>2, <3>2 DEF WantedSm, NodeVal
  <2>2. CASE g \notin CurrentKeys(nodeState)
    BY <1>2, <2>2 DEF WantedSm, NodeVal
  <2> QED
    BY <2>1, <2>2
<1>6. \A k \in DOMAIN WantedNodes(obs) : k \in Guid /\ WantedNodes(obs)[k] \in NodeVal
  BY <1>2, <1>5 DEF WantedNodes, NodeVal
<1>7. \A k \in DOMAIN WantedLinks(obs) : k \in Link /\ WantedLinks(obs)[k] \in LinkVal
  BY <1>4 DEF WantedLinks, LinkVal
<1> QED
  BY <1>3, <1>6, <1>7 DEF WantedPorts

\* A snapshot row of a handed-over sweep is typed.
LEMMA SnapshotType ==
  ASSUME NEW obs \in Observations, NEW ts \in Instants, NEW c \in BOOLEAN
  PROVE  Snapshot(obs, ts, c) \in SnapshotRow
<1>1. obs.complete \in BOOLEAN
  BY WriterAssumption DEF Observation
<1> QED
  BY <1>1 DEF Snapshot, SnapshotRow

\* Every event of a diff at ts is stamped ts.
LEMMA EventTimes ==
  ASSUME NEW want, NEW ts, NEW e
  PROVE  /\ e \in NodeEvents(want, ts) => e.at = ts
         /\ e \in PortEvents(want, ts) => e.at = ts
         /\ e \in LinkEvents(want, ts) => e.at = ts
  BY DEF NodeEvents, PortEvents, LinkEvents, EventsFor, Event

\* The type invariant is preserved by every call of Writer.write.
LEMMA WriteType ==
  ASSUME TypeOK, NEW obs \in Observations, NEW ts \in Instants, Write(obs, ts)
  PROVE  TypeOK'
<1>1. \A c \in BOOLEAN : Append(snapshots, Snapshot(obs, ts, c)) \in Seq(SnapshotRow)
  <2>1. \A c \in BOOLEAN : Snapshot(obs, ts, c) \in SnapshotRow
    BY SnapshotType
  <2>2. snapshots \in Seq(SnapshotRow)
    BY DEF TypeOK
  <2> QED
    BY <2>1, <2>2
<1>2. CASE RecordIncomplete(obs, ts)
  <2>1. snapshots' \in Seq(SnapshotRow)
    BY <1>1, <1>2 DEF RecordIncomplete
  <2>2. Event("sweep_incomplete", {}, ts).at \in Instants
    BY DEF Event
  <2>3. \A e \in events' : e.at \in Instants
    BY <1>2, <2>2 DEF RecordIncomplete, TypeOK
  <2> QED
    BY <1>2, <2>1, <2>3 DEF RecordIncomplete, Handled, TypeOK
<1>3. CASE RecordUnchanged(obs, ts)
  <2>1. snapshots' \in Seq(SnapshotRow)
    BY <1>1, <1>3 DEF RecordUnchanged
  <2> QED
    BY <1>3, <2>1 DEF RecordUnchanged, Handled, TypeOK
<1>4. CASE RecordChanged(obs, ts)
  <2>1. nodeState' \subseteq Rows(Guid, NodeVal, Instants)
    BY <1>4, WantedTypes, DiffedType DEF RecordChanged, TypeOK
  <2>2. portState' \subseteq Rows(Port, PortVal, Instants)
    BY <1>4, WantedTypes, DiffedType DEF RecordChanged, TypeOK
  <2>3. linkState' \subseteq Rows(Link, LinkVal, Instants)
    BY <1>4, WantedTypes, DiffedType DEF RecordChanged, TypeOK
  <2>4. \A e \in events' : e.at \in Instants
    BY <1>4, EventTimes DEF RecordChanged, TypeOK
  <2>5. snapshots' \in Seq(SnapshotRow)
    BY <1>1, <1>4 DEF RecordChanged
  <2>6. clock' \in Instants /\ handed' \in Observations /\ outcome' = "committed"
    BY <1>4 DEF RecordChanged, Handled
  <2> QED
    BY <2>1, <2>2, <2>3, <2>4, <2>5, <2>6 DEF TypeOK
<1>5. CASE RollBack(obs, ts)
  BY <1>5 DEF RollBack, Handled, tables, TypeOK
<1> QED
  BY <1>2, <1>3, <1>4, <1>5 DEF Write

\* The tables always hold rows of their type: every row names a known entity
\* and is dated by a sweep, and the gate always compares digests of sweeps.
THEOREM TypeCorrect == Spec => []TypeOK
<1>1. Init => TypeOK
  BY WriterAssumption DEF Init, TypeOK, Instants
<1>2. TypeOK /\ [Next]_vars => TypeOK'
  <2> SUFFICES ASSUME TypeOK, [Next]_vars PROVE TypeOK'
    OBVIOUS
  <2>1. CASE \E obs \in Observations, ts \in Instants : Write(obs, ts)
    BY <2>1, WriteType
  <2>2. CASE UNCHANGED vars
    BY <2>2 DEF vars, tables, TypeOK
  <2> QED
    BY <2>1, <2>2 DEF Next, AtBound
<1> QED
  BY <1>1, <1>2, PTL DEF Spec

-----------------------------------------------------------------------------
\* The inductive invariant behind the quiet diff: the tables only ever start or
\* stop saying something at the collected_at of a snapshot marked changed.
ChangeTimes == {snapshots[i].at : i \in {j \in DOMAIN snapshots : snapshots[j].changed}}

EdgesAreChanges ==
  /\ Edges(nodeState) \subseteq ChangeTimes
  /\ Edges(portState) \subseteq ChangeTimes
  /\ Edges(linkState) \subseteq ChangeTimes

\* Recording a snapshot keeps the change times and adds its own if changed.
LEMMA RecordedTimes ==
  ASSUME TypeOK, NEW obs \in Observations, NEW ts \in Instants, NEW c \in BOOLEAN,
         snapshots' = Append(snapshots, Snapshot(obs, ts, c))
  PROVE  /\ ChangeTimes \subseteq ChangeTimes'
         /\ c => ts \in ChangeTimes'
<1>1. snapshots \in Seq(SnapshotRow) /\ Snapshot(obs, ts, c) \in SnapshotRow
  BY SnapshotType DEF TypeOK
<1>2. /\ DOMAIN snapshots' = 1 .. Len(snapshots) + 1
      /\ DOMAIN snapshots = 1 .. Len(snapshots)
      /\ Len(snapshots) \in Nat
      /\ \A i \in DOMAIN snapshots : snapshots'[i] = snapshots[i]
      /\ snapshots'[Len(snapshots) + 1] = Snapshot(obs, ts, c)
  BY <1>1
<1>3. ChangeTimes \subseteq ChangeTimes'
  BY <1>2 DEF ChangeTimes
<1>4. ASSUME c PROVE ts \in ChangeTimes'
  <2>1. Snapshot(obs, ts, c).changed /\ Snapshot(obs, ts, c).at = ts
    BY <1>4 DEF Snapshot
  <2>2. Len(snapshots) + 1 \in DOMAIN snapshots'
    BY <1>2
  <2> QED
    BY <1>2, <2>1, <2>2 DEF ChangeTimes
<1> QED
  BY <1>3, <1>4

\* A write opens and closes rows at its own instant only, when it is a changed one.
LEMMA WriteEdges ==
  ASSUME TypeOK, EdgesAreChanges, NEW obs \in Observations, NEW ts \in Instants,
         Write(obs, ts)
  PROVE  EdgesAreChanges'
<1>1. CASE RecordIncomplete(obs, ts)
  BY <1>1, RecordedTimes DEF RecordIncomplete, EdgesAreChanges
<1>2. CASE RecordUnchanged(obs, ts)
  BY <1>2, RecordedTimes DEF RecordUnchanged, EdgesAreChanges
<1>3. CASE RecordChanged(obs, ts)
  <2>1. ChangeTimes \subseteq ChangeTimes' /\ ts \in ChangeTimes'
    BY <1>3, RecordedTimes DEF RecordChanged
  <2>2. Edges(nodeState') \subseteq Edges(nodeState) \cup {ts}
    BY <1>3, DiffedEdges DEF RecordChanged, TypeOK
  <2>3. Edges(portState') \subseteq Edges(portState) \cup {ts}
    BY <1>3, DiffedEdges DEF RecordChanged, TypeOK
  <2>4. Edges(linkState') \subseteq Edges(linkState) \cup {ts}
    BY <1>3, DiffedEdges DEF RecordChanged, TypeOK
  <2>5. /\ (Edges(nodeState))' = Edges(nodeState')
        /\ (Edges(portState))' = Edges(portState')
        /\ (Edges(linkState))' = Edges(linkState')
    BY DEF Edges
  <2> QED
    BY <2>1, <2>2, <2>3, <2>4, <2>5 DEF EdgesAreChanges
<1>4. CASE RollBack(obs, ts)
  BY <1>4 DEF RollBack, tables, EdgesAreChanges, ChangeTimes
<1> QED
  BY <1>1, <1>2, <1>3, <1>4 DEF Write

\* So every edge there ever is lies at a changed snapshot.
LEMMA EdgesInvariant == Spec => []EdgesAreChanges
<1>1. Init => EdgesAreChanges
  BY DEF Init, EdgesAreChanges, Edges
<1>2. TypeOK /\ EdgesAreChanges /\ [Next]_vars => EdgesAreChanges'
  <2> SUFFICES ASSUME TypeOK, EdgesAreChanges, [Next]_vars PROVE EdgesAreChanges'
    OBVIOUS
  <2>1. CASE \E obs \in Observations, ts \in Instants : Write(obs, ts)
    BY <2>1, WriteEdges
  <2>2. CASE UNCHANGED vars
    BY <2>2 DEF vars, tables, EdgesAreChanges, ChangeTimes
  <2> QED
    BY <2>1, <2>2 DEF Next, AtBound
<1> QED
  BY <1>1, <1>2, TypeCorrect, PTL DEF Spec

\* Between two instants with no changed snapshot after the first and up to the
\* second, the fabric as recorded is the same: the diff endpoint may answer
\* from one read, whatever the clock did.
THEOREM QuietIsUnchanged == Spec => []QuietMeansUnchanged
<1>1. TypeOK /\ EdgesAreChanges => QuietMeansUnchanged
  <2> SUFFICES ASSUME TypeOK, EdgesAreChanges,
                      NEW a \in Instants, NEW b \in Instants,
                      a <= b, ~ ChangedBetween(a, b)
               PROVE  PictureAt(a) = PictureAt(b)
    BY DEF QuietMeansUnchanged
  <2>1. \A e \in ChangeTimes : ~ (a < e /\ e <= b)
    BY DEF ChangeTimes, ChangedBetween
  <2>2. Instants \subseteq Nat /\ a \in Nat /\ b \in Nat
    BY WriterAssumption DEF Instants
  <2>3. ASSUME NEW Key, NEW Val, NEW T, T \subseteq Rows(Key, Val, Instants),
               Edges(T) \subseteq ChangeTimes
        PROVE  AsOf(T, a) = AsOf(T, b)
    <3>1. \A e \in Edges(T) : ~ (a < e /\ e <= b)
      BY <2>1, <2>3
    <3>2. T \subseteq Rows(Key, Val, Nat)
      BY <2>2, <2>3 DEF Rows
    <3> QED
      BY <2>2, <3>1, <3>2, NoEdgeNoChange
  <2> QED
    BY <2>3 DEF PictureAt, EdgesAreChanges, TypeOK
<1> QED
  BY <1>1, TypeCorrect, EdgesInvariant, PTL

-----------------------------------------------------------------------------
\* A write, whichever way it ends, leaves the picture of every earlier instant.
LEMMA WritePast ==
  ASSUME TypeOK, NEW obs \in Observations, NEW ts \in Instants, Write(obs, ts),
         NEW t \in Instants, t < clock'
  PROVE  PictureAt(t)' = PictureAt(t)
<1>1. clock' = ts
  BY DEF Write, RecordIncomplete, RecordUnchanged, RecordChanged, RollBack, Handled
<1>2. CASE UNCHANGED <<nodeState, portState, linkState>>
  BY <1>2 DEF PictureAt
<1>3. CASE RecordChanged(obs, ts)
  <2>1. Instants \subseteq Nat /\ t \in Nat /\ t < ts
    BY <1>1, WriterAssumption DEF Instants
  <2>2. ASSUME NEW Key, NEW Val, NEW T, T \subseteq Rows(Key, Val, Instants), NEW want
        PROVE  AsOf(Diffed(T, want, ts), t) = AsOf(T, t)
    <3>1. T \subseteq Rows(Key, Val, Nat) /\ ts \in Nat
      BY <2>1, <2>2 DEF Rows
    <3> QED
      BY <2>1, <3>1, DiffedPast
  <2> QED
    BY <1>3, <2>2 DEF RecordChanged, TypeOK, PictureAt
<1> QED
  BY <1>2, <1>3 DEF Write, RecordIncomplete, RecordUnchanged, RollBack, tables

\* No write changes what the tables say of an instant before its own
\* collected_at, even when the clock has stepped backwards.
THEOREM PastStands == Spec => PastIsImmutable
<1>1. TypeOK /\ [Next]_vars
        => [\A t \in Instants : t < clock' => PictureAt(t)' = PictureAt(t)]_vars
  BY WritePast DEF Next, AtBound
<1> QED
  BY <1>1, TypeCorrect, PTL DEF Spec, PastIsImmutable
-----------------------------------------------------------------------------
(* What a later diff adds to the boundaries of a table's rows: the facts   *)
(* the event feed is to tell.                                              *)

\* The keys whose current value the diff replaces.
Replaced(T, want) == {k \in Kept(T, want) : CurrentVal(T, k) # want[k]}

\* With one open row per key, that row's value is the one the writer compares.
LEMMA CurrentValue ==
  ASSUME NEW T, NoOverlap(T), NEW q \in Current(T)
  PROVE  CurrentVal(T, q.key) = q.val
<1>1. \E r \in Current(T) : r.key = q.key
  OBVIOUS
<1>2. \A r \in Current(T) : r.key = q.key => r = q
  BY OneOpenRow
<1> QED
  BY <1>1, <1>2 DEF CurrentVal

\* Which rows a diff closes, told by their keys.
LEMMA StaleKeys ==
  ASSUME NEW T, NoOverlap(T), NEW want
  PROVE  /\ \A q \in Stale(T, want) : q.key \in Vanished(T, want) \cup Replaced(T, want)
         /\ \A k \in Vanished(T, want) \cup Replaced(T, want) :
              \E q \in Stale(T, want) : q.key = k
         /\ Missing(T, want) = Appeared(T, want) \cup Replaced(T, want)
<1>1. ASSUME NEW q \in Stale(T, want)
      PROVE  q.key \in Vanished(T, want) \cup Replaced(T, want)
  BY CurrentValue DEF Stale, Vanished, Replaced, Kept, CurrentKeys
<1>2. ASSUME NEW k \in Vanished(T, want) \cup Replaced(T, want)
      PROVE  \E q \in Stale(T, want) : q.key = k
  <2>1. PICK q \in Current(T) : q.key = k
    BY DEF Vanished, Replaced, Kept, CurrentKeys
  <2>2. CurrentVal(T, k) = q.val
    BY <2>1, CurrentValue
  <2> QED
    BY <2>1, <2>2 DEF Stale, Vanished, Replaced
<1>3. ASSUME NEW k \in Missing(T, want)
      PROVE  k \in Appeared(T, want) \cup Replaced(T, want)
  <2>1. CASE k \in CurrentKeys(T)
    <3>1. PICK q \in Current(T) : q.key = k
      BY <2>1 DEF CurrentKeys
    <3>2. CurrentVal(T, k) = q.val /\ q.val # want[k]
      BY <3>1, CurrentValue DEF Missing
    <3> QED
      BY <2>1, <3>2 DEF Replaced, Kept, Missing
  <2>2. CASE k \notin CurrentKeys(T)
    BY <2>2 DEF Appeared, Missing
  <2> QED
    BY <2>1, <2>2
<1>4. ASSUME NEW k \in Appeared(T, want) \cup Replaced(T, want)
      PROVE  k \in Missing(T, want)
  <2>1. CASE k \in Appeared(T, want)
    BY <2>1 DEF Appeared, CurrentKeys, Missing
  <2>2. CASE k \in Replaced(T, want)
    <3>1. k \in DOMAIN want /\ CurrentVal(T, k) # want[k]
      BY <2>2 DEF Replaced, Kept
    <3>2. \A q \in Current(T) : q.key = k => q.val # want[k]
      BY <3>1, CurrentValue
    <3> QED
      BY <3>1, <3>2 DEF Missing
  <2> QED
    BY <2>1, <2>2
<1> QED
  BY <1>1, <1>2, <1>3, <1>4

\* The row a diff opens for key k.
Opened(want, ts, k) == [key |-> k, val |-> want[k], from |-> ts, to |-> Open]

\* The facts about a diff that the three lemmas below share: what was dated
\* before, and what of the table after touches ts.
LEMMA DiffedAround ==
  ASSUME NEW Key, NEW Val, NEW T, T \subseteq Rows(Key, Val, Nat), NEW want,
         NEW now \in Nat, NEW ts \in Nat, now < ts, Dated(T, now), Lawful(T)
  PROVE  /\ \A q \in T : /\ q.from # ts /\ q.to # ts /\ q.from # Open
                         /\ After(T, want, ts, q) \in Diffed(T, want, ts)
         /\ \A k \in Missing(T, want) : Opened(want, ts, k) \in Diffed(T, want, ts)
<1>1. \A q \in T : q.from # ts /\ q.to # ts /\ q.from # Open
  BY DEF Dated, Rows, Open
<1>2. \A q \in T : After(T, want, ts, q) \in Diffed(T, want, ts)
  BY DiffedAfter
<1>3. \A k \in Missing(T, want) : Opened(want, ts, k) \in Diffed(T, want, ts)
  BY DEF Opened, Diffed, OpenRows
<1> QED
  BY <1>1, <1>2, <1>3

\* A table in order, of rows no later than now, and a later timestamp.
Ahead(T, Key, Val, now, ts) ==
  /\ T \subseteq Rows(Key, Val, Nat) /\ now \in Nat /\ ts \in Nat /\ now < ts
  /\ Dated(T, now) /\ Lawful(T)

\* A later diff starts a history exactly for the keys that appear.
LEMMA DiffedStarts ==
  ASSUME NEW Key, NEW Val, NEW T, NEW want, NEW now, NEW ts, NEW type,
         Ahead(T, Key, Val, now, ts)
  PROVE  StartEvents(type, Diffed(T, want, ts))
           = StartEvents(type, T) \cup EventsFor(type, Appeared(T, want), ts)
<1>0. /\ T \subseteq Rows(Key, Val, Nat) /\ now \in Nat /\ ts \in Nat /\ now < ts
      /\ Dated(T, now) /\ Lawful(T)
  BY DEF Ahead
<1> USE <1>0
<1> DEFINE D == Diffed(T, want, ts)
           A(q) == After(T, want, ts, q)
<1>1. \A q \in T : q.from # ts /\ q.to # ts /\ q.from # Open /\ A(q) \in D
  BY DiffedAround
<1>2. \A k \in Missing(T, want) : Opened(want, ts, k) \in D
  BY DiffedAround
<1>3. \A r \in D : \/ \E q \in T : r = A(q)
                   \/ \E k \in Missing(T, want) : r = Opened(want, ts, k)
  BY DiffedOrigin DEF Opened
<1>4. \A q \in T : /\ A(q).key = q.key /\ A(q).from = q.from
                   /\ A(q).to = IF q \in Stale(T, want) THEN ts ELSE q.to
                   /\ q \in Stale(T, want) => q.to = Open
  BY AfterFields
<1>5. \A k : LET r == Opened(want, ts, k)
             IN  r.key = k /\ r.from = ts /\ r.to = Open
  BY DEF Opened
<1> HIDE DEF D, A
<1>6. ASSUME NEW r \in Starts(D)
      PROVE  \/ \E q \in Starts(T) : q.key = r.key /\ q.from = r.from
             \/ r.key \in Appeared(T, want) /\ r.from = ts
  <2>1. r \in D /\ \A s \in D : s.key = r.key => s.to # r.from
    BY <1>6 DEF Starts
  <2>2. CASE \E q \in T : r = A(q)
    <3>1. PICK q \in T : r = A(q)
      BY <2>2
    <3>2. \A s \in T : s.key = q.key => s.to # q.from
      BY <1>1, <1>4, <2>1, <3>1
    <3> QED
      BY <1>4, <3>1, <3>2 DEF Starts
  <2>3. CASE \E k \in Missing(T, want) : r = Opened(want, ts, k)
    <3>1. PICK k \in Missing(T, want) : r = Opened(want, ts, k)
      BY <2>3
    <3>2. \A q \in Stale(T, want) : q.key # k
      BY <1>1, <1>4, <1>5, <2>1, <3>1 DEF Stale, Current
    <3>3. k \notin Replaced(T, want)
      BY <3>2, StaleKeys DEF Lawful
    <3>4. k \in Appeared(T, want)
      BY <3>1, <3>3, StaleKeys DEF Lawful
    <3> QED
      BY <1>5, <3>1, <3>4
  <2> QED
    BY <1>3, <2>1, <2>2, <2>3
<1>7. ASSUME NEW q \in Starts(T)
      PROVE  \E r \in Starts(D) : r.key = q.key /\ r.from = q.from
  <2>1. q \in T /\ \A s \in T : s.key = q.key => s.to # q.from
    BY <1>7 DEF Starts
  <2>2. \A s \in D : s.key = q.key => s.to # q.from
    BY <1>1, <1>3, <1>4, <1>5, <2>1
  <2>3. A(q) \in Starts(D)
    BY <1>1, <1>4, <2>1, <2>2 DEF Starts
  <2> QED
    BY <1>4, <2>1, <2>3
<1>8. ASSUME NEW k \in Appeared(T, want)
      PROVE  \E r \in Starts(D) : r.key = k /\ r.from = ts
  <2>1. k \in Missing(T, want)
    BY StaleKeys DEF Lawful
  <2>2. \A q \in Stale(T, want) : q.key # k
    BY DEF Appeared, CurrentKeys, Stale
  <2>3. \A s \in D : s.key = k => s.to # ts
    BY <1>1, <1>3, <1>4, <1>5, <2>2 DEF Open
  <2>4. Opened(want, ts, k) \in Starts(D)
    BY <1>2, <1>5, <2>1, <2>3 DEF Starts
  <2> QED
    BY <1>5, <2>4
<1> QED
  BY <1>6, <1>7, <1>8 DEF D, Event, EventsFor, StartEvents

\* A later diff ends a history exactly for the keys that vanish.
LEMMA DiffedEnds ==
  ASSUME NEW Key, NEW Val, NEW T, NEW want, NEW now, NEW ts, NEW type,
         Ahead(T, Key, Val, now, ts)
  PROVE  EndEvents(type, Diffed(T, want, ts))
           = EndEvents(type, T) \cup EventsFor(type, Vanished(T, want), ts)
<1>0. /\ T \subseteq Rows(Key, Val, Nat) /\ now \in Nat /\ ts \in Nat /\ now < ts
      /\ Dated(T, now) /\ Lawful(T)
  BY DEF Ahead
<1> USE <1>0
<1> DEFINE D == Diffed(T, want, ts)
           A(q) == After(T, want, ts, q)
<1>1. \A q \in T : q.from # ts /\ q.to # ts /\ q.from # Open /\ A(q) \in D
  BY DiffedAround
<1>2. \A k \in Missing(T, want) : Opened(want, ts, k) \in D
  BY DiffedAround
<1>3. \A r \in D : \/ \E q \in T : r = A(q)
                   \/ \E k \in Missing(T, want) : r = Opened(want, ts, k)
  BY DiffedOrigin DEF Opened
<1>4. \A q \in T : /\ A(q).key = q.key /\ A(q).from = q.from
                   /\ A(q).to = IF q \in Stale(T, want) THEN ts ELSE q.to
                   /\ q \in Stale(T, want) => q.to = Open
  BY AfterFields
<1>5. \A k : LET r == Opened(want, ts, k)
             IN  r.key = k /\ r.from = ts /\ r.to = Open
  BY DEF Opened
<1> HIDE DEF D, A
<1>6. ASSUME NEW r \in Ends(D)
      PROVE  \/ \E q \in Ends(T) : q.key = r.key /\ q.to = r.to
             \/ r.key \in Vanished(T, want) /\ r.to = ts
  <2>1. r \in D /\ r.to # Open /\ \A s \in D : s.key = r.key => s.from # r.to
    BY <1>6 DEF Ends
  <2>2. PICK q \in T : r = A(q)
    BY <1>3, <1>5, <2>1
  <2>3. CASE q \notin Stale(T, want)
    <3>1. \A s \in T : s.key = q.key => s.from # q.to
      BY <1>1, <1>4, <2>1, <2>2, <2>3
    <3> QED
      BY <1>4, <2>1, <2>2, <2>3, <3>1 DEF Ends
  <2>4. CASE q \in Stale(T, want)
    <3>1. q.key \notin Missing(T, want)
      BY <1>2, <1>4, <1>5, <2>1, <2>2, <2>4
    <3>2. q.key \in Vanished(T, want)
      BY <2>4, <3>1, StaleKeys DEF Lawful
    <3> QED
      BY <1>4, <2>2, <2>4, <3>2
  <2> QED
    BY <2>3, <2>4
<1>7. ASSUME NEW q \in Ends(T)
      PROVE  \E r \in Ends(D) : r.key = q.key /\ r.to = q.to
  <2>1. q \in T /\ q.to # Open /\ \A s \in T : s.key = q.key => s.from # q.to
    BY <1>7 DEF Ends
  <2>2. \A s \in D : s.key = q.key => s.from # q.to
    BY <1>1, <1>3, <1>4, <1>5, <2>1
  <2>3. A(q).to = q.to /\ A(q).key = q.key
    BY <1>4, <2>1
  <2>4. A(q) \in Ends(D)
    BY <1>1, <2>1, <2>2, <2>3 DEF Ends
  <2> QED
    BY <2>3, <2>4
<1>8. ASSUME NEW k \in Vanished(T, want)
      PROVE  \E r \in Ends(D) : r.key = k /\ r.to = ts
  <2>1. PICK q \in Stale(T, want) : q.key = k
    BY StaleKeys DEF Lawful
  <2>2. q \in T
    BY DEF Stale, Current
  <2>3. k \notin Missing(T, want)
    BY DEF Vanished, Missing
  <2>4. \A s \in D : s.key = k => s.from # ts
    BY <1>1, <1>3, <1>4, <1>5, <2>3
  <2>5. ts # Open
    BY DEF Open
  <2>6. A(q) \in Ends(D)
    BY <1>1, <1>4, <2>1, <2>2, <2>4, <2>5 DEF Ends
  <2> QED
    BY <1>4, <2>1, <2>2, <2>6
<1> QED
  BY <1>6, <1>7, <1>8 DEF D, Event, EventsFor, EndEvents

\* The turns of a table: key, instant, value before and value after.
TurnPoints(T) == {<<qr[1].key, qr[2].from, qr[1].val, qr[2].val>> : qr \in Turns(T)}

\* A later diff adds a turn exactly for the keys it keeps with another value.
LEMMA DiffedTurns ==
  ASSUME NEW Key, NEW Val, NEW T, NEW want, NEW now, NEW ts, Ahead(T, Key, Val, now, ts)
  PROVE  TurnPoints(Diffed(T, want, ts))
           = TurnPoints(T)
             \cup {<<k, ts, CurrentVal(T, k), want[k]>> : k \in Replaced(T, want)}
<1>0. /\ T \subseteq Rows(Key, Val, Nat) /\ now \in Nat /\ ts \in Nat /\ now < ts
      /\ Dated(T, now) /\ Lawful(T)
  BY DEF Ahead
<1> USE <1>0
<1> DEFINE D == Diffed(T, want, ts)
           A(q) == After(T, want, ts, q)
<1>1. \A q \in T : q.from # ts /\ q.to # ts /\ q.from # Open /\ A(q) \in D
  BY DiffedAround
<1>2. \A k \in Missing(T, want) : Opened(want, ts, k) \in D
  BY DiffedAround
<1>3. \A r \in D : \/ \E q \in T : r = A(q)
                   \/ \E k \in Missing(T, want) : r = Opened(want, ts, k)
  BY DiffedOrigin DEF Opened
<1>4. \A q \in T : /\ A(q).key = q.key /\ A(q).from = q.from /\ A(q).val = q.val
                   /\ A(q).to = IF q \in Stale(T, want) THEN ts ELSE q.to
                   /\ q \in Stale(T, want) => q.to = Open
  BY AfterFields
<1>5. \A k : LET r == Opened(want, ts, k)
             IN  r.key = k /\ r.from = ts /\ r.to = Open /\ r.val = want[k]
  BY DEF Opened
<1>6. ts # Open
  BY DEF Open
<1> HIDE DEF D, A
<1>7. ASSUME NEW r \in D, NEW s \in D, r.key = s.key, r.to = s.from
      PROVE  \/ \E p, q \in T : /\ <<p, q>> \in Turns(T) /\ p.key = r.key
                                /\ q.from = s.from /\ p.val = r.val /\ q.val = s.val
             \/ /\ r.key \in Replaced(T, want) /\ s.from = ts
                /\ r.val = CurrentVal(T, r.key) /\ s.val = want[r.key]
  <2>1. CASE \E q \in T : s = A(q)
    <3>1. PICK q \in T : s = A(q)
      BY <2>1
    <3>2. PICK p \in T : r = A(p)
      BY <1>1, <1>3, <1>4, <1>5, <1>7, <3>1
    <3>3. p.to = q.from /\ p.key = q.key
      BY <1>1, <1>4, <1>7, <3>1, <3>2
    <3>4. <<p, q>> \in Turns(T)
      BY <3>3 DEF Turns
    <3> QED
      BY <1>4, <3>1, <3>2, <3>4
  <2>2. CASE \E k \in Missing(T, want) : s = Opened(want, ts, k)
    <3>1. PICK k \in Missing(T, want) : s = Opened(want, ts, k)
      BY <2>2
    <3>2. s.from = ts /\ s.key = k /\ s.val = want[k]
      BY <1>5, <3>1
    <3>3. PICK p \in T : r = A(p)
      BY <1>3, <1>5, <1>6, <1>7, <3>2
    <3>4. p \in Stale(T, want) /\ p.key = k /\ p.val = r.val
      BY <1>1, <1>4, <1>7, <3>2, <3>3
    <3>5. k \notin Vanished(T, want)
      BY <3>1 DEF Vanished, Missing
    <3>6. k \in Replaced(T, want)
      BY <3>4, <3>5, StaleKeys DEF Lawful
    <3>7. CurrentVal(T, k) = p.val
      BY <3>4, CurrentValue DEF Stale, Lawful
    <3> QED
      BY <1>7, <3>2, <3>4, <3>6, <3>7
  <2> QED
    BY <1>3, <2>1, <2>2
<1>8. ASSUME NEW p \in T, NEW q \in T, p.key = q.key, p.to = q.from
      PROVE  <<A(p), A(q)>> \in Turns(D)
  <2>1. p \notin Stale(T, want)
    BY <1>1, <1>4, <1>8
  <2>2. A(p).key = A(q).key /\ A(p).to = A(q).from
    BY <1>4, <1>8, <2>1
  <2> QED
    BY <1>1, <2>2 DEF Turns
<1>9. ASSUME NEW k \in Replaced(T, want)
      PROVE  \E p \in T : /\ <<A(p), Opened(want, ts, k)>> \in Turns(D)
                          /\ p.key = k /\ p.val = CurrentVal(T, k)
  <2>1. PICK p \in Stale(T, want) : p.key = k
    BY StaleKeys DEF Lawful
  <2>2. p \in T /\ p.val = CurrentVal(T, k)
    BY <2>1, CurrentValue DEF Stale, Current, Lawful
  <2>3. Opened(want, ts, k) \in D
    BY <1>2, StaleKeys DEF Lawful
  <2>4. A(p) \in D /\ A(p).key = k /\ A(p).to = ts
    BY <1>1, <1>4, <2>1, <2>2
  <2>5. <<A(p), Opened(want, ts, k)>> \in Turns(D)
    BY <1>5, <2>3, <2>4 DEF Turns
  <2> QED
    BY <2>1, <2>2, <2>5
<1>10. ASSUME NEW x \in TurnPoints(D)
       PROVE  \/ x \in TurnPoints(T)
              \/ \E k \in Replaced(T, want) : x = <<k, ts, CurrentVal(T, k), want[k]>>
  <2>1. PICK r \in D, s \in D : /\ r.key = s.key /\ r.to = s.from
                                /\ x = <<r.key, s.from, r.val, s.val>>
    BY <1>10 DEF TurnPoints, Turns
  <2>2. CASE \E p, q \in T : /\ <<p, q>> \in Turns(T) /\ p.key = r.key
                             /\ q.from = s.from /\ p.val = r.val /\ q.val = s.val
    <3>1. PICK p \in T, q \in T : /\ <<p, q>> \in Turns(T) /\ p.key = r.key
                                  /\ q.from = s.from /\ p.val = r.val /\ q.val = s.val
      BY <2>2
    <3>2. x = <<p.key, q.from, p.val, q.val>>
      BY <2>1, <3>1
    <3> QED
      BY <3>1, <3>2 DEF TurnPoints
  <2> QED
    BY <1>7, <2>1, <2>2
<1>11. ASSUME NEW x \in TurnPoints(T)
       PROVE  x \in TurnPoints(D)
  <2>1. PICK p \in T, q \in T : /\ p.key = q.key /\ p.to = q.from
                                /\ x = <<p.key, q.from, p.val, q.val>>
    BY <1>11 DEF TurnPoints, Turns
  <2>2. <<A(p), A(q)>> \in Turns(D)
    BY <1>8, <2>1
  <2>3. x = <<A(p).key, A(q).from, A(p).val, A(q).val>>
    BY <1>4, <2>1
  <2> QED
    BY <2>2, <2>3 DEF TurnPoints
<1>12. ASSUME NEW k \in Replaced(T, want)
       PROVE  <<k, ts, CurrentVal(T, k), want[k]>> \in TurnPoints(D)
  <2>1. PICK p \in T : /\ <<A(p), Opened(want, ts, k)>> \in Turns(D)
                       /\ p.key = k /\ p.val = CurrentVal(T, k)
    BY <1>9
  <2>2. /\ A(p).key = k /\ A(p).val = CurrentVal(T, k)
        /\ Opened(want, ts, k).from = ts /\ Opened(want, ts, k).val = want[k]
    BY <1>4, <1>5, <2>1
  <2> QED
    BY <2>1, <2>2 DEF TurnPoints
<1> QED
  BY <1>10, <1>11, <1>12 DEF D

-----------------------------------------------------------------------------
(* With a clock that only moves forward the tables follow the sweeps.      *)

LastComplete(i) ==
  /\ snapshots[i].complete
  /\ \A j \in DOMAIN snapshots : snapshots[j].complete => j <= i

AllDated ==
  /\ Dated(nodeState, clock)
  /\ Dated(portState, clock)
  /\ Dated(linkState, clock)

SnapshotsInOrder ==
  /\ \A i \in DOMAIN snapshots : snapshots[i].at <= clock
  /\ \A i, j \in DOMAIN snapshots : i < j => snapshots[i].at <= snapshots[j].at

TablesLawful == Lawful(nodeState) /\ Lawful(portState) /\ LawfulLinks(linkState)

\* The open rows hold the SM states of any sweep the gate would take for the
\* last complete one, unless it would take a partial reading for it as well.
SmRemembered ==
  \A i \in DOMAIN snapshots : LastComplete(i) =>
    \A obs \in Observations :
      obs.complete /\ Digest(obs) = snapshots[i].digest /\ ~ Blurred(obs) =>
        \A r \in Current(nodeState) : r.val.sm = obs.nodes[r.key].sm

\* The inductive invariant of the tables.
IInv ==
  /\ TypeOK
  /\ AllDated
  /\ SnapshotsInOrder
  /\ TablesLawful
  /\ StateFollowsSweep
  /\ SmRemembered

\* What the type invariant says of the numbers.
LEMMA NatTyped ==
  ASSUME TypeOK
  PROVE  /\ Instants \subseteq Nat
         /\ clock \in Nat
         /\ nodeState \subseteq Rows(Guid, NodeVal, Nat)
         /\ portState \subseteq Rows(Port, PortVal, Nat)
         /\ linkState \subseteq Rows(Link, LinkVal, Nat)
<1>1. Instants \subseteq Nat
  BY WriterAssumption DEF Instants
<1> QED
  BY <1>1 DEF TypeOK, Rows

\* A table of cables that shares no socket has no two rows of one cable.
LEMMA LinksLawful ==
  ASSUME TypeOK, LawfulLinks(linkState)
  PROVE  Lawful(linkState)
<1>1. \A r \in linkState : r.key \in Link
  BY DEF TypeOK, Rows
<1>2. \A l \in Link : l \cap l # {}
  BY DEF Link
<1> QED
  BY <1>1, <1>2 DEF LawfulLinks, OneCablePerPort, Lawful, NoOverlap

\* Sound cabling meets the constraints, at every stage of the diff.
LEMMA SoundAccepted ==
  ASSUME TypeOK, AllDated, TablesLawful, NEW obs \in Observations, NEW ts \in Instants,
         clock < ts, SoundCabling(obs)
  PROVE  Accepted(obs, ts)
<1> DEFINE want == WantedLinks(obs)
           D == Diffed(linkState, want, ts)
           C == {x \in Link \X Link : x[1] \cap x[2] # {}}
<1>1. clock \in Nat /\ ts \in Nat
  BY NatTyped
<1>2. Lawful(Diffed(nodeState, WantedNodes(obs), ts))
  BY <1>1, NatTyped, DiffedLawful DEF AllDated, TablesLawful
<1>3. Lawful(Diffed(portState, WantedPorts(obs), ts))
  BY <1>1, NatTyped, DiffedLawful DEF AllDated, TablesLawful
<1>4. linkState \subseteq Rows(Link, LinkVal, Nat) /\ Dated(linkState, clock)
  BY NatTyped DEF AllDated
<1>5. LawfulLinks(linkState)
  BY DEF TablesLawful
<1>6. Ordered(D)
  BY <1>1, <1>4, <1>5, DiffedOrdered DEF LawfulLinks
<1>7. DOMAIN want = obs.links /\ obs.links \subseteq Link
  BY WriterAssumption DEF WantedLinks, Observation
<1>8. \A k \in DOMAIN want : k \in Link /\ want[k] \in LinkVal
  BY WantedTypes
<1>9. D \subseteq Rows(Link, LinkVal, Nat)
  BY <1>1, <1>4, <1>8, DiffedType
<1>10. OneCablePerPort(D)
  <2>1. Excluding(linkState, C)
    BY <1>5 DEF Excluding, LawfulLinks, OneCablePerPort
  <2>2. \A j, k \in DOMAIN want : <<j, k>> \in C => j = k
    BY <1>7 DEF SoundCabling
  <2>3. \A x, y : <<x, y>> \in C => <<y, x>> \in C
    OBVIOUS
  <2> HIDE DEF C, want
  <2>4. Excluding(D, C)
    BY <1>1, <1>4, <2>1, <2>2, <2>3, DiffedExcluding
  <2>5. \A r \in D : r.key \in Link
    BY <1>9 DEF Rows
  <2> QED
    BY <2>4, <2>5 DEF Excluding, OneCablePerPort, C
<1>11. \A r \in D : \E a, b \in r.key : a # b
  <2> SUFFICES ASSUME NEW r \in D PROVE \E a, b \in r.key : a # b
    OBVIOUS
  <2>1. CASE \E q \in linkState : r = After(linkState, want, ts, q)
    BY <1>1, <1>4, <1>5, <2>1, AfterFields DEF LawfulLinks
  <2>2. CASE \E k \in Missing(linkState, want) :
               r = [key |-> k, val |-> want[k], from |-> ts, to |-> Open]
    <3>1. r.key \in obs.links
      BY <1>7, <2>2 DEF Missing
    <3> QED
      BY <3>1 DEF SoundCabling
  <2> QED
    BY <2>1, <2>2, DiffedOrigin
<1>12. LawfulLinks(D)
  BY <1>6, <1>10, <1>11 DEF LawfulLinks
<1>13. Closed(linkState, want, ts) \subseteq D
  BY DEF Diffed, OpenRows
<1>14. LawfulLinks(Closed(linkState, want, ts))
  BY <1>12, <1>13 DEF LawfulLinks, Ordered, OneCablePerPort
<1> QED
  BY <1>2, <1>3, <1>12, <1>14 DEF Accepted, LinkStages

\* What recording a snapshot leaves of the ones before.
LEMMA Recorded ==
  ASSUME TypeOK, NEW obs \in Observations, NEW ts \in Instants, NEW c \in BOOLEAN,
         snapshots' = Append(snapshots, Snapshot(obs, ts, c))
  PROVE  LET n == Len(snapshots)
         IN  /\ n \in Nat
             /\ DOMAIN snapshots = 1 .. n
             /\ DOMAIN snapshots' = 1 .. n + 1
             /\ \A i \in 1 .. n : snapshots'[i] = snapshots[i] /\ snapshots[i].at \in Instants
             /\ snapshots'[n + 1].at = ts
             /\ snapshots'[n + 1].digest = Digest(obs)
             /\ snapshots'[n + 1].complete = obs.complete
<1>1. snapshots \in Seq(SnapshotRow)
  BY DEF TypeOK
<1>2. Snapshot(obs, ts, c) \in SnapshotRow
  BY SnapshotType
<1>3. \A i \in DOMAIN snapshots : snapshots[i] \in SnapshotRow
  BY <1>1
<1>4. snapshots'[Len(snapshots) + 1] = Snapshot(obs, ts, c)
  BY <1>1, <1>2
<1>5. /\ Snapshot(obs, ts, c).at = ts
      /\ Snapshot(obs, ts, c).digest = Digest(obs)
      /\ Snapshot(obs, ts, c).complete = obs.complete
  BY DEF Snapshot
<1> QED
  BY <1>1, <1>2, <1>3, <1>4, <1>5 DEF SnapshotRow

\* The gate compares with the last complete sweep there is.
LEMMA LatestIsLast ==
  ASSUME TypeOK, SnapshotsInOrder, NEW i \in DOMAIN snapshots, IsLatestComplete(i)
  PROVE  LastComplete(i)
<1>1. snapshots \in Seq(SnapshotRow)
  BY DEF TypeOK
<1>2. DOMAIN snapshots \subseteq Nat
  BY <1>1
<1>3. \A j \in DOMAIN snapshots : snapshots[j].at \in Nat
  <2>1. \A j \in DOMAIN snapshots : snapshots[j] \in SnapshotRow
    BY <1>1
  <2> QED
    BY <2>1, NatTyped DEF SnapshotRow
<1>4. ASSUME NEW j \in DOMAIN snapshots, snapshots[j].complete
      PROVE  j <= i
  BY <1>2, <1>3, <1>4 DEF IsLatestComplete, SnapshotsInOrder
<1> QED
  BY <1>4 DEF LastComplete, IsLatestComplete

\* So a sweep it passes over has the digest the open rows were written from.
LEMMA UnchangedIsLast ==
  ASSUME TypeOK, SnapshotsInOrder, NEW obs, ~ IsChanged(obs)
  PROVE  \E i \in DOMAIN snapshots : LastComplete(i) /\ snapshots[i].digest = Digest(obs)
  BY LatestIsLast DEF IsChanged

\* Recording a snapshot at a later instant keeps the snapshots in order.
LEMMA OrderKept ==
  ASSUME TypeOK, SnapshotsInOrder, NEW obs \in Observations, NEW ts \in Instants,
         NEW c \in BOOLEAN, clock < ts, clock' = ts,
         snapshots' = Append(snapshots, Snapshot(obs, ts, c))
  PROVE  SnapshotsInOrder'
<1> DEFINE n == Len(snapshots)
<1>1. /\ n \in Nat /\ DOMAIN snapshots = 1 .. n /\ DOMAIN snapshots' = 1 .. n + 1
      /\ \A i \in 1 .. n : snapshots'[i] = snapshots[i] /\ snapshots[i].at \in Instants
      /\ snapshots'[n + 1].at = ts
  BY Recorded
<1>2. Instants \subseteq Nat /\ clock \in Nat /\ ts \in Nat
  BY NatTyped
<1>3. \A i \in 1 .. n : snapshots[i].at <= clock /\ snapshots[i].at \in Nat
  BY <1>1, <1>2 DEF SnapshotsInOrder
<1> HIDE DEF n
<1>4. ASSUME NEW i \in 1 .. n + 1
      PROVE  snapshots'[i].at <= ts /\ (i # n + 1 => i \in 1 .. n)
  <2>1. CASE i = n + 1
    BY <1>1, <1>2, <2>1
  <2>2. CASE i # n + 1
    BY <1>1, <1>2, <1>3, <2>2
  <2> QED
    BY <2>1, <2>2
<1>5. ASSUME NEW i \in 1 .. n + 1, NEW j \in 1 .. n + 1, i < j
      PROVE  snapshots'[i].at <= snapshots'[j].at
  <2>1. i \in 1 .. n
    BY <1>1, <1>5
  <2>2. CASE j = n + 1
    BY <1>1, <1>4, <2>2
  <2>3. CASE j # n + 1
    BY <1>1, <1>4, <1>5, <2>1, <2>3 DEF SnapshotsInOrder
  <2> QED
    BY <2>2, <2>3
<1> QED
  BY <1>1, <1>4, <1>5 DEF SnapshotsInOrder

\* Which snapshot is the last complete one, after recording another.
LEMMA LastRecorded ==
  ASSUME TypeOK, NEW obs \in Observations, NEW ts \in Instants, NEW c \in BOOLEAN,
         snapshots' = Append(snapshots, Snapshot(obs, ts, c)),
         NEW i \in DOMAIN snapshots', LastComplete(i)'
  PROVE  \/ obs.complete /\ snapshots'[i].digest = Digest(obs)
         \/ /\ ~ obs.complete /\ i \in DOMAIN snapshots /\ LastComplete(i)
            /\ snapshots'[i] = snapshots[i]
<1> DEFINE n == Len(snapshots)
<1>1. /\ n \in Nat /\ DOMAIN snapshots = 1 .. n /\ DOMAIN snapshots' = 1 .. n + 1
      /\ \A j \in 1 .. n : snapshots'[j] = snapshots[j]
      /\ snapshots'[n + 1].digest = Digest(obs)
      /\ snapshots'[n + 1].complete = obs.complete
  BY Recorded
<1>2. snapshots'[i].complete /\ \A j \in DOMAIN snapshots' : snapshots'[j].complete => j <= i
  BY DEF LastComplete
<1>3. CASE obs.complete
  <2>1. n + 1 \in DOMAIN snapshots' /\ i \in 1 .. n + 1
    BY <1>1
  <2>2. snapshots'[n + 1].complete
    BY <1>1, <1>3
  <2>3. n + 1 <= i
    BY <1>2, <2>1, <2>2
  <2>4. i = n + 1
    BY <1>1, <2>1, <2>3
  <2> QED
    BY <1>1, <1>3, <2>4
<1>4. CASE ~ obs.complete
  <2>1. i \in 1 .. n
    BY <1>1, <1>2, <1>4
  <2>2. LastComplete(i)
    BY <1>1, <1>2, <2>1 DEF LastComplete
  <2> QED
    BY <1>1, <1>4, <2>1, <2>2
<1> QED
  BY <1>3, <1>4

\* A changed sweep leaves open rows that hold what it called for.
LEMMA ChangedCurrent ==
  ASSUME TypeOK, NEW obs \in Observations, NEW ts \in Instants, RecordChanged(obs, ts)
  PROVE  /\ {<<r.key, r.val>> : r \in Current(nodeState')}
              = {<<g, WantedNodes(obs)[g]>> : g \in DOMAIN obs.nodes}
         /\ {<<r.key, r.val>> : r \in Current(portState')}
              = {<<p, obs.ports[p]>> : p \in DOMAIN obs.ports}
         /\ {<<r.key, r.val>> : r \in Current(linkState')}
              = {<<l, "cabled">> : l \in obs.links}
<1>1. ts \in Nat
  BY NatTyped
<1>2. /\ nodeState' = Diffed(nodeState, WantedNodes(obs), ts)
      /\ portState' = Diffed(portState, WantedPorts(obs), ts)
      /\ linkState' = Diffed(linkState, WantedLinks(obs), ts)
  BY DEF RecordChanged
<1>3. {<<r.key, r.val>> : r \in Current(nodeState')}
         = {<<g, WantedNodes(obs)[g]>> : g \in DOMAIN WantedNodes(obs)}
  BY <1>1, <1>2, NatTyped, DiffedCurrent
<1>4. {<<r.key, r.val>> : r \in Current(portState')}
         = {<<p, WantedPorts(obs)[p]>> : p \in DOMAIN WantedPorts(obs)}
  BY <1>1, <1>2, NatTyped, DiffedCurrent
<1>5. {<<r.key, r.val>> : r \in Current(linkState')}
         = {<<l, WantedLinks(obs)[l]>> : l \in DOMAIN WantedLinks(obs)}
  BY <1>1, <1>2, NatTyped, DiffedCurrent
<1>6. DOMAIN WantedNodes(obs) = DOMAIN obs.nodes /\ DOMAIN WantedLinks(obs) = obs.links
  BY DEF WantedNodes, WantedLinks
<1>7. \A l \in obs.links : WantedLinks(obs)[l] = "cabled"
  BY DEF WantedLinks
<1> QED
  BY <1>3, <1>4, <1>5, <1>6, <1>7 DEF WantedPorts

\* A changed sweep that no partial reading can be taken for writes the SM states
\* of every sweep with its digest that none can be taken for either.
LEMMA ChangedSm ==
  ASSUME TypeOK, NEW obs \in Observations, NEW ts \in Instants, RecordChanged(obs, ts),
         NEW o \in Observations, o.complete, Digest(o) = Digest(obs), ~ Blurred(o)
  PROVE  \A r \in Current(nodeState') : r.val.sm = o.nodes[r.key].sm
<1>1. obs.complete /\ obs.nodes = o.nodes
  BY DEF RecordChanged, Digest
<1>2. obs.smSeen
  BY <1>1 DEF Blurred
<1>3. \A g \in DOMAIN obs.nodes : WantedNodes(obs)[g].sm = obs.nodes[g].sm
  BY <1>2 DEF WantedNodes, WantedSm
<1>4. ASSUME NEW r \in Current(nodeState')
      PROVE  r.val.sm = o.nodes[r.key].sm
  <2>1. <<r.key, r.val>> \in {<<g, WantedNodes(obs)[g]>> : g \in DOMAIN obs.nodes}
    BY ChangedCurrent
  <2>2. r.key \in DOMAIN obs.nodes /\ r.val = WantedNodes(obs)[r.key]
    BY <2>1
  <2> QED
    BY <1>1, <1>3, <2>2
<1> QED
  BY <1>4

\* A changed sweep leaves open rows that show its names, ports and cables.
LEMMA ChangedFollows ==
  ASSUME TypeOK, NEW obs \in Observations, NEW ts \in Instants, RecordChanged(obs, ts)
  PROVE  /\ {<<r.key, r.val.desc>> : r \in Current(nodeState')}
              = {<<g, obs.nodes[g].desc>> : g \in DOMAIN obs.nodes}
         /\ {<<r.key, r.val>> : r \in Current(portState')}
              = {<<p, obs.ports[p]>> : p \in DOMAIN obs.ports}
         /\ CurrentKeys(linkState') = obs.links
<1>1. \A g \in DOMAIN obs.nodes : WantedNodes(obs)[g].desc = obs.nodes[g].desc
  BY DEF WantedNodes
<1>2. ASSUME NEW r \in Current(nodeState')
      PROVE  r.key \in DOMAIN obs.nodes /\ r.val.desc = obs.nodes[r.key].desc
  <2>1. <<r.key, r.val>> \in {<<g, WantedNodes(obs)[g]>> : g \in DOMAIN obs.nodes}
    BY ChangedCurrent
  <2> QED
    BY <1>1, <2>1
<1>3. ASSUME NEW g \in DOMAIN obs.nodes
      PROVE  \E r \in Current(nodeState') : r.key = g /\ r.val.desc = obs.nodes[g].desc
  <2>1. <<g, WantedNodes(obs)[g]>> \in {<<r.key, r.val>> : r \in Current(nodeState')}
    BY ChangedCurrent
  <2> QED
    BY <1>1, <2>1
<1>4. {<<r.key, r.val.desc>> : r \in Current(nodeState')}
         = {<<g, obs.nodes[g].desc>> : g \in DOMAIN obs.nodes}
  BY <1>2, <1>3
<1>5. ASSUME NEW r \in Current(linkState')
      PROVE  r.key \in obs.links
  <2>1. <<r.key, r.val>> \in {<<l, "cabled">> : l \in obs.links}
    BY ChangedCurrent
  <2> QED
    BY <2>1
<1>6. ASSUME NEW l \in obs.links
      PROVE  \E r \in Current(linkState') : r.key = l
  <2>1. <<l, "cabled">> \in {<<r.key, r.val>> : r \in Current(linkState')}
    BY ChangedCurrent
  <2> QED
    BY <2>1
<1>7. CurrentKeys(linkState') = obs.links
  BY <1>5, <1>6 DEF CurrentKeys
<1> QED
  BY <1>4, <1>7, ChangedCurrent

\* Dates, order and constraints survive every write.
LEMMA WriteLawful ==
  ASSUME IInv, NEW obs \in Observations, NEW ts \in Instants, clock < ts, Write(obs, ts)
  PROVE  AllDated' /\ SnapshotsInOrder' /\ TablesLawful'
<1>1. clock' = ts
  BY DEF Write, RecordIncomplete, RecordUnchanged, RecordChanged, RollBack, Handled
<1>2. TypeOK /\ AllDated /\ SnapshotsInOrder /\ TablesLawful
  BY DEF IInv
<1>3. clock \in Nat /\ ts \in Nat
  BY <1>2, NatTyped
<1>4. SnapshotsInOrder'
  <2>1. CASE RecordIncomplete(obs, ts)
    BY <1>1, <1>2, <2>1, OrderKept DEF RecordIncomplete
  <2>2. CASE RecordUnchanged(obs, ts)
    BY <1>1, <1>2, <2>2, OrderKept DEF RecordUnchanged
  <2>3. CASE RecordChanged(obs, ts)
    BY <1>1, <1>2, <2>3, OrderKept DEF RecordChanged
  <2>4. CASE RollBack(obs, ts)
    <3>1. snapshots' = snapshots
      BY <2>4 DEF RollBack, tables
    <3>2. \A i \in DOMAIN snapshots : snapshots[i].at \in Nat /\ snapshots[i].at <= clock
      <4>1. \A i \in DOMAIN snapshots : snapshots[i] \in SnapshotRow
        <5>1. snapshots \in Seq(SnapshotRow)
          BY <1>2 DEF TypeOK
        <5> QED
          BY <5>1
      <4> QED
        BY <1>2, <4>1, NatTyped DEF SnapshotRow, SnapshotsInOrder
    <3> QED
      BY <1>1, <1>2, <1>3, <3>1, <3>2 DEF SnapshotsInOrder
  <2> QED
    BY <2>1, <2>2, <2>3, <2>4 DEF Write
<1>5. CASE UNCHANGED <<nodeState, portState, linkState>>
  <2>1. ASSUME NEW Key, NEW Val, NEW T, T \subseteq Rows(Key, Val, Nat), Dated(T, clock)
        PROVE  Dated(T, ts)
    BY <1>3, <2>1 DEF Dated, Rows
  <2>2. Dated(nodeState, ts) /\ Dated(portState, ts) /\ Dated(linkState, ts)
    BY <1>2, <2>1, NatTyped DEF AllDated
  <2> QED
    BY <1>1, <1>2, <1>4, <1>5, <2>2 DEF AllDated, TablesLawful
<1>6. CASE RecordChanged(obs, ts)
  <2>1. Dated(nodeState', ts) /\ Dated(portState', ts) /\ Dated(linkState', ts)
    BY <1>2, <1>3, <1>6, NatTyped, DiffedDated DEF AllDated, RecordChanged
  <2>2. Lawful(nodeState') /\ Lawful(portState') /\ LawfulLinks(linkState')
    BY <1>6 DEF RecordChanged, Accepted, LinkStages
  <2> QED
    BY <1>1, <1>4, <2>1, <2>2 DEF AllDated, TablesLawful
<1> QED
  BY <1>5, <1>6 DEF Write, RecordIncomplete, RecordUnchanged, RollBack, tables

\* The open rows go on following the last complete sweep.
LEMMA WriteFollows ==
  ASSUME IInv, NEW obs \in Observations, NEW ts \in Instants, Write(obs, ts)
  PROVE  StateFollowsSweep' /\ SmRemembered'
<1>1. TypeOK /\ SnapshotsInOrder /\ StateFollowsSweep /\ SmRemembered
  BY DEF IInv
<1> DEFINE Follows(read, ns, ps, ls) ==
             /\ {<<r.key, r.val.desc>> : r \in Current(ns)}
                  = {<<g, read.nodes[g].desc>> : g \in DOMAIN read.nodes}
             /\ {<<r.key, r.val>> : r \in Current(ps)}
                  = {<<p, read.ports[p]>> : p \in DOMAIN read.ports}
             /\ CurrentKeys(ls) = read.links
           Remembers(read, ns) ==
             \A o \in Observations :
               o.complete /\ Digest(o) = read /\ ~ Blurred(o) =>
                 \A r \in Current(ns) : r.val.sm = o.nodes[r.key].sm
<1>2. \A i \in DOMAIN snapshots : LastComplete(i) =>
        /\ Follows(snapshots[i].digest, nodeState, portState, linkState)
        /\ Remembers(snapshots[i].digest, nodeState)
  BY <1>1 DEF StateFollowsSweep, SmRemembered, LastComplete
<1>3. ASSUME \A i \in DOMAIN snapshots' : LastComplete(i)' =>
               /\ Follows(snapshots'[i].digest, nodeState', portState', linkState')
               /\ Remembers(snapshots'[i].digest, nodeState')
      PROVE  StateFollowsSweep' /\ SmRemembered'
  BY <1>3 DEF StateFollowsSweep, SmRemembered, LastComplete, Blurred, CurrentKeys, Current
<1> HIDE DEF Follows, Remembers
<1>4. CASE RecordIncomplete(obs, ts)
  <2>1. ASSUME NEW i \in DOMAIN snapshots', LastComplete(i)'
        PROVE  i \in DOMAIN snapshots /\ LastComplete(i) /\ snapshots'[i] = snapshots[i]
    BY <1>1, <1>4, <2>1, LastRecorded DEF RecordIncomplete
  <2> QED
    BY <1>2, <1>3, <1>4, <2>1 DEF RecordIncomplete
<1>5. CASE RecordUnchanged(obs, ts)
  <2>1. PICK i \in DOMAIN snapshots : LastComplete(i) /\ snapshots[i].digest = Digest(obs)
    BY <1>1, <1>5, UnchangedIsLast DEF RecordUnchanged
  <2>2. ASSUME NEW j \in DOMAIN snapshots', LastComplete(j)'
        PROVE  snapshots'[j].digest = Digest(obs)
    BY <1>1, <1>5, <2>2, LastRecorded DEF RecordUnchanged
  <2> QED
    BY <1>2, <1>3, <1>5, <2>1, <2>2 DEF RecordUnchanged
<1>6. CASE RecordChanged(obs, ts)
  <2>1. ASSUME NEW j \in DOMAIN snapshots', LastComplete(j)'
        PROVE  snapshots'[j].digest = Digest(obs)
    BY <1>1, <1>6, <2>1, LastRecorded DEF RecordChanged
  <2>2. Follows(Digest(obs), nodeState', portState', linkState')
    BY <1>1, <1>6, ChangedFollows DEF Follows, Digest
  <2>3. Remembers(Digest(obs), nodeState')
    BY <1>1, <1>6, ChangedSm DEF Remembers
  <2> QED
    BY <1>3, <2>1, <2>2, <2>3
<1>7. CASE RollBack(obs, ts)
  <2>1. UNCHANGED <<snapshots, nodeState, portState, linkState>>
    BY <1>7 DEF RollBack, tables
  <2>2. \A i \in DOMAIN snapshots' : LastComplete(i)' => LastComplete(i)
    BY <2>1 DEF LastComplete
  <2> QED
    BY <1>2, <1>3, <2>1, <2>2
<1> QED
  BY <1>4, <1>5, <1>6, <1>7 DEF Write

\* What was just handed over is in the open rows, or was refused for a cause.
LEMMA WriteHandled ==
  ASSUME IInv, NEW obs \in Observations, NEW ts \in Instants, clock < ts, Write(obs, ts)
  PROVE  SmFollowsSweep' /\ OnlyBadCablingRollsBack'
<1>1. TypeOK /\ AllDated /\ TablesLawful /\ SnapshotsInOrder /\ SmRemembered
  BY DEF IInv
<1>2. handed' = obs
  BY DEF Write, RecordIncomplete, RecordUnchanged, RecordChanged, RollBack, Handled
<1>3. Blurred(handed)' <=> Blurred(obs)
  BY <1>2 DEF Blurred
<1>4. CASE RecordIncomplete(obs, ts)
  BY <1>2, <1>4 DEF RecordIncomplete, Handled, SmFollowsSweep, OnlyBadCablingRollsBack
<1>5. CASE RecordUnchanged(obs, ts)
  <2>1. PICK i \in DOMAIN snapshots : LastComplete(i) /\ snapshots[i].digest = Digest(obs)
    BY <1>1, <1>5, UnchangedIsLast DEF RecordUnchanged
  <2>2. ~ Blurred(obs) => \A r \in Current(nodeState) : r.val.sm = obs.nodes[r.key].sm
    BY <1>1, <1>5, <2>1 DEF SmRemembered, RecordUnchanged
  <2>3. nodeState' = nodeState /\ outcome' = "committed"
    BY <1>5 DEF RecordUnchanged, Handled
  <2> QED
    BY <1>2, <1>3, <2>2, <2>3 DEF SmFollowsSweep, OnlyBadCablingRollsBack, Current
<1>6. CASE RecordChanged(obs, ts)
  <2>1. ~ Blurred(obs) => \A r \in Current(nodeState') : r.val.sm = obs.nodes[r.key].sm
    BY <1>1, <1>6, ChangedSm DEF RecordChanged
  <2>2. outcome' = "committed"
    BY <1>6 DEF RecordChanged, Handled
  <2> QED
    BY <1>2, <1>3, <2>1, <2>2 DEF SmFollowsSweep, OnlyBadCablingRollsBack, Current
<1>7. CASE RollBack(obs, ts)
  <2>1. ~ SoundCabling(obs)
    BY <1>1, <1>7, SoundAccepted DEF RollBack
  <2>2. outcome' = "rolled back"
    BY <1>7 DEF RollBack, Handled
  <2> QED
    BY <1>2, <2>1, <2>2 DEF SmFollowsSweep, OnlyBadCablingRollsBack, SoundCabling
<1> QED
  BY <1>4, <1>5, <1>6, <1>7 DEF Write

\* A clock that does not slip reads later at every write.
LEMMA ClockMovesOn ==
  ASSUME ~ ClockMaySlip, NEW obs \in Observations, NEW ts \in Instants, Write(obs, ts),
         TypeOK
  PROVE  clock < ts
<1>1. ts > clock
  BY DEF Write, RecordIncomplete, RecordUnchanged, RecordChanged, RollBack, ClockReads
<1> QED
  BY <1>1, NatTyped

\* The invariant the tables keep while the clock does not slip.
LEMMA TablesInvariant ==
  ASSUME ~ ClockMaySlip
  PROVE  Spec => [](IInv /\ SmFollowsSweep /\ OnlyBadCablingRollsBack)
<1> DEFINE J == IInv /\ SmFollowsSweep /\ OnlyBadCablingRollsBack
<1>1. Init => J
  <2> SUFFICES ASSUME Init PROVE J
    OBVIOUS
  <2>1. TypeOK
    BY WriterAssumption DEF Init, TypeOK, Instants
  <2>2. /\ DOMAIN snapshots = {}
        /\ nodeState = {} /\ portState = {} /\ linkState = {}
        /\ outcome = "none"
    BY DEF Init
  <2>3. AllDated /\ SnapshotsInOrder /\ StateFollowsSweep /\ SmRemembered
    BY <2>2 DEF AllDated, Dated, SnapshotsInOrder, StateFollowsSweep, SmRemembered
  <2>4. TablesLawful
    BY <2>2 DEF TablesLawful, Lawful, LawfulLinks, Ordered, NoOverlap, OneCablePerPort
  <2> QED
    BY <2>1, <2>2, <2>3, <2>4 DEF IInv, SmFollowsSweep, OnlyBadCablingRollsBack
<1>2. J /\ [Next]_vars => J'
  <2> SUFFICES ASSUME J, [Next]_vars PROVE J'
    OBVIOUS
  <2>1. ASSUME NEW obs \in Observations, NEW ts \in Instants, Write(obs, ts)
        PROVE  J'
    <3>1. TypeOK
      BY DEF IInv
    <3>2. clock < ts
      BY <2>1, <3>1, ClockMovesOn
    <3>3. TypeOK'
      BY <2>1, <3>1, WriteType
    <3>4. AllDated' /\ SnapshotsInOrder' /\ TablesLawful'
      BY <2>1, <3>2, WriteLawful
    <3>5. StateFollowsSweep' /\ SmRemembered'
      BY <2>1, WriteFollows
    <3>6. SmFollowsSweep' /\ OnlyBadCablingRollsBack'
      BY <2>1, <3>2, WriteHandled
    <3> QED
      BY <3>3, <3>4, <3>5, <3>6 DEF IInv
  <2>2. CASE UNCHANGED vars
    <3>1. UNCHANGED <<snapshots, nodeState, portState, linkState, events, clock, handed, outcome>>
      BY <2>2 DEF vars, tables
    <3>2. TypeOK' /\ AllDated' /\ SnapshotsInOrder' /\ TablesLawful'
      BY <3>1 DEF IInv, TypeOK, AllDated, SnapshotsInOrder, TablesLawful
    <3>3. StateFollowsSweep'
      BY <3>1 DEF IInv, StateFollowsSweep
    <3>4. SmRemembered'
      BY <3>1 DEF IInv, SmRemembered, LastComplete
    <3>5. SmFollowsSweep' /\ OnlyBadCablingRollsBack'
      BY <3>1 DEF SmFollowsSweep, OnlyBadCablingRollsBack, Blurred
    <3> QED
      BY <3>2, <3>3, <3>4, <3>5 DEF IInv
  <2> QED
    BY <2>1, <2>2 DEF Next, AtBound
<1> QED
  BY <1>1, <1>2, PTL DEF Spec

\* While the collector's clock does not step back, the open rows are what the
\* last complete sweep read, SM states included, and the database refuses a
\* sweep only for cabling that no hardware can have: the change gate skips no
\* diff that had something to write, and the order in which a diff writes its
\* rows never makes a constraint fail.
THEOREM TablesFollow ==
  ASSUME ~ ClockMaySlip
  PROVE  Spec => []TablesFollowSweep
<1>1. IInv /\ SmFollowsSweep /\ OnlyBadCablingRollsBack => TablesFollowSweep
  BY DEF IInv, TablesFollowSweep
<1> QED
  BY <1>1, TablesInvariant, PTL

-----------------------------------------------------------------------------
(* The event feed.                                                         *)

\* The events of the turns between two values that S relates.
TurnEventsOn(type, T, S) ==
  {Event(type, x[1], x[2]) : x \in {y \in TurnPoints(T) : <<y[3], y[4]>> \in S}}

\* The same events, from the turns themselves.
LEMMA TurnsAsPoints ==
  ASSUME NEW T, NEW S, NEW P, NEW type, P \subseteq Turns(T),
         \A qr \in Turns(T) : qr \in P <=> <<qr[1].val, qr[2].val>> \in S
  PROVE  TurnEvents(type, P) = TurnEventsOn(type, T, S)
<1> DEFINE point(qr) == <<qr[1].key, qr[2].from, qr[1].val, qr[2].val>>
<1>1. \A qr \in Turns(T) : point(qr) \in TurnPoints(T) /\ qr[1].key = qr[2].key
  BY DEF TurnPoints, Turns
<1>2. ASSUME NEW qr \in P
      PROVE  Event(type, qr[2].key, qr[2].from) \in TurnEventsOn(type, T, S)
  <2>1. point(qr) \in TurnPoints(T) /\ <<point(qr)[3], point(qr)[4]>> \in S
    BY <1>1
  <2>2. Event(type, point(qr)[1], point(qr)[2]) = Event(type, qr[2].key, qr[2].from)
    BY <1>1
  <2> HIDE DEF point
  <2> QED
    BY <2>1, <2>2 DEF TurnEventsOn
<1>3. ASSUME NEW y \in TurnPoints(T), <<y[3], y[4]>> \in S
      PROVE  Event(type, y[1], y[2]) \in TurnEvents(type, P)
  <2>1. PICK qr \in Turns(T) : y = point(qr)
    BY DEF TurnPoints
  <2>2. qr \in P
    BY <1>3, <2>1
  <2>3. Event(type, y[1], y[2]) = Event(type, qr[2].key, qr[2].from)
    BY <1>1, <2>1
  <2> QED
    BY <2>2, <2>3 DEF TurnEvents
<1> QED
  BY <1>2, <1>3 DEF TurnEvents, TurnEventsOn

\* S relates no value to itself.
NotReflexive(S) == \A v : <<v, v>> \notin S

\* A later diff adds such an event exactly for the keys it keeps whose two
\* values S relates.
LEMMA DiffedTurnEvents ==
  ASSUME NEW Key, NEW Val, NEW T, NEW want, NEW now, NEW ts, Ahead(T, Key, Val, now, ts),
         NEW type, NEW S, NotReflexive(S)
  PROVE  TurnEventsOn(type, Diffed(T, want, ts), S)
           = TurnEventsOn(type, T, S)
             \cup EventsFor(type, {k \in Kept(T, want) : <<CurrentVal(T, k), want[k]>> \in S}, ts)
<1> DEFINE P == TurnPoints(T)
           Q == {<<k, ts, CurrentVal(T, k), want[k]>> : k \in Replaced(T, want)}
<1>1. TurnPoints(Diffed(T, want, ts)) = P \cup Q
  BY DiffedTurns
<1>2. TurnEventsOn(type, Diffed(T, want, ts), S)
        = TurnEventsOn(type, T, S)
          \cup {Event(type, x[1], x[2]) : x \in {y \in Q : <<y[3], y[4]>> \in S}}
  BY <1>1 DEF TurnEventsOn
<1>3. {Event(type, x[1], x[2]) : x \in {y \in Q : <<y[3], y[4]>> \in S}}
        = EventsFor(type, {k \in Kept(T, want) : <<CurrentVal(T, k), want[k]>> \in S}, ts)
  <2>1. ASSUME NEW k \in Kept(T, want), <<CurrentVal(T, k), want[k]>> \in S
        PROVE  <<k, ts, CurrentVal(T, k), want[k]>> \in Q
    BY <2>1 DEF Replaced, NotReflexive
  <2>2. \A k \in Replaced(T, want) : k \in Kept(T, want)
    BY DEF Replaced
  <2>3. ASSUME NEW y \in Q, <<y[3], y[4]>> \in S
        PROVE  \E k \in Kept(T, want) : /\ <<CurrentVal(T, k), want[k]>> \in S
                                        /\ y[1] = k /\ y[2] = ts
    BY <2>2, <2>3
  <2> QED
    BY <2>1, <2>3 DEF EventsFor
<1> QED
  BY <1>2, <1>3

\* The events of a node diff are what its rows tell anew.
LEMMA NodesTell ==
  ASSUME NEW T, T \subseteq Rows(Guid, NodeVal, Nat), T = nodeState, NEW want,
         \A k \in DOMAIN want : k \in Guid /\ want[k] \in NodeVal,
         NEW now \in Nat, NEW ts \in Nat, now < ts, Dated(T, now), Lawful(T)
  PROVE  NodesTold(Diffed(T, want, ts)) = NodesTold(T) \cup NodeEvents(want, ts)
<1> DEFINE D == Diffed(T, want, ts)
           Names == {x \in NodeVal \X NodeVal : x[1].desc # x[2].desc}
           Sms   == {x \in NodeVal \X NodeVal : x[1].sm # x[2].sm}
<1>0. Ahead(T, Guid, NodeVal, now, ts)
  BY DEF Ahead
<1>1. D \subseteq Rows(Guid, NodeVal, Nat)
  BY DiffedType
<1>2. ASSUME NEW X, X \subseteq Rows(Guid, NodeVal, Nat)
      PROVE  /\ TurnEvents("node_renamed", {qr \in Turns(X) : qr[1].val.desc # qr[2].val.desc})
                  = TurnEventsOn("node_renamed", X, Names)
             /\ TurnEvents("sm_failover", {qr \in Turns(X) : qr[1].val.sm # qr[2].val.sm})
                  = TurnEventsOn("sm_failover", X, Sms)
  <2>1. \A x \in Turns(X) : /\ x[1].val \in NodeVal /\ x[2].val \in NodeVal
                            /\ x[1].key = x[2].key
    BY <1>2 DEF Turns, Rows
  <2>2. TurnEvents("node_renamed", {qr \in Turns(X) : qr[1].val.desc # qr[2].val.desc})
          = TurnEventsOn("node_renamed", X, Names)
    <3> DEFINE P == {qr \in Turns(X) : qr[1].val.desc # qr[2].val.desc}
    <3>1. \A qr \in Turns(X) : qr \in P <=> <<qr[1].val, qr[2].val>> \in Names
      BY <2>1
    <3> HIDE DEF Names
    <3> QED
      BY <3>1, TurnsAsPoints
  <2>3. TurnEvents("sm_failover", {qr \in Turns(X) : qr[1].val.sm # qr[2].val.sm})
          = TurnEventsOn("sm_failover", X, Sms)
    <3> DEFINE P == {qr \in Turns(X) : qr[1].val.sm # qr[2].val.sm}
    <3>1. \A qr \in Turns(X) : qr \in P <=> <<qr[1].val, qr[2].val>> \in Sms
      BY <2>1
    <3> HIDE DEF Sms
    <3> QED
      BY <3>1, TurnsAsPoints
  <2> QED
    BY <2>2, <2>3
<1>3. \A k \in Kept(T, want) : CurrentVal(T, k) \in NodeVal /\ want[k] \in NodeVal
  <2> SUFFICES ASSUME NEW k \in Kept(T, want)
               PROVE  CurrentVal(T, k) \in NodeVal /\ want[k] \in NodeVal
    OBVIOUS
  <2>1. PICK q \in Current(T) : q.key = k
    BY DEF Kept, CurrentKeys
  <2>2. CurrentVal(T, k) = q.val
    BY <2>1, CurrentValue DEF Lawful
  <2> QED
    BY <2>1, <2>2 DEF Kept, Current, Rows
<1>4. TurnEventsOn("node_renamed", D, Names)
        = TurnEventsOn("node_renamed", T, Names)
          \cup EventsFor("node_renamed",
                         {k \in Kept(T, want) : CurrentVal(T, k).desc # want[k].desc}, ts)
  <2>1. NotReflexive(Names)
    BY DEF NotReflexive
  <2>2. {k \in Kept(T, want) : <<CurrentVal(T, k), want[k]>> \in Names}
          = {k \in Kept(T, want) : CurrentVal(T, k).desc # want[k].desc}
    BY <1>3
  <2> HIDE DEF Names
  <2>3. TurnEventsOn("node_renamed", D, Names)
          = TurnEventsOn("node_renamed", T, Names)
            \cup EventsFor("node_renamed",
                           {k \in Kept(T, want) : <<CurrentVal(T, k), want[k]>> \in Names}, ts)
    BY <1>0, <2>1, DiffedTurnEvents
  <2> QED
    BY <2>2, <2>3
<1>5. TurnEventsOn("sm_failover", D, Sms)
        = TurnEventsOn("sm_failover", T, Sms)
          \cup EventsFor("sm_failover",
                         {k \in Kept(T, want) : CurrentVal(T, k).sm # want[k].sm}, ts)
  <2>1. NotReflexive(Sms)
    BY DEF NotReflexive
  <2>2. {k \in Kept(T, want) : <<CurrentVal(T, k), want[k]>> \in Sms}
          = {k \in Kept(T, want) : CurrentVal(T, k).sm # want[k].sm}
    BY <1>3
  <2> HIDE DEF Sms
  <2>3. TurnEventsOn("sm_failover", D, Sms)
          = TurnEventsOn("sm_failover", T, Sms)
            \cup EventsFor("sm_failover",
                           {k \in Kept(T, want) : <<CurrentVal(T, k), want[k]>> \in Sms}, ts)
    BY <1>0, <2>1, DiffedTurnEvents
  <2> QED
    BY <2>2, <2>3
<1>6. StartEvents("node_added", D)
        = StartEvents("node_added", T)
          \cup EventsFor("node_added", Appeared(T, want), ts)
  BY <1>0, DiffedStarts
<1>7. EndEvents("node_removed", D)
        = EndEvents("node_removed", T)
          \cup EventsFor("node_removed", Vanished(T, want), ts)
  BY <1>0, DiffedEnds
<1>8. NodeEvents(want, ts)
        = EventsFor("node_added", Appeared(T, want), ts)
          \cup EventsFor("node_removed", Vanished(T, want), ts)
          \cup EventsFor("node_renamed",
                         {k \in Kept(T, want) : CurrentVal(T, k).desc # want[k].desc}, ts)
          \cup EventsFor("sm_failover",
                         {k \in Kept(T, want) : CurrentVal(T, k).sm # want[k].sm}, ts)
  BY DEF NodeEvents
<1>9. NodesTold(D) = StartEvents("node_added", D)
        \cup EndEvents("node_removed", D)
        \cup TurnEventsOn("node_renamed", D, Names)
        \cup TurnEventsOn("sm_failover", D, Sms)
  BY <1>1, <1>2 DEF NodesTold
<1>10. NodesTold(T) = StartEvents("node_added", T)
        \cup EndEvents("node_removed", T)
        \cup TurnEventsOn("node_renamed", T, Names)
        \cup TurnEventsOn("sm_failover", T, Sms)
  BY <1>2 DEF NodesTold
<1> HIDE DEF D, Names, Sms
<1> QED
  BY <1>4, <1>5, <1>6, <1>7, <1>8, <1>9, <1>10 DEF D

\* The events of a port diff are what its rows tell anew.
LEMMA PortsTell ==
  ASSUME NEW T, T \subseteq Rows(Port, PortVal, Nat), T = portState, NEW want,
         \A k \in DOMAIN want : k \in Port /\ want[k] \in PortVal,
         NEW now \in Nat, NEW ts \in Nat, now < ts, Dated(T, now), Lawful(T)
  PROVE  PortsTold(Diffed(T, want, ts)) = PortsTold(T) \cup PortEvents(want, ts)
<1> DEFINE D == Diffed(T, want, ts)
           Speeds == {x \in PortVal \X PortVal : x[1].speed # x[2].speed}
           Widths == {x \in PortVal \X PortVal : x[1].width # x[2].width}
           States == {x \in PortVal \X PortVal : x[1].log # x[2].log}
<1>0. Ahead(T, Port, PortVal, now, ts)
  BY DEF Ahead
<1>1. D \subseteq Rows(Port, PortVal, Nat)
  BY DiffedType
<1>2. ASSUME NEW X, X \subseteq Rows(Port, PortVal, Nat)
      PROVE  /\ TurnEvents("speed_changed", {qr \in Turns(X) : qr[1].val.speed # qr[2].val.speed})
                  = TurnEventsOn("speed_changed", X, Speeds)
             /\ TurnEvents("width_changed", {qr \in Turns(X) : qr[1].val.width # qr[2].val.width})
                  = TurnEventsOn("width_changed", X, Widths)
             /\ TurnEvents("port_state_changed", {qr \in Turns(X) : qr[1].val.log # qr[2].val.log})
                  = TurnEventsOn("port_state_changed", X, States)
  <2>1. \A x \in Turns(X) : /\ x[1].val \in PortVal /\ x[2].val \in PortVal
                            /\ x[1].key = x[2].key
    BY <1>2 DEF Turns, Rows
  <2>2. TurnEvents("speed_changed", {qr \in Turns(X) : qr[1].val.speed # qr[2].val.speed})
          = TurnEventsOn("speed_changed", X, Speeds)
    <3> DEFINE P == {qr \in Turns(X) : qr[1].val.speed # qr[2].val.speed}
    <3>1. \A qr \in Turns(X) : qr \in P <=> <<qr[1].val, qr[2].val>> \in Speeds
      BY <2>1
    <3> HIDE DEF Speeds
    <3> QED
      BY <3>1, TurnsAsPoints
  <2>3. TurnEvents("width_changed", {qr \in Turns(X) : qr[1].val.width # qr[2].val.width})
          = TurnEventsOn("width_changed", X, Widths)
    <3> DEFINE P == {qr \in Turns(X) : qr[1].val.width # qr[2].val.width}
    <3>1. \A qr \in Turns(X) : qr \in P <=> <<qr[1].val, qr[2].val>> \in Widths
      BY <2>1
    <3> HIDE DEF Widths
    <3> QED
      BY <3>1, TurnsAsPoints
  <2>4. TurnEvents("port_state_changed", {qr \in Turns(X) : qr[1].val.log # qr[2].val.log})
          = TurnEventsOn("port_state_changed", X, States)
    <3> DEFINE P == {qr \in Turns(X) : qr[1].val.log # qr[2].val.log}
    <3>1. \A qr \in Turns(X) : qr \in P <=> <<qr[1].val, qr[2].val>> \in States
      BY <2>1
    <3> HIDE DEF States
    <3> QED
      BY <3>1, TurnsAsPoints
  <2> QED
    BY <2>2, <2>3, <2>4
<1>3. \A k \in Kept(T, want) : CurrentVal(T, k) \in PortVal /\ want[k] \in PortVal
  <2> SUFFICES ASSUME NEW k \in Kept(T, want)
               PROVE  CurrentVal(T, k) \in PortVal /\ want[k] \in PortVal
    OBVIOUS
  <2>1. PICK q \in Current(T) : q.key = k
    BY DEF Kept, CurrentKeys
  <2>2. CurrentVal(T, k) = q.val
    BY <2>1, CurrentValue DEF Lawful
  <2> QED
    BY <2>1, <2>2 DEF Kept, Current, Rows
<1>4. TurnEventsOn("speed_changed", D, Speeds)
        = TurnEventsOn("speed_changed", T, Speeds)
          \cup EventsFor("speed_changed",
                         {k \in Kept(T, want) : CurrentVal(T, k).speed # want[k].speed}, ts)
  <2>1. NotReflexive(Speeds)
    BY DEF NotReflexive
  <2>2. {k \in Kept(T, want) : <<CurrentVal(T, k), want[k]>> \in Speeds}
          = {k \in Kept(T, want) : CurrentVal(T, k).speed # want[k].speed}
    BY <1>3
  <2> HIDE DEF Speeds
  <2>3. TurnEventsOn("speed_changed", D, Speeds)
          = TurnEventsOn("speed_changed", T, Speeds)
            \cup EventsFor("speed_changed",
                           {k \in Kept(T, want) : <<CurrentVal(T, k), want[k]>> \in Speeds}, ts)
    BY <1>0, <2>1, DiffedTurnEvents
  <2> QED
    BY <2>2, <2>3
<1>5. TurnEventsOn("width_changed", D, Widths)
        = TurnEventsOn("width_changed", T, Widths)
          \cup EventsFor("width_changed",
                         {k \in Kept(T, want) : CurrentVal(T, k).width # want[k].width}, ts)
  <2>1. NotReflexive(Widths)
    BY DEF NotReflexive
  <2>2. {k \in Kept(T, want) : <<CurrentVal(T, k), want[k]>> \in Widths}
          = {k \in Kept(T, want) : CurrentVal(T, k).width # want[k].width}
    BY <1>3
  <2> HIDE DEF Widths
  <2>3. TurnEventsOn("width_changed", D, Widths)
          = TurnEventsOn("width_changed", T, Widths)
            \cup EventsFor("width_changed",
                           {k \in Kept(T, want) : <<CurrentVal(T, k), want[k]>> \in Widths}, ts)
    BY <1>0, <2>1, DiffedTurnEvents
  <2> QED
    BY <2>2, <2>3
<1>6. TurnEventsOn("port_state_changed", D, States)
        = TurnEventsOn("port_state_changed", T, States)
          \cup EventsFor("port_state_changed",
                         {k \in Kept(T, want) : CurrentVal(T, k).log # want[k].log}, ts)
  <2>1. NotReflexive(States)
    BY DEF NotReflexive
  <2>2. {k \in Kept(T, want) : <<CurrentVal(T, k), want[k]>> \in States}
          = {k \in Kept(T, want) : CurrentVal(T, k).log # want[k].log}
    BY <1>3
  <2> HIDE DEF States
  <2>3. TurnEventsOn("port_state_changed", D, States)
          = TurnEventsOn("port_state_changed", T, States)
            \cup EventsFor("port_state_changed",
                           {k \in Kept(T, want) : <<CurrentVal(T, k), want[k]>> \in States}, ts)
    BY <1>0, <2>1, DiffedTurnEvents
  <2> QED
    BY <2>2, <2>3
<1>7. StartEvents("port_added", D)
        = StartEvents("port_added", T)
          \cup EventsFor("port_added", Appeared(T, want), ts)
  BY <1>0, DiffedStarts
<1>8. PortEvents(want, ts)
        = EventsFor("port_added", Appeared(T, want), ts)
          \cup EventsFor("speed_changed",
                         {k \in Kept(T, want) : CurrentVal(T, k).speed # want[k].speed}, ts)
          \cup EventsFor("width_changed",
                         {k \in Kept(T, want) : CurrentVal(T, k).width # want[k].width}, ts)
          \cup EventsFor("port_state_changed",
                         {k \in Kept(T, want) : CurrentVal(T, k).log # want[k].log}, ts)
  BY DEF PortEvents
<1>9. PortsTold(D) = StartEvents("port_added", D)
        \cup TurnEventsOn("speed_changed", D, Speeds)
        \cup TurnEventsOn("width_changed", D, Widths)
        \cup TurnEventsOn("port_state_changed", D, States)
  BY <1>1, <1>2 DEF PortsTold
<1>10. PortsTold(T) = StartEvents("port_added", T)
        \cup TurnEventsOn("speed_changed", T, Speeds)
        \cup TurnEventsOn("width_changed", T, Widths)
        \cup TurnEventsOn("port_state_changed", T, States)
  BY <1>2 DEF PortsTold
<1> HIDE DEF D, Speeds, Widths, States
<1> QED
  BY <1>4, <1>5, <1>6, <1>7, <1>8, <1>9, <1>10 DEF D

\* The events of a link diff are what its rows tell anew.
LEMMA LinksTell ==
  ASSUME NEW T, T \subseteq Rows(Link, LinkVal, Nat), T = linkState, NEW want,
         NEW now \in Nat, NEW ts \in Nat, now < ts, Dated(T, now), Lawful(T)
  PROVE  LinksTold(Diffed(T, want, ts)) = LinksTold(T) \cup LinkEvents(want, ts)
<1>0. Ahead(T, Link, LinkVal, now, ts)
  BY DEF Ahead
<1>1. StartEvents("link_added", Diffed(T, want, ts))
        = StartEvents("link_added", T)
          \cup EventsFor("link_added", Appeared(T, want), ts)
  BY <1>0, DiffedStarts
<1>2. EndEvents("link_removed", Diffed(T, want, ts))
        = EndEvents("link_removed", T)
          \cup EventsFor("link_removed", Vanished(T, want), ts)
  BY <1>0, DiffedEnds
<1> QED
  BY <1>1, <1>2 DEF LinksTold, LinkEvents

\* A changed write adds to the feed what its rows tell anew.
LEMMA ChangedTells ==
  ASSUME IInv, EventsTellHistory, NEW obs \in Observations, NEW ts \in Instants,
         clock < ts, RecordChanged(obs, ts)
  PROVE  EventsTellHistory'
<1> DEFINE ns == WantedNodes(obs)
           ps == WantedPorts(obs)
           ls == WantedLinks(obs)
           Feed(E) == {e \in E : e.type # "sweep_incomplete"}
<1>1. TypeOK /\ AllDated /\ TablesLawful
  BY DEF IInv
<1>2. clock \in Nat /\ ts \in Nat
  BY <1>1, NatTyped
<1>3. /\ nodeState \subseteq Rows(Guid, NodeVal, Nat)
      /\ portState \subseteq Rows(Port, PortVal, Nat)
      /\ linkState \subseteq Rows(Link, LinkVal, Nat)
  BY <1>1, NatTyped
<1>4. Lawful(nodeState) /\ Lawful(portState) /\ Lawful(linkState)
  BY <1>1, LinksLawful DEF TablesLawful
<1>5. /\ nodeState' = Diffed(nodeState, ns, ts)
      /\ portState' = Diffed(portState, ps, ts)
      /\ linkState' = Diffed(linkState, ls, ts)
      /\ events' = events \cup NodeEvents(ns, ts) \cup PortEvents(ps, ts) \cup LinkEvents(ls, ts)
  BY DEF RecordChanged
<1>6. NodesTold(nodeState') = NodesTold(nodeState) \cup NodeEvents(ns, ts)
  BY <1>1, <1>2, <1>3, <1>4, <1>5, WantedTypes, NodesTell DEF AllDated
<1>7. PortsTold(portState') = PortsTold(portState) \cup PortEvents(ps, ts)
  BY <1>1, <1>2, <1>3, <1>4, <1>5, WantedTypes, PortsTell DEF AllDated
<1>8. LinksTold(linkState') = LinksTold(linkState) \cup LinkEvents(ls, ts)
  BY <1>1, <1>2, <1>3, <1>4, <1>5, LinksTell DEF AllDated
<1>9. \A e \in NodeEvents(ns, ts) \cup PortEvents(ps, ts) \cup LinkEvents(ls, ts) :
        e.type # "sweep_incomplete"
  BY DEF NodeEvents, PortEvents, LinkEvents, EventsFor, Event
<1>10. Feed(events) = NodesTold(nodeState) \cup PortsTold(portState) \cup LinksTold(linkState)
  BY DEF EventsTellHistory, Reconstructed
<1>11. Feed(events') = Feed(events) \cup NodeEvents(ns, ts) \cup PortEvents(ps, ts)
                                    \cup LinkEvents(ls, ts)
  BY <1>5, <1>9
<1> HIDE DEF ns, ps, ls
<1>12. Feed(events') = NodesTold(nodeState') \cup PortsTold(portState') \cup LinksTold(linkState')
  BY <1>6, <1>7, <1>8, <1>10, <1>11
<1>13. Reconstructed' = NodesTold(nodeState') \cup PortsTold(portState') \cup LinksTold(linkState')
  BY DEF Reconstructed, NodesTold, PortsTold, LinksTold, StartEvents, EndEvents, TurnEvents,
         Turns, Starts, Ends
<1> QED
  BY <1>12, <1>13 DEF EventsTellHistory

\* While the clock does not step back the event feed is strictly redundant: after
\* any sweeps it is what one reconstructs from the rows, for every entity that
\* appears, vanishes or changes in a column that has an event.
THEOREM FeedTellsHistory ==
  ASSUME ~ ClockMaySlip
  PROVE  Spec => []EventsTellHistory
<1>1. Init => EventsTellHistory
  BY DEF Init, EventsTellHistory, Reconstructed, NodesTold, PortsTold, LinksTold,
         StartEvents, EndEvents, TurnEvents, Starts, Ends, Turns
<1>2. IInv /\ EventsTellHistory /\ [Next]_vars => EventsTellHistory'
  <2> SUFFICES ASSUME IInv, EventsTellHistory, [Next]_vars PROVE EventsTellHistory'
    OBVIOUS
  <2>1. ASSUME UNCHANGED <<nodeState, portState, linkState>>,
               {e \in events' : e.type # "sweep_incomplete"}
                 = {e \in events : e.type # "sweep_incomplete"}
        PROVE  EventsTellHistory'
    BY <2>1 DEF EventsTellHistory, Reconstructed
  <2>2. ASSUME NEW obs \in Observations, NEW ts \in Instants, Write(obs, ts)
        PROVE  EventsTellHistory'
    <3>1. TypeOK
      BY DEF IInv
    <3>2. clock < ts
      BY <2>2, <3>1, ClockMovesOn
    <3>3. CASE RecordIncomplete(obs, ts)
      BY <2>1, <3>3 DEF RecordIncomplete, Event
    <3>4. CASE RecordUnchanged(obs, ts)
      BY <2>1, <3>4 DEF RecordUnchanged
    <3>5. CASE RecordChanged(obs, ts)
      BY <3>2, <3>5, ChangedTells
    <3>6. CASE RollBack(obs, ts)
      BY <2>1, <3>6 DEF RollBack, tables
    <3> QED
      BY <2>2, <3>3, <3>4, <3>5, <3>6 DEF Write
  <2>3. CASE UNCHANGED vars
    BY <2>1, <2>3 DEF vars, tables
  <2> QED
    BY <2>2, <2>3 DEF Next, AtBound
<1> QED
  BY <1>1, <1>2, TablesInvariant, PTL DEF Spec

-----------------------------------------------------------------------------
(* The refinement of FabricRecord.                                         *)

\* What the open rows say: what a reader of the present is told.
Present == [nodes |-> {<<r.key, r.val>> : r \in Current(nodeState)},
            ports |-> {<<r.key, r.val>> : r \in Current(portState)},
            links |-> {<<r.key, r.val>> : r \in Current(linkState)}]

\* From the clock's reading on, the tables say what their open rows do.
LEMMA PictureNow ==
  ASSUME IInv, NEW t \in Instants, clock <= t
  PROVE  PictureAt(t) = Present
<1>1. TypeOK /\ AllDated
  BY DEF IInv
<1>2. t \in Nat /\ clock \in Nat
  BY <1>1, NatTyped
<1>3. /\ AsOf(nodeState, t) = {<<r.key, r.val>> : r \in Current(nodeState)}
      /\ AsOf(portState, t) = {<<r.key, r.val>> : r \in Current(portState)}
      /\ AsOf(linkState, t) = {<<r.key, r.val>> : r \in Current(linkState)}
  BY <1>1, <1>2, NatTyped, AsOfNow DEF AllDated
<1> QED
  BY <1>3 DEF PictureAt, Present

\* The SM states the record knows of a node: the one of its open row, if any.
LEMMA KnownIsCurrent ==
  ASSUME IInv, NEW g
  PROVE  Record!KnownSm(Present, g)
           = IF g \in CurrentKeys(nodeState) THEN {CurrentVal(nodeState, g).sm} ELSE {}
<1>1. NoOverlap(nodeState)
  BY DEF IInv, TablesLawful, Lawful
<1>2. Record!KnownSm(Present, g) = {r.val.sm : r \in {q \in Current(nodeState) : q.key = g}}
  <2>1. ASSUME NEW nv \in Present.nodes, nv[1] = g
        PROVE  \E r \in Current(nodeState) : r.key = g /\ nv[2].sm = r.val.sm
    BY <2>1 DEF Present
  <2>2. ASSUME NEW r \in Current(nodeState), r.key = g
        PROVE  \E nv \in Present.nodes : nv[1] = g /\ nv[2].sm = r.val.sm
    <3>1. <<r.key, r.val>> \in Present.nodes
      BY DEF Present
    <3> QED
      BY <2>2, <3>1
  <2> QED
    BY <2>1, <2>2 DEF Record!KnownSm
<1>3. CASE g \in CurrentKeys(nodeState)
  <2>1. PICK q \in Current(nodeState) : q.key = g
    BY <1>3 DEF CurrentKeys
  <2>2. {r \in Current(nodeState) : r.key = g} = {q}
    BY <1>1, <2>1, OneOpenRow
  <2>3. CurrentVal(nodeState, g) = q.val
    BY <1>1, <2>1, CurrentValue
  <2> QED
    BY <1>2, <1>3, <2>2, <2>3
<1>4. CASE g \notin CurrentKeys(nodeState)
  BY <1>2, <1>4 DEF CurrentKeys
<1> QED
  BY <1>3, <1>4

\* The record reads the SM column of a sweep just as the diff does.
LEMMA SmAgrees ==
  ASSUME IInv, NEW obs \in Observations, NEW g
  PROVE  Record!SmOf(obs, Present, g) = WantedSm(obs, g)
<1>1. obs.smSeen \in BOOLEAN
  BY WriterAssumption DEF Observation
<1>2. CASE g \in CurrentKeys(nodeState)
  <2>1. Record!KnownSm(Present, g) = {CurrentVal(nodeState, g).sm}
    BY <1>2, KnownIsCurrent
  <2>2. (CHOOSE s \in Record!KnownSm(Present, g) : TRUE) = CurrentVal(nodeState, g).sm
    BY <2>1
  <2> QED
    BY <1>1, <1>2, <2>1, <2>2 DEF Record!SmOf, WantedSm
<1>3. CASE g \notin CurrentKeys(nodeState)
  BY <1>3, KnownIsCurrent DEF Record!SmOf, WantedSm
<1> QED
  BY <1>2, <1>3

\* So what the record makes of a sweep is what the diff calls for.
LEMMA InterpretIsWanted ==
  ASSUME IInv, NEW obs \in Observations
  PROVE  Record!Interpret(obs, Present)
           = [nodes |-> {<<g, WantedNodes(obs)[g]>> : g \in DOMAIN obs.nodes},
              ports |-> {<<p, obs.ports[p]>> : p \in DOMAIN obs.ports},
              links |-> {<<l, "cabled">> : l \in obs.links}]
<1>1. \A g \in DOMAIN obs.nodes :
        WantedNodes(obs)[g] = [desc |-> obs.nodes[g].desc,
                               sm |-> Record!SmOf(obs, Present, g)]
  BY SmAgrees DEF WantedNodes
<1> QED
  BY <1>1 DEF Record!Interpret

\* A changed write makes the record say what the sweep called for.
LEMMA ChangedKeeps ==
  ASSUME IInv, NEW obs \in Observations, NEW ts \in Instants, clock < ts,
         RecordChanged(obs, ts), NEW t \in Instants
  PROVE  PictureAt(t)' = IF t < ts THEN PictureAt(t) ELSE Record!Interpret(obs, Present)
<1>1. TypeOK /\ AllDated
  BY DEF IInv
<1>2. t \in Nat /\ ts \in Nat /\ clock \in Nat
  BY <1>1, NatTyped
<1>3. /\ nodeState' = Diffed(nodeState, WantedNodes(obs), ts)
      /\ portState' = Diffed(portState, WantedPorts(obs), ts)
      /\ linkState' = Diffed(linkState, WantedLinks(obs), ts)
      /\ clock' = ts
  BY DEF RecordChanged, Handled
<1>4. PictureAt(t)' = [nodes |-> AsOf(nodeState', t), ports |-> AsOf(portState', t),
                       links |-> AsOf(linkState', t)]
  BY DEF PictureAt, AsOf, Covers
<1>5. CASE t < ts
  BY <1>1, <1>3, <1>5, WritePast DEF Write
<1>6. CASE ~ (t < ts)
  <2>1. AsOf(nodeState', t)
          = {<<g, WantedNodes(obs)[g]>> : g \in DOMAIN WantedNodes(obs)}
    BY <1>1, <1>2, <1>3, <1>6, NatTyped, WantedTypes, DiffedFuture DEF AllDated
  <2>2. AsOf(portState', t)
          = {<<p, WantedPorts(obs)[p]>> : p \in DOMAIN WantedPorts(obs)}
    BY <1>1, <1>2, <1>3, <1>6, NatTyped, WantedTypes, DiffedFuture DEF AllDated
  <2>3. AsOf(linkState', t)
          = {<<l, WantedLinks(obs)[l]>> : l \in DOMAIN WantedLinks(obs)}
    BY <1>1, <1>2, <1>3, <1>6, NatTyped, WantedTypes, DiffedFuture DEF AllDated
  <2>4. DOMAIN WantedNodes(obs) = DOMAIN obs.nodes /\ DOMAIN WantedLinks(obs) = obs.links
    BY DEF WantedNodes, WantedLinks
  <2>5. \A l \in obs.links : WantedLinks(obs)[l] = "cabled"
    BY DEF WantedLinks
  <2>6. PictureAt(t)' = Record!Interpret(obs, Present)
    BY <1>4, <2>1, <2>2, <2>3, <2>4, <2>5, InterpretIsWanted DEF WantedPorts
  <2> QED
    BY <1>6, <2>6
<1> QED
  BY <1>5, <1>6

\* A sweep the gate passes over, or a partial one it may be taken for, calls for
\* what the open rows say already.
LEMMA UnchangedIsPresent ==
  ASSUME IInv, NEW obs \in Observations, obs.complete, ~ IsChanged(obs)
  PROVE  \E o \in Record!TakenFor(obs) :
           o \in Observations /\ Record!Interpret(o, Present) = Present
<1>1. TypeOK /\ SnapshotsInOrder /\ StateFollowsSweep /\ SmRemembered /\ NoOverlap(nodeState)
  BY DEF IInv, TablesLawful, Lawful
<1>2. PICK i \in DOMAIN snapshots : LastComplete(i) /\ snapshots[i].digest = Digest(obs)
  BY <1>1, UnchangedIsLast
<1>3. /\ {<<r.key, r.val.desc>> : r \in Current(nodeState)}
           = {<<g, obs.nodes[g].desc>> : g \in DOMAIN obs.nodes}
      /\ {<<r.key, r.val>> : r \in Current(portState)}
           = {<<p, obs.ports[p]>> : p \in DOMAIN obs.ports}
      /\ CurrentKeys(linkState) = obs.links
  BY <1>1, <1>2 DEF StateFollowsSweep, LastComplete, Digest
<1>4. {<<l, "cabled">> : l \in obs.links} = {<<r.key, r.val>> : r \in Current(linkState)}
  <2>1. \A r \in Current(linkState) : r.val = "cabled"
    BY <1>1 DEF TypeOK, Rows, LinkVal, Current
  <2> QED
    BY <1>3, <2>1 DEF CurrentKeys
<1>5. ASSUME NEW r \in Current(nodeState)
      PROVE  /\ r.key \in DOMAIN obs.nodes /\ r.val.desc = obs.nodes[r.key].desc
             /\ r.val = [desc |-> r.val.desc, sm |-> r.val.sm]
             /\ CurrentVal(nodeState, r.key) = r.val
             /\ r.key \in CurrentKeys(nodeState)
  <2>1. <<r.key, r.val.desc>> \in {<<g, obs.nodes[g].desc>> : g \in DOMAIN obs.nodes}
    BY <1>3
  <2>2. r.val \in NodeVal
    BY <1>1 DEF TypeOK, Rows, Current
  <2>3. CurrentVal(nodeState, r.key) = r.val
    BY <1>1, CurrentValue
  <2> QED
    BY <2>1, <2>2, <2>3 DEF NodeVal, CurrentKeys
<1>6. ASSUME NEW g \in DOMAIN obs.nodes
      PROVE  \E r \in Current(nodeState) : r.key = g
  <2>1. <<g, obs.nodes[g].desc>> \in {<<r.key, r.val.desc>> : r \in Current(nodeState)}
    BY <1>3
  <2> QED
    BY <2>1
\* It is enough that o reads the same names, ports and cables and calls for the
\* SM states there are.
<1>7. ASSUME NEW o \in Observations, o.nodes = obs.nodes, o.ports = obs.ports,
             o.links = obs.links,
             \A r \in Current(nodeState) : WantedSm(o, r.key) = r.val.sm
      PROVE  Record!Interpret(o, Present) = Present
  <2>1. \A r \in Current(nodeState) : WantedNodes(o)[r.key] = r.val
    BY <1>5, <1>7 DEF WantedNodes
  <2>2. {<<g, WantedNodes(o)[g]>> : g \in DOMAIN o.nodes}
          = {<<r.key, r.val>> : r \in Current(nodeState)}
    <3>1. ASSUME NEW g \in DOMAIN o.nodes
          PROVE  \E r \in Current(nodeState) : <<g, WantedNodes(o)[g]>> = <<r.key, r.val>>
      BY <1>6, <1>7, <2>1
    <3>2. \A r \in Current(nodeState) :
            r.key \in DOMAIN o.nodes /\ <<r.key, r.val>> = <<r.key, WantedNodes(o)[r.key]>>
      BY <1>5, <1>7, <2>1
    <3> QED
      BY <3>1, <3>2
  <2> QED
    BY <1>3, <1>4, <1>7, <2>2, InterpretIsWanted DEF Present
<1>8. CASE Blurred(obs)
  <2>1. PICK o \in Observations : o.complete /\ ~ o.smSeen /\ Digest(o) = Digest(obs)
    BY <1>8 DEF Blurred
  <2>2. o.nodes = obs.nodes /\ o.ports = obs.ports /\ o.links = obs.links
    BY <2>1 DEF Digest
  <2>3. o = [obs EXCEPT !.smSeen = FALSE]
    BY <2>1, <2>2, WriterAssumption DEF Observation
  <2>4. \A r \in Current(nodeState) : WantedSm(o, r.key) = r.val.sm
    BY <1>5, <2>1 DEF WantedSm
  <2> QED
    BY <1>7, <2>2, <2>3, <2>4 DEF Record!TakenFor
<1>9. CASE ~ Blurred(obs)
  <2>1. obs.smSeen
    BY <1>9 DEF Blurred
  <2>2. \A r \in Current(nodeState) : r.val.sm = obs.nodes[r.key].sm
    BY <1>1, <1>2, <1>9 DEF SmRemembered
  <2>3. \A r \in Current(nodeState) : WantedSm(obs, r.key) = r.val.sm
    BY <2>1, <2>2 DEF WantedSm
  <2> QED
    BY <1>7, <2>3 DEF Record!TakenFor
<1> QED
  BY <1>8, <1>9

\* Every write is a step of the record, seen through as-of reads.
LEMMA WriteIsKept ==
  ASSUME IInv, NEW obs \in Observations, NEW ts \in Instants, clock < ts, Write(obs, ts)
  PROVE  Record!Next
<1> DEFINE record == [t \in Instants |-> PictureAt(t)]
<1>1. clock \in Instants /\ Instants \subseteq Nat /\ clock \in Nat /\ ts \in Nat
  BY NatTyped DEF IInv, TypeOK
<1>2. Record!Instants = Instants
  BY DEF Record!Instants, Instants
<1>3. record[clock] = Present
  BY <1>1, PictureNow
<1>4. handed' = obs /\ clock' = ts
  BY DEF Write, RecordIncomplete, RecordUnchanged, RecordChanged, RollBack, Handled
<1>5. ASSUME UNCHANGED <<nodeState, portState, linkState>>
      PROVE  record' = record
  BY <1>5 DEF PictureAt
<1>6. record' = [t \in Instants |-> PictureAt(t)']
  OBVIOUS
<1>7. CASE RecordIncomplete(obs, ts)
  BY <1>1, <1>2, <1>4, <1>5, <1>7 DEF Record!Next, Record!Keep, RecordIncomplete, Handled
<1>8. CASE RollBack(obs, ts)
  BY <1>1, <1>2, <1>4, <1>5, <1>8 DEF Record!Next, Record!Lose, RollBack, Handled, tables
<1>9. ASSUME obs.complete, outcome' = "committed", NEW o \in Record!TakenFor(obs),
             \A t \in Instants :
               PictureAt(t)' = IF t < ts THEN PictureAt(t) ELSE Record!Interpret(o, Present)
      PROVE  Record!Next
  <2>1. record' = [t \in Instants |->
                     IF t < ts THEN record[t] ELSE Record!Interpret(o, record[clock])]
    BY <1>3, <1>6, <1>9
  <2>2. Record!Keep(obs, ts)
    BY <1>2, <1>9, <2>1 DEF Record!Keep
  <2> QED
    BY <1>1, <1>2, <1>4, <2>2 DEF Record!Next
<1>10. CASE RecordUnchanged(obs, ts)
  <2>1. PICK o \in Record!TakenFor(obs) : Record!Interpret(o, Present) = Present
    BY <1>10, UnchangedIsPresent DEF RecordUnchanged
  <2>2. UNCHANGED <<nodeState, portState, linkState>>
    BY <1>10 DEF RecordUnchanged
  <2>3. \A t \in Instants : PictureAt(t)' = PictureAt(t)
    BY <2>2 DEF PictureAt
  <2>4. \A t \in Instants : ~ (t < ts) => PictureAt(t) = Present
    BY <1>1, PictureNow
  <2>5. \A t \in Instants :
          PictureAt(t)' = IF t < ts THEN PictureAt(t) ELSE Record!Interpret(o, Present)
    BY <2>1, <2>3, <2>4
  <2> QED
    BY <1>9, <1>10, <2>5 DEF RecordUnchanged, Handled
<1>11. CASE RecordChanged(obs, ts)
  <2>1. obs \in Record!TakenFor(obs)
    BY DEF Record!TakenFor
  <2>2. \A t \in Instants :
          PictureAt(t)' = IF t < ts THEN PictureAt(t) ELSE Record!Interpret(obs, Present)
    BY <1>11, ChangedKeeps
  <2> QED
    BY <1>9, <1>11, <2>1, <2>2 DEF RecordChanged, Handled
<1> QED
  BY <1>7, <1>8, <1>10, <1>11 DEF Write

\* The tables implement the record of FabricRecord, which knows no rows, digests
\* or events: to a reader of any instant every write is a sweep kept whole from
\* its collected_at on, or nothing at all.
THEOREM TablesImplementRecord ==
  ASSUME ~ ClockMaySlip
  PROVE  Spec => ImplementsRecord
<1>1. Init => Record!Init
  <2> SUFFICES ASSUME Init PROVE Record!Init
    OBVIOUS
  <2>1. \A t \in Instants : PictureAt(t) = Record!Blank
    BY DEF Init, PictureAt, AsOf, Record!Blank
  <2>2. Record!Instants = Instants
    BY DEF Record!Instants, Instants
  <2>3. [t \in Instants |-> PictureAt(t)] = [t \in Record!Instants |-> Record!Blank]
    BY <2>1, <2>2
  <2> QED
    BY <2>3 DEF Init, Record!Init
<1>2. IInv /\ [Next]_vars => [Record!Next]_(Record!vars)
  <2> SUFFICES ASSUME IInv, [Next]_vars PROVE [Record!Next]_(Record!vars)
    OBVIOUS
  <2>1. ASSUME NEW obs \in Observations, NEW ts \in Instants, Write(obs, ts)
        PROVE  Record!Next
    BY <2>1, ClockMovesOn, WriteIsKept DEF IInv
  <2>2. CASE UNCHANGED vars
    BY <2>2 DEF vars, tables, Record!vars, PictureAt
  <2> QED
    BY <2>1, <2>2 DEF Next, AtBound
<1> QED
  BY <1>1, <1>2, TablesInvariant, PTL DEF Spec, ImplementsRecord, Record!Spec
=============================================================================
