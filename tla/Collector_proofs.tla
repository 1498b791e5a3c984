--------------------------- MODULE Collector_proofs ---------------------------
(***************************************************************************)
(* Theorems about the collector process, for any hardware, sweeps, dumps,  *)
(* bad sweeps, kills and restarts, with a connection that may or may not   *)
(* be lost, and about the error counters it stores, for any ports,         *)
(* ceiling, lookback and history of errors, clears and cut-off dumps.      *)
(***************************************************************************)
EXTENDS Collector, ErrorCounters, WellFoundedInduction, TLAPS

-----------------------------------------------------------------------------
(* The collector process. *)

\* The process is past its start and has not ended: its cache is in use.
Up == main \notin {"starting", "ended"}

AllNodes == node \cup freshNode
AllPorts == port \cup freshPort

\* Everything that holds an id holds one its sequence has handed out.
IdsBelow ==
  /\ \A n \in AllNodes : n.id < nextNode
  /\ \A r \in AllPorts : r.id < nextPort /\ r.node < nextNode
  /\ \A g \in DOMAIN nodeId : nodeId[g] < nextNode
  /\ \A k \in DOMAIN portId : portId[k] < nextPort
  /\ \A f \in facts \cup batch : f.id < nextPort

\* No id is of two rows, and none is cached for two keys.
IdsDistinct ==
  /\ \A m, n \in AllNodes : m.id = n.id => m = n
  /\ \A q, r \in AllPorts : q.id = r.id => q = r
  /\ \A g, h \in DOMAIN nodeId : nodeId[g] = nodeId[h] => g = h
  /\ \A j, k \in DOMAIN portId : portId[j] = portId[k] => j = k

\* The cache knows every row, of the open transaction too, under its id.
RowsCached ==
  Up => /\ \A n \in AllNodes : n.guid \in DOMAIN nodeId /\ nodeId[n.guid] = n.id
        /\ \A r \in AllPorts : /\ <<r.node, r.num>> \in DOMAIN portId
                               /\ portId[<<r.node, r.num>>] = r.id

\* Which rows, threads and counts there can be at which place.
Places ==
  /\ main # "identity" => freshNode = {} /\ freshPort = {}
  /\ traffic # "none" => Up /\ ~ first
  /\ main = "identity" => sweep \in Sweeps /\ (sweep.sound \/ bad > 0)
  /\ starts > 0

\* Facts, and those about to be, are of the port they were read from.
FactsTell ==
  \A f \in facts \cup batch : \A r \in AllPorts : r.id = f.id => Names(r, f.port)

\* The ports of the latest complete sweep have committed rows, under the row of
\* their node.
LatestBacked ==
  \A d \in latest : \A p \in d.ports :
    \E n \in node, r \in port : n.guid = p[1] /\ r.node = n.id /\ r.num = p[2]

\* Until a sweep is bad or the connection is lost, every cached id is a row's ...
CacheBacked ==
  Up /\ bad = 0 /\ conn =>
    /\ \A g \in DOMAIN nodeId : \E n \in AllNodes : n.id = nodeId[g]
    /\ \A k \in DOMAIN portId : \E r \in AllPorts : r.id = portId[k]

\* ... and so, until a process is killed as well, is every id in a fact.
FactsBacked ==
  bad = 0 /\ starts = 1 /\ Running /\ conn =>
    \A f \in facts \cup batch : \E r \in AllPorts : r.id = f.id

\* The inductive invariant.
IInv ==
  /\ TypeOK
  /\ IdsBelow
  /\ IdsDistinct
  /\ RowsCached
  /\ Places
  /\ OneRowPerHardware
  /\ FactsTell
  /\ LatestBacked
  /\ CacheBacked
  /\ FactsBacked
  /\ ErrorsResolve
  /\ SoundSweepsLand

-----------------------------------------------------------------------------
(* What the invariant says of a resolved port.                             *)

\* A port that resolves resolves to a number, below the sequence.
LEMMA ResolveType ==
  ASSUME TypeOK, IdsBelow, NEW p \in Hw, Cached(p)
  PROVE  /\ Resolve(p) \in Nat /\ Resolve(p) < nextPort
         /\ nodeId[p[1]] \in Nat /\ p[1] \in DOMAIN nodeId
         /\ <<nodeId[p[1]], p[2]>> \in DOMAIN portId
  BY DEF TypeOK, IdsBelow, Cached, Resolve

\* A row with the id a port resolves to is that port's row.
LEMMA ResolveNames ==
  ASSUME TypeOK, IdsDistinct, RowsCached, Up, NEW p \in Hw, Cached(p),
         NEW r \in AllPorts, r.id = Resolve(p)
  PROVE  Names(r, p) /\ r.node = nodeId[p[1]] /\ r.num = p[2]
<1>1. <<r.node, r.num>> \in DOMAIN portId /\ portId[<<r.node, r.num>>] = r.id
  BY DEF RowsCached
<1>2. <<nodeId[p[1]], p[2]>> \in DOMAIN portId /\ portId[<<nodeId[p[1]], p[2]>>] = r.id
  BY DEF Cached, Resolve
<1>3. <<r.node, r.num>> = <<nodeId[p[1]], p[2]>>
  BY <1>1, <1>2 DEF IdsDistinct
<1>4. r.node = nodeId[p[1]] /\ r.num = p[2]
  BY <1>3
<1>5. ASSUME NEW n \in AllNodes, n.id = r.node
      PROVE  n.guid = p[1]
  <2>1. n.guid \in DOMAIN nodeId /\ nodeId[n.guid] = nodeId[p[1]]
    BY <1>4, <1>5 DEF RowsCached
  <2>2. p[1] \in DOMAIN nodeId
    BY DEF Cached
  <2> QED
    BY <2>1, <2>2 DEF IdsDistinct
<1> QED
  BY <1>4, <1>5 DEF Names, AllNodes

\* A port whose row and node row are there resolves to that row.
LEMMA RowResolves ==
  ASSUME TypeOK, RowsCached, Up, NEW p \in Hw, NEW n \in AllNodes, NEW r \in AllPorts,
         n.guid = p[1], r.node = n.id, r.num = p[2]
  PROVE  Cached(p) /\ r.id = Resolve(p)
<1>1. n.guid \in DOMAIN nodeId /\ nodeId[n.guid] = n.id
  BY DEF RowsCached
<1>2. <<r.node, r.num>> \in DOMAIN portId /\ portId[<<r.node, r.num>>] = r.id
  BY DEF RowsCached
<1> QED
  BY <1>1, <1>2 DEF Cached, Resolve

\* What a counter sweep resolves is typed, of known ids, and tells its ports.
LEMMA ResolvedFacts ==
  ASSUME TypeOK, IdsBelow, IdsDistinct, RowsCached, Up, CacheBacked,
         NEW source \in {"errors", "traffic"}, NEW ports \in SUBSET Hw,
         NEW f \in Resolved(source, ports)
  PROVE  /\ f \in Fact /\ f.id < nextPort
         /\ \A r \in AllPorts : r.id = f.id => Names(r, f.port)
         /\ bad = 0 /\ conn => \E r \in AllPorts : r.id = f.id
<1>1. PICK p \in ports : Cached(p) /\ f = [source |-> source, port |-> p, id |-> Resolve(p)]
  BY DEF Resolved
<1>2. p \in Hw /\ Resolve(p) \in Nat /\ Resolve(p) < nextPort
  BY <1>1, ResolveType
<1>3. \A r \in AllPorts : r.id = f.id => Names(r, f.port)
  BY <1>1, ResolveNames
<1>4. bad = 0 /\ conn => \E r \in AllPorts : r.id = f.id
  BY <1>1, <1>2, ResolveType DEF CacheBacked, Resolve
<1> QED
  BY <1>1, <1>2, <1>3, <1>4 DEF Fact

\* A sweep's ports are of its nodes.
LEMMA SweepPorts ==
  ASSUME NEW s \in Sweeps \cup {NoSweep}
  PROVE  s.ports \subseteq Hw /\ \A p \in s.ports : p[1] \in s.nodes
  BY CollectorAssumption DEF Sweep, NoSweep

-----------------------------------------------------------------------------
(* The type invariant.                                                     *)

\* Seeding gives every row's key its id.
LEMMA Seeded ==
  ASSUME TypeOK
  PROVE  /\ DOMAIN SeededNodes = {n.guid : n \in node}
         /\ \A g \in DOMAIN SeededNodes :
              \E n \in node : n.guid = g /\ SeededNodes[g] = n.id
         /\ DOMAIN SeededPorts = {<<r.node, r.num>> : r \in port}
         /\ \A k \in DOMAIN SeededPorts :
              \E r \in port : <<r.node, r.num>> = k /\ SeededPorts[k] = r.id
<1>1. ASSUME NEW g \in {n.guid : n \in node}
      PROVE  \E n \in node : n.guid = g /\ SeededNodes[g] = n.id
  <2>1. \E n \in node : n.guid = g
    OBVIOUS
  <2> DEFINE n == CHOOSE n \in node : n.guid = g
  <2>2. n \in node /\ n.guid = g
    BY <2>1
  <2> QED
    BY <2>2 DEF SeededNodes
<1>2. ASSUME NEW k \in {<<r.node, r.num>> : r \in port}
      PROVE  \E r \in port : <<r.node, r.num>> = k /\ SeededPorts[k] = r.id
  <2>1. \E r \in port : <<r.node, r.num>> = k
    OBVIOUS
  <2> DEFINE r == CHOOSE r \in port : <<r.node, r.num>> = k
  <2>2. r \in port /\ <<r.node, r.num>> = k
    BY <2>1
  <2> QED
    BY <2>2 DEF SeededPorts
<1> QED
  BY <1>1, <1>2 DEF SeededNodes, SeededPorts

\* Every step keeps the types.
LEMMA TypeStep ==
  ASSUME TypeOK, IdsBelow, IdsDistinct, RowsCached, Places, CacheBacked, [Next]_vars
  PROVE  TypeOK'
<1> USE DEF database, cache, fresh, MainPlaces, TrafficPlaces
<1>1. CASE Start
  <2>1. DOMAIN SeededNodes \subseteq Guid /\ \A g \in DOMAIN SeededNodes : SeededNodes[g] \in Nat
    BY Seeded DEF TypeOK, NodeRow
  <2>2. /\ DOMAIN SeededPorts \subseteq Nat \X PortNum
        /\ \A k \in DOMAIN SeededPorts : SeededPorts[k] \in Nat
    BY Seeded DEF TypeOK, PortRow
  <2> QED
    BY <1>1, <2>1, <2>2 DEF Start, TypeOK
<1>2. ASSUME NEW s \in Sweeps, BeginWrite(s) PROVE TypeOK'
  BY <1>2 DEF BeginWrite, TypeOK
<1>3. ASSUME NEW s \in Sweeps, CannotBegin(s) PROVE TypeOK'
  BY <1>3 DEF CannotBegin, TypeOK
<1>4. ASSUME NEW g \in Guid, EnsureNode(g) PROVE TypeOK'
  <2>1. [guid |-> g, id |-> nextNode] \in NodeRow
    BY <1>4 DEF TypeOK, NodeRow
  <2>2. DOMAIN nodeId' \subseteq Guid /\ \A x \in DOMAIN nodeId' : nodeId'[x] \in Nat
    BY <1>4 DEF EnsureNode, RememberNode, TypeOK
  <2> QED
    BY <1>4, <2>1, <2>2 DEF EnsureNode, TypeOK
<1>5. ASSUME NEW p \in Hw, EnsurePort(p) PROVE TypeOK'
  <2>1. /\ p[1] \in DOMAIN nodeId /\ p[2] \in PortNum /\ nodeId[p[1]] \in Nat
    BY <1>5, SweepPorts DEF EnsurePort, NodesKnown, TypeOK, Hw
  <2>2. [node |-> nodeId[p[1]], num |-> p[2], id |-> nextPort] \in PortRow
    BY <2>1 DEF TypeOK, PortRow
  <2>3. /\ DOMAIN portId' \subseteq Nat \X PortNum
        /\ \A k \in DOMAIN portId' : portId'[k] \in Nat
    BY <1>5, <2>1 DEF EnsurePort, RememberPort, NewPortId, TypeOK
  <2> QED
    BY <1>5, <2>2, <2>3 DEF EnsurePort, NewPortId, TypeOK
<1>6. CASE Commit
  <2>1. latest' \subseteq {Digest(s) : s \in Sweeps}
    BY <1>6 DEF Commit, Places
  <2> QED
    BY <1>6, <2>1 DEF Commit, TypeOK
<1>7. CASE Refuse
  BY <1>7 DEF Refuse, TypeOK
<1>8. ASSUME NEW named \in Dumps, ErrorHalf(named) PROVE TypeOK'
  <2>1. named \cup sweep.ports \in SUBSET Hw
    BY CollectorAssumption, SweepPorts DEF TypeOK
  <2>2. Up
    BY <1>8 DEF ErrorHalf, Up
  <2>3. Resolved("errors", named \cup sweep.ports) \subseteq Fact
    BY <2>1, <2>2, ResolvedFacts
  <2> QED
    BY <1>8, <2>3 DEF ErrorHalf, TypeOK
<1>9. CASE Wake
  BY <1>9 DEF Wake, TypeOK
<1>10. CASE Exit
  BY <1>10 DEF Exit, TypeOK
<1>11. CASE Connect
  BY <1>11 DEF Connect, TypeOK
<1>12. ASSUME NEW named \in Dumps, ResolveTraffic(named) PROVE TypeOK'
  <2>1. named \in SUBSET Hw
    BY CollectorAssumption
  <2>2. Up
    BY <1>12 DEF ResolveTraffic, Places
  <2>3. Resolved("traffic", named) \subseteq Fact
    BY <2>1, <2>2, ResolvedFacts
  <2> QED
    BY <1>12, <2>3 DEF ResolveTraffic, TypeOK
<1>13. CASE CommitTraffic
  BY <1>13 DEF CommitTraffic, TypeOK
<1>14. CASE StopTraffic
  BY <1>14 DEF StopTraffic, TypeOK
<1>15. CASE Signal
  BY <1>15 DEF Signal, TypeOK
<1>16. CASE Kill
  BY <1>16 DEF Kill, TypeOK
<1>17. CASE LoseConnection
  BY <1>17 DEF LoseConnection, TypeOK
<1>18. CASE Restart
  <2>1. DOMAIN nodeId' = {} /\ DOMAIN portId' = {}
    BY <1>18 DEF Restart
  <2>2. /\ UNCHANGED <<database, fresh, first, sweep, bad>>
        /\ starts' = starts + 1 /\ main' = "starting" /\ traffic' = "none" /\ stop' = FALSE
        /\ conn' = TRUE /\ batch' = {} /\ outcome' = "none"
    BY <1>18 DEF Restart
  <2>3. /\ DOMAIN nodeId' \subseteq Guid /\ \A g \in DOMAIN nodeId' : nodeId'[g] \in Nat
        /\ DOMAIN portId' \subseteq Nat \X PortNum /\ \A k \in DOMAIN portId' : portId'[k] \in Nat
    BY <2>1
  <2>4. node' \subseteq NodeRow /\ freshNode' \subseteq NodeRow /\ port' \subseteq PortRow
        /\ freshPort' \subseteq PortRow /\ nextNode' \in Nat /\ nextPort' \in Nat
        /\ latest' \subseteq {Digest(s) : s \in Sweeps}
        /\ facts' \subseteq Fact /\ batch' \subseteq Fact
    BY <2>2 DEF TypeOK
  <2>5. bad' \in Nat /\ starts' \in Nat
    BY <2>2 DEF TypeOK
  <2>6. first' \in BOOLEAN /\ sweep' \in Sweeps \cup {NoSweep}
    BY <2>2 DEF TypeOK
  <2>7. /\ main' \in MainPlaces /\ traffic' \in TrafficPlaces
        /\ stop' \in BOOLEAN /\ conn' \in BOOLEAN
        /\ outcome' \in {"none", "committed", "refused"}
    BY <2>2
  <2> QED
    BY <2>3, <2>4, <2>5, <2>6, <2>7 DEF TypeOK
<1>19. CASE UNCHANGED vars
  BY <1>19 DEF vars, TypeOK
<1> QED
  BY <1>1, <1>2, <1>3, <1>4, <1>5, <1>6, <1>7, <1>8, <1>9, <1>10, <1>11, <1>12, <1>13,
     <1>14, <1>15, <1>16, <1>17, <1>18, <1>19
     DEF Next, MainStep, TrafficStep, Terminated

-----------------------------------------------------------------------------
(* The other parts of the invariant, action by action.                     *)

\* The parts that speak of rows, ids and facts only.
RowsOK == IdsBelow /\ IdsDistinct /\ OneRowPerHardware /\ FactsTell /\ LatestBacked

\* The parts that also depend on where the threads are.
PlacesOK == RowsCached /\ Places /\ CacheBacked /\ FactsBacked /\ ErrorsResolve /\ SoundSweepsLand

\* A step that touches neither rows nor cache, and adds no fact.
LEMMA RowsSame ==
  ASSUME IInv, facts' \cup batch' \subseteq facts \cup batch,
         UNCHANGED <<node, port, nextNode, nextPort, latest, freshNode, freshPort,
                     nodeId, portId>>
  PROVE  RowsOK'
  BY DEF IInv, RowsOK, IdsBelow, IdsDistinct, OneRowPerHardware, FactsTell, LatestBacked,
         Names, AllNodes, AllPorts

\* Such a step keeps what depends on places if it starts nothing and heals nothing.
LEMMA PlacesSame ==
  ASSUME IInv, facts' \cup batch' \subseteq facts \cup batch,
         UNCHANGED <<node, port, nextNode, nextPort, latest, freshNode, freshPort,
                     nodeId, portId>>,
         Up' => Up, Running' => Running, conn' => conn, bad' = 0 => bad = 0,
         starts' = 1 => starts = 1
  PROVE  RowsCached' /\ CacheBacked' /\ FactsBacked'
  BY DEF IInv, RowsCached, CacheBacked, FactsBacked, Up, Running, AllNodes, AllPorts

\* Seeding from the committed rows knows all of them.
LEMMA StartStep ==
  ASSUME IInv, Start
  PROVE  RowsOK' /\ PlacesOK'
<1> DEFINE N == node
           P == port
<1>1. freshNode = {} /\ freshPort = {} /\ traffic = "none"
  BY DEF IInv, Places, Start, Up
<1>2. UNCHANGED <<node, port, nextNode, nextPort, latest, facts, freshNode, freshPort, batch,
                  traffic, bad, starts, conn, outcome, sweep>>
  BY DEF Start, database, fresh
<1>3. nodeId' = SeededNodes /\ portId' = SeededPorts /\ main' = "collecting"
  BY DEF Start
<1>4. TypeOK /\ IdsBelow /\ IdsDistinct /\ OneRowPerHardware /\ FactsTell /\ LatestBacked
  BY DEF IInv
<1>5. AllNodes = node /\ AllPorts = port /\ AllNodes' = node /\ AllPorts' = port
  BY <1>1, <1>2 DEF AllNodes, AllPorts
<1>6. \A g \in DOMAIN nodeId' : \E n \in node : n.guid = g /\ nodeId'[g] = n.id
  BY <1>3, <1>4, Seeded
<1>7. \A k \in DOMAIN portId' : \E r \in port : <<r.node, r.num>> = k /\ portId'[k] = r.id
  BY <1>3, <1>4, Seeded
<1>8. IdsBelow'
  BY <1>2, <1>4, <1>5, <1>6, <1>7 DEF IdsBelow
<1>9. IdsDistinct'
  <2>1. \A g, h \in DOMAIN nodeId' : nodeId'[g] = nodeId'[h] => g = h
    BY <1>4, <1>5, <1>6 DEF IdsDistinct
  <2>2. \A j, k \in DOMAIN portId' : portId'[j] = portId'[k] => j = k
    BY <1>4, <1>5, <1>7 DEF IdsDistinct
  <2> QED
    BY <1>4, <1>5, <2>1, <2>2 DEF IdsDistinct
<1>10. OneRowPerHardware' /\ FactsTell' /\ LatestBacked'
  BY <1>2, <1>4, <1>5 DEF OneRowPerHardware, FactsTell, LatestBacked, Names
<1>11. RowsCached'
  <2>1. ASSUME NEW n \in node
        PROVE  n.guid \in DOMAIN nodeId' /\ nodeId'[n.guid] = n.id
    <3>1. n.guid \in DOMAIN nodeId'
      BY <1>3, <1>4, Seeded
    <3>2. PICK m \in node : m.guid = n.guid /\ nodeId'[n.guid] = m.id
      BY <1>6, <3>1
    <3>3. m = n
      BY <1>4, <3>2 DEF OneRowPerHardware
    <3> QED
      BY <3>1, <3>2, <3>3
  <2>2. ASSUME NEW r \in port
        PROVE  /\ <<r.node, r.num>> \in DOMAIN portId'
               /\ portId'[<<r.node, r.num>>] = r.id
    <3>1. <<r.node, r.num>> \in DOMAIN portId'
      BY <1>3, <1>4, Seeded
    <3>2. PICK q \in port : /\ <<q.node, q.num>> = <<r.node, r.num>>
                            /\ portId'[<<r.node, r.num>>] = q.id
      BY <1>7, <3>1
    <3>3. q.node = r.node /\ q.num = r.num
      BY <3>2
    <3>4. q = r
      BY <1>4, <3>3 DEF OneRowPerHardware
    <3> QED
      BY <3>1, <3>2, <3>4
  <2> QED
    BY <1>5, <2>1, <2>2 DEF RowsCached
<1>12. CacheBacked'
  BY <1>5, <1>6, <1>7 DEF CacheBacked
<1>13. Places'
  BY <1>1, <1>2, <1>3 DEF IInv, Places
<1>14. FactsBacked'
  <2>1. Running
    BY DEF Start, Running
  <2> QED
    BY <1>2, <1>5, <2>1 DEF IInv, FactsBacked
<1>15. ErrorsResolve' /\ SoundSweepsLand'
  BY <1>2, <1>3 DEF IInv, ErrorsResolve, SoundSweepsLand
<1> QED
  BY <1>8, <1>9, <1>10, <1>11, <1>12, <1>13, <1>14, <1>15 DEF RowsOK, PlacesOK

\* A sweep with the digest of the latest complete one has its rows committed.
LEMMA LatestResolves ==
  ASSUME IInv, Up, freshNode = {}, NEW s \in Sweeps, Digest(s) \in latest, NEW p \in s.ports
  PROVE  Cached(p) /\ \E r \in port : r.id = Resolve(p) /\ Names(r, p)
<1>1. p \in Hw
  BY SweepPorts
<1>2. p \in Digest(s).ports
  BY DEF Digest
<1>3. PICK n \in node, r \in port : n.guid = p[1] /\ r.node = n.id /\ r.num = p[2]
  BY <1>2 DEF IInv, LatestBacked
<1>4. n \in AllNodes /\ r \in AllPorts
  BY DEF AllNodes, AllPorts
<1>5. Cached(p) /\ r.id = Resolve(p)
  BY <1>1, <1>3, <1>4, RowResolves DEF IInv
<1>6. Names(r, p)
  BY <1>1, <1>4, <1>5, ResolveNames DEF IInv
<1> QED
  BY <1>5, <1>6

\* Handing a sweep to the writer.
LEMMA BeginStep ==
  ASSUME IInv, NEW s \in Sweeps, BeginWrite(s) \/ CannotBegin(s)
  PROVE  RowsOK' /\ PlacesOK'
<1>1. /\ UNCHANGED <<node, port, nextNode, nextPort, latest, facts, freshNode, freshPort,
                     nodeId, portId, batch, traffic, first, conn, starts>>
      /\ main = "collecting" /\ sweep' = s
  BY DEF BeginWrite, CannotBegin, database, cache, fresh
<1>2. TypeOK /\ Places
  BY DEF IInv
<1>3. Up /\ freshNode = {} /\ freshPort = {}
  BY <1>1, <1>2 DEF Up, Places
<1>4. bad' = 0 => bad = 0
  BY <1>2 DEF BeginWrite, CannotBegin, TypeOK
<1>5. RowsOK'
  BY <1>1, RowsSame
<1>6. RowsCached' /\ CacheBacked' /\ FactsBacked'
  <2>1. Running
    BY <1>1 DEF Running
  <2> QED
    BY <1>1, <1>3, <1>4, <2>1, PlacesSame
<1>7. CASE BeginWrite(s)
  <2>1. main' \in {"identity", "errors"} /\ (s.sound \/ bad' > 0) /\ conn
    BY <1>2, <1>7 DEF BeginWrite, TypeOK
  <2>2. Places'
    BY <1>1, <1>2, <1>3, <2>1 DEF Places, Up
  <2>3. SoundSweepsLand'
    <3>1. outcome' \in {outcome, "committed"}
      BY <1>7 DEF BeginWrite
    <3> QED
      BY <1>1, <1>4, <2>1, <3>1 DEF IInv, SoundSweepsLand
  <2>4. ErrorsResolve'
    <3> SUFFICES ASSUME main' = "errors", s.complete, NEW p \in s.ports
                 PROVE  Cached(p)' /\ \E r \in port' : r.id = Resolve(p)' /\ Names(r, p)'
      BY <1>1 DEF ErrorsResolve
    <3>1. Digest(s) \in latest
      BY <1>7 DEF BeginWrite
    <3>2. Cached(p) /\ \E r \in port : r.id = Resolve(p) /\ Names(r, p)
      BY <1>3, <3>1, LatestResolves
    <3> QED
      BY <1>1, <3>2 DEF Cached, Resolve, Names
  <2> QED
    BY <1>5, <1>6, <2>2, <2>3, <2>4 DEF PlacesOK
<1>8. CASE CannotBegin(s)
  <2>1. ~ conn /\ main' = IF first THEN "ended" ELSE "waiting"
    BY <1>8 DEF CannotBegin
  <2>2. bad' = bad
    BY <1>8 DEF CannotBegin
  <2>3. Places'
    BY <1>1, <1>2, <1>3, <2>1, <2>2 DEF Places, Up
  <2>4. SoundSweepsLand' /\ ErrorsResolve'
    BY <1>1, <2>1 DEF SoundSweepsLand, ErrorsResolve
  <2> QED
    BY <1>5, <1>6, <2>3, <2>4 DEF PlacesOK
<1> QED
  BY <1>5, <1>7, <1>8

\* A new node row takes the next id, which nothing else has.
LEMMA NodeStep ==
  ASSUME IInv, NEW g \in Guid, EnsureNode(g)
  PROVE  RowsOK' /\ PlacesOK'
<1> DEFINE row == [guid |-> g, id |-> nextNode]
<1>1. /\ UNCHANGED <<node, port, nextPort, latest, facts, freshPort, portId, main, traffic,
                     first, sweep, batch, conn, outcome, bad, starts>>
      /\ main = "identity" /\ g \notin DOMAIN nodeId
      /\ freshNode' = freshNode \cup {row} /\ nextNode' = nextNode + 1
  BY DEF EnsureNode
<1>2. nodeId' = [x \in DOMAIN nodeId \cup {g} |-> IF x = g THEN nextNode ELSE nodeId[x]]
  BY DEF EnsureNode, RememberNode
<1>3. /\ TypeOK /\ IdsBelow /\ IdsDistinct /\ RowsCached /\ Places /\ OneRowPerHardware
      /\ FactsTell /\ LatestBacked /\ CacheBacked /\ FactsBacked
  BY DEF IInv
<1>4. nextNode \in Nat /\ (\A n \in AllNodes : n.id \in Nat /\ n.id < nextNode)
                       /\ (\A x \in DOMAIN nodeId : nodeId[x] \in Nat /\ nodeId[x] < nextNode)
                       /\ (\A r \in AllPorts : r.node \in Nat /\ r.node < nextNode)
  BY <1>3 DEF TypeOK, IdsBelow, AllNodes, AllPorts, NodeRow, PortRow
<1>5. AllNodes' = AllNodes \cup {row} /\ AllPorts' = AllPorts
  BY <1>1 DEF AllNodes, AllPorts
<1>6. row.guid = g /\ row.id = nextNode
  OBVIOUS
<1>7. Up
  BY <1>1 DEF Up
<1> HIDE DEF row
<1>8. /\ DOMAIN nodeId' = DOMAIN nodeId \cup {g} /\ nodeId'[g] = nextNode
      /\ \A x \in DOMAIN nodeId : nodeId'[x] = nodeId[x]
  BY <1>1, <1>2
<1>9. IdsBelow'
  BY <1>1, <1>3, <1>4, <1>5, <1>6, <1>8 DEF IdsBelow
<1>10. IdsDistinct'
  BY <1>1, <1>3, <1>4, <1>5, <1>6, <1>8 DEF IdsDistinct
<1>11. \A n \in AllNodes : n.guid # g
  BY <1>1, <1>3, <1>7 DEF RowsCached
<1>12. OneRowPerHardware'
  BY <1>3, <1>5, <1>6, <1>11 DEF OneRowPerHardware, AllNodes, AllPorts
<1>13. FactsTell'
  <2> SUFFICES ASSUME NEW f \in facts \cup batch, NEW r \in AllPorts, r.id = f.id
               PROVE  Names(r, f.port)'
    BY <1>1, <1>5 DEF FactsTell
  <2>1. Names(r, f.port)
    BY <1>3 DEF FactsTell
  <2>2. r.node # row.id
    BY <1>4, <1>6
  <2> QED
    BY <1>5, <2>1, <2>2 DEF Names, AllNodes
<1>14. LatestBacked'
  BY <1>1, <1>3 DEF LatestBacked
<1>15. RowsCached'
  BY <1>1, <1>3, <1>5, <1>6, <1>7, <1>8, <1>11 DEF RowsCached
<1>16. CacheBacked'
  BY <1>1, <1>3, <1>5, <1>6, <1>7, <1>8 DEF CacheBacked
<1>17. FactsBacked'
  BY <1>1, <1>3, <1>5 DEF FactsBacked, Running
<1>18. Places'
  BY <1>1, <1>3 DEF Places, Up
<1>19. ErrorsResolve' /\ SoundSweepsLand'
  BY <1>1 DEF IInv, ErrorsResolve, SoundSweepsLand
<1> QED
  BY <1>9, <1>10, <1>12, <1>13, <1>14, <1>15, <1>16, <1>17, <1>18, <1>19 DEF RowsOK, PlacesOK

\* And so does a new port row, under its node's row.
LEMMA PortStep ==
  ASSUME IInv, NEW p \in Hw, EnsurePort(p)
  PROVE  RowsOK' /\ PlacesOK'
<1> DEFINE row == [node |-> nodeId[p[1]], num |-> p[2], id |-> nextPort]
           key == <<nodeId[p[1]], p[2]>>
<1>1. /\ UNCHANGED <<node, port, nextNode, latest, facts, freshNode, nodeId, main, traffic,
                     first, sweep, batch, conn, outcome, bad, starts>>
      /\ main = "identity" /\ ~ Cached(p) /\ NodesKnown /\ p \in sweep.ports
      /\ freshPort' = freshPort \cup {row} /\ nextPort' = nextPort + 1
  BY DEF EnsurePort, NewPortId
<1>2. portId' = [k \in DOMAIN portId \cup {key} |-> IF k = key THEN nextPort ELSE portId[k]]
  BY DEF EnsurePort, RememberPort, NewPortId
<1>3. /\ TypeOK /\ IdsBelow /\ IdsDistinct /\ RowsCached /\ Places /\ OneRowPerHardware
      /\ FactsTell /\ LatestBacked /\ CacheBacked /\ FactsBacked
  BY DEF IInv
<1>4. p[1] \in DOMAIN nodeId
  BY <1>1, <1>3, SweepPorts DEF NodesKnown, TypeOK
<1>5. key \notin DOMAIN portId
  BY <1>1, <1>4 DEF Cached
<1>6. /\ nextPort \in Nat
      /\ \A r \in AllPorts : r.id \in Nat /\ r.id < nextPort
      /\ \A k \in DOMAIN portId : portId[k] \in Nat /\ portId[k] < nextPort
      /\ \A f \in facts \cup batch : f.id \in Nat /\ f.id < nextPort
      /\ nodeId[p[1]] < nextNode
  BY <1>3, <1>4 DEF TypeOK, IdsBelow, AllPorts, PortRow, Fact
<1>7. AllNodes' = AllNodes /\ AllPorts' = AllPorts \cup {row}
  BY <1>1 DEF AllNodes, AllPorts
<1>8. row.node = nodeId[p[1]] /\ row.num = p[2] /\ row.id = nextPort
      /\ <<row.node, row.num>> = key
  OBVIOUS
<1>9. Up
  BY <1>1 DEF Up
<1> HIDE DEF row, key
<1>10. /\ DOMAIN portId' = DOMAIN portId \cup {key} /\ portId'[key] = nextPort
       /\ \A k \in DOMAIN portId : portId'[k] = portId[k]
  BY <1>2, <1>5
<1>11. IdsBelow'
  BY <1>1, <1>3, <1>6, <1>7, <1>8, <1>10 DEF IdsBelow
<1>12. IdsDistinct'
  BY <1>1, <1>3, <1>6, <1>7, <1>8, <1>10 DEF IdsDistinct
<1>13. \A r \in AllPorts : ~ (r.node = row.node /\ r.num = row.num)
  <2> SUFFICES ASSUME NEW r \in AllPorts, r.node = row.node, r.num = row.num PROVE FALSE
    OBVIOUS
  <2>1. <<r.node, r.num>> \in DOMAIN portId
    BY <1>3, <1>9 DEF RowsCached
  <2> QED
    BY <1>5, <1>8, <2>1
<1>14. OneRowPerHardware'
  BY <1>3, <1>7, <1>13 DEF OneRowPerHardware, AllNodes, AllPorts
<1>15. FactsTell'
  <2> SUFFICES ASSUME NEW f \in facts \cup batch, NEW r \in AllPorts', r.id = f.id
               PROVE  Names(r, f.port)'
    BY <1>1 DEF FactsTell
  <2>1. r \in AllPorts
    BY <1>6, <1>7, <1>8
  <2>2. Names(r, f.port)
    BY <1>3, <2>1 DEF FactsTell
  <2> QED
    BY <1>7, <2>2 DEF Names, AllNodes
<1>16. LatestBacked'
  BY <1>1, <1>3 DEF LatestBacked
<1>17. RowsCached'
  <2>1. ASSUME NEW r \in AllPorts'
        PROVE  <<r.node, r.num>> \in DOMAIN portId' /\ portId'[<<r.node, r.num>>] = r.id
    <3>1. CASE r \in AllPorts
      BY <1>3, <1>9, <1>10, <3>1 DEF RowsCached
    <3>2. CASE r = row
      BY <1>8, <1>10, <3>2
    <3> QED
      BY <1>7, <3>1, <3>2
  <2> QED
    BY <1>1, <1>3, <1>7, <1>9, <2>1 DEF RowsCached
<1>18. CacheBacked'
  BY <1>1, <1>3, <1>7, <1>8, <1>9, <1>10 DEF CacheBacked
<1>19. FactsBacked'
  BY <1>1, <1>3, <1>7 DEF FactsBacked, Running
<1>20. Places'
  BY <1>1, <1>3 DEF Places, Up
<1>21. ErrorsResolve' /\ SoundSweepsLand'
  BY <1>1 DEF IInv, ErrorsResolve, SoundSweepsLand
<1> QED
  BY <1>11, <1>12, <1>14, <1>15, <1>16, <1>17, <1>18, <1>19, <1>20, <1>21 DEF RowsOK, PlacesOK

\* The diff goes through: the open transaction's rows are now committed ones.
LEMMA CommitStep ==
  ASSUME IInv, Commit
  PROVE  RowsOK' /\ PlacesOK'
<1>1. /\ UNCHANGED <<nextNode, nextPort, facts, nodeId, portId, traffic, first, sweep, batch,
                     conn, bad, starts>>
      /\ main = "identity" /\ main' = "errors" /\ outcome' = "committed"
      /\ node' = node \cup freshNode /\ port' = port \cup freshPort
      /\ freshNode' = {} /\ freshPort' = {} /\ latest' = {Digest(sweep)}
  BY DEF Commit, cache
<1>2. IdentityDone /\ NodesKnown /\ Backed(sweep)
  BY DEF Commit, IdentityDone
<1>3. /\ TypeOK /\ IdsBelow /\ IdsDistinct /\ RowsCached /\ Places /\ OneRowPerHardware
      /\ FactsTell /\ CacheBacked /\ FactsBacked
  BY DEF IInv
<1>4. Up /\ Up' /\ Running /\ sweep \in Sweeps
  BY <1>1, <1>3 DEF Up, Running, Places
<1>5. AllNodes' = AllNodes /\ AllPorts' = AllPorts /\ node' = AllNodes /\ port' = AllPorts
  BY <1>1 DEF AllNodes, AllPorts
<1>6. node' \cup freshNode' = node \cup freshNode /\ port' \cup freshPort' = port \cup freshPort
  BY <1>1
<1>7. IdsBelow' /\ IdsDistinct'
  BY <1>1, <1>3, <1>5 DEF IdsBelow, IdsDistinct
<1>8. OneRowPerHardware' /\ FactsTell'
  BY <1>1, <1>3, <1>5, <1>6 DEF OneRowPerHardware, FactsTell, Names
<1>9. RowsCached' /\ CacheBacked' /\ FactsBacked'
  BY <1>1, <1>3, <1>4, <1>5 DEF RowsCached, CacheBacked, FactsBacked, Running
<1>10. ASSUME NEW p \in sweep.ports
       PROVE  \E n \in AllNodes, r \in AllPorts :
                /\ Cached(p) /\ r.id = Resolve(p) /\ Names(r, p)
                /\ n.guid = p[1] /\ r.node = n.id /\ r.num = p[2]
  <2>1. p \in Hw /\ Cached(p) /\ p[1] \in sweep.nodes
    BY <1>2, <1>4, SweepPorts DEF IdentityDone
  <2>2. PICK r \in AllPorts : r.id = Resolve(p)
    BY <1>2 DEF Backed, AllPorts
  <2>3. PICK n \in AllNodes : n.id = nodeId[p[1]]
    BY <1>2, <2>1 DEF Backed, AllNodes
  <2>4. Names(r, p) /\ r.node = nodeId[p[1]] /\ r.num = p[2]
    BY <1>3, <1>4, <2>1, <2>2, ResolveNames
  <2>5. n.guid = p[1]
    BY <2>3, <2>4 DEF Names, AllNodes
  <2> QED
    BY <2>1, <2>2, <2>3, <2>4, <2>5
<1>11. LatestBacked'
  <2> SUFFICES ASSUME NEW p \in sweep.ports
               PROVE  \E n \in node', r \in port' :
                        n.guid = p[1] /\ r.node = n.id /\ r.num = p[2]
    BY <1>1 DEF LatestBacked, Digest
  <2> QED
    BY <1>5, <1>10
<1>12. ErrorsResolve'
  <2> SUFFICES ASSUME NEW p \in sweep.ports
               PROVE  Cached(p)' /\ \E r \in port' : r.id = Resolve(p)' /\ Names(r, p)'
    BY <1>1 DEF ErrorsResolve
  <2>1. PICK r \in AllPorts : Cached(p) /\ r.id = Resolve(p) /\ Names(r, p)
    BY <1>10
  <2>2. Names(r, p)'
    BY <1>6, <2>1 DEF Names
  <2> QED
    BY <1>1, <1>5, <2>1, <2>2 DEF Cached, Resolve
<1>13. Places' /\ SoundSweepsLand'
  BY <1>1, <1>3, <1>4 DEF Places, SoundSweepsLand
<1> QED
  BY <1>7, <1>8, <1>9, <1>11, <1>12, <1>13 DEF RowsOK, PlacesOK

\* The open transaction rolls back: its rows go, the cache and the sequences stay.
LEMMA RollBack ==
  ASSUME IInv, facts' \cup batch' \subseteq facts \cup batch,
         freshNode' = {}, freshPort' = {}, Up' => Up,
         UNCHANGED <<node, port, nextNode, nextPort, latest, nodeId, portId>>
  PROVE  RowsOK' /\ RowsCached'
<1>1. AllNodes' \subseteq AllNodes /\ AllPorts' \subseteq AllPorts
  BY DEF AllNodes, AllPorts
<1>2. IdsBelow' /\ IdsDistinct' /\ RowsCached'
  BY <1>1 DEF IInv, IdsBelow, IdsDistinct, RowsCached
<1>3. OneRowPerHardware' /\ FactsTell' /\ LatestBacked'
  BY <1>1 DEF IInv, OneRowPerHardware, FactsTell, LatestBacked, Names, AllNodes, AllPorts
<1> QED
  BY <1>2, <1>3 DEF RowsOK

\* While the connection stands, only a sweep with impossible cabling is refused.
LEMMA RefusedForCause ==
  ASSUME IInv, Refuse, conn
  PROVE  bad # 0
<1> SUFFICES ASSUME bad = 0 PROVE FALSE
  OBVIOUS
<1>1. main = "identity" /\ CannotCommit
  BY DEF Refuse
<1>2. Up /\ sweep \in Sweeps /\ sweep.sound
  BY <1>1 DEF IInv, Places, Up
<1>3. /\ \A g \in DOMAIN nodeId : \E n \in AllNodes : n.id = nodeId[g]
      /\ \A k \in DOMAIN portId : \E r \in AllPorts : r.id = portId[k]
  BY <1>2 DEF IInv, CacheBacked
<1>4. ASSUME IdentityDone PROVE Backed(sweep)
  BY <1>3, <1>4 DEF IdentityDone, NodesKnown, Backed, Cached, Resolve, AllNodes, AllPorts
<1>5. ASSUME NodesKnown, NEW p \in sweep.ports
      PROVE  \E n \in AllNodes : n.id = nodeId[p[1]]
  BY <1>2, <1>3, <1>5, SweepPorts DEF NodesKnown
<1> QED
  BY <1>1, <1>2, <1>4, <1>5 DEF CannotCommit, AllNodes

\* A refused sweep leaves ids in the cache that no row has, and so counts as bad.
LEMMA RefuseStep ==
  ASSUME IInv, Refuse
  PROVE  RowsOK' /\ PlacesOK'
<1>1. /\ UNCHANGED <<node, port, nextNode, nextPort, latest, facts, nodeId, portId, traffic,
                     first, sweep, batch, conn, bad, starts>>
      /\ main = "identity" /\ main' = (IF first THEN "ended" ELSE "waiting")
      /\ freshNode' = {} /\ freshPort' = {}
  BY DEF Refuse, database, cache
<1>2. Up /\ Places
  BY <1>1 DEF IInv, Up
<1>3. RowsOK' /\ RowsCached'
  BY <1>1, <1>2, RollBack
<1>4. ~ (bad' = 0 /\ conn')
  BY <1>1, RefusedForCause
<1>5. CacheBacked' /\ FactsBacked' /\ SoundSweepsLand'
  BY <1>4 DEF CacheBacked, FactsBacked, SoundSweepsLand
<1>6. Places' /\ ErrorsResolve'
  BY <1>1, <1>2 DEF Places, ErrorsResolve, Up
<1> QED
  BY <1>3, <1>5, <1>6 DEF PlacesOK

\* New facts of resolved ports, in the tables or in the traffic thread's batch.
LEMMA FactsAdded ==
  ASSUME IInv, Up, NEW source \in {"errors", "traffic"}, NEW ports \in SUBSET Hw,
         facts' \cup batch' \subseteq facts \cup batch \cup Resolved(source, ports),
         UNCHANGED <<node, port, nextNode, nextPort, latest, freshNode, freshPort,
                     nodeId, portId, conn, bad, starts>>
  PROVE  RowsOK' /\ FactsBacked'
<1> DEFINE new == Resolved(source, ports)
<1>1. /\ TypeOK /\ IdsBelow /\ IdsDistinct /\ RowsCached /\ OneRowPerHardware
      /\ FactsTell /\ LatestBacked /\ CacheBacked /\ FactsBacked
  BY DEF IInv
<1>2. \A f \in new : /\ f.id < nextPort
                     /\ \A r \in AllPorts : r.id = f.id => Names(r, f.port)
                     /\ bad = 0 /\ conn => \E r \in AllPorts : r.id = f.id
  BY <1>1, ResolvedFacts
<1> HIDE DEF new
<1>3. facts' \cup batch' \subseteq facts \cup batch \cup new
  BY DEF new
<1>4. AllNodes' = AllNodes /\ AllPorts' = AllPorts
  BY DEF AllNodes, AllPorts
<1>5. IdsBelow' /\ IdsDistinct'
  BY <1>1, <1>2, <1>3, <1>4 DEF IdsBelow, IdsDistinct
<1>6. OneRowPerHardware' /\ LatestBacked'
  BY <1>1 DEF OneRowPerHardware, LatestBacked
<1>7. FactsTell'
  BY <1>1, <1>2, <1>3, <1>4 DEF FactsTell, Names
<1>8. Running
  BY DEF Up, Running
<1>9. FactsBacked'
  BY <1>1, <1>2, <1>3, <1>4, <1>8 DEF FactsBacked
<1> QED
  BY <1>5, <1>6, <1>7, <1>9 DEF RowsOK

\* The error half records what its ports resolve to, or fails.
LEMMA ErrorStep ==
  ASSUME IInv, NEW named \in Dumps, ErrorHalf(named)
  PROVE  RowsOK' /\ PlacesOK'
<1>1. /\ UNCHANGED <<node, port, nextNode, nextPort, latest, nodeId, portId, freshNode,
                     freshPort, sweep, batch, conn, outcome, bad, starts>>
      /\ main = "errors" /\ main' \in {"joining", "waiting"} /\ first' = FALSE
      /\ traffic' = IF first THEN "connecting" ELSE traffic
      /\ facts' \subseteq facts \cup Resolved("errors", named \cup sweep.ports)
  BY DEF ErrorHalf, cache, fresh
<1>2. TypeOK /\ Places /\ RowsCached /\ CacheBacked /\ SoundSweepsLand
  BY DEF IInv
<1>3. Up /\ Up'
  BY <1>1 DEF Up
<1>4. named \cup sweep.ports \in SUBSET Hw
  BY <1>2, CollectorAssumption, SweepPorts DEF TypeOK
<1>5. RowsOK' /\ FactsBacked'
  BY <1>1, <1>3, <1>4, FactsAdded
<1>6. RowsCached' /\ CacheBacked'
  BY <1>1, <1>2, <1>3 DEF RowsCached, CacheBacked, AllNodes, AllPorts
<1>7. Places' /\ ErrorsResolve' /\ SoundSweepsLand'
  BY <1>1, <1>2, <1>3 DEF Places, ErrorsResolve, SoundSweepsLand
<1> QED
  BY <1>5, <1>6, <1>7 DEF PlacesOK

\* The traffic thread resolves its dump; what it holds is as good as recorded.
LEMMA ResolveStep ==
  ASSUME IInv, NEW named \in Dumps, ResolveTraffic(named)
  PROVE  RowsOK' /\ PlacesOK'
<1>1. /\ UNCHANGED <<node, port, nextNode, nextPort, latest, facts, nodeId, portId, freshNode,
                     freshPort, main, first, sweep, conn, outcome, bad, starts>>
      /\ traffic # "none" /\ batch' = Resolved("traffic", named)
  BY DEF ResolveTraffic, database, cache, fresh
<1>2. /\ Places /\ RowsCached /\ CacheBacked /\ ErrorsResolve /\ SoundSweepsLand
  BY DEF IInv
<1>3. Up /\ ~ first
  BY <1>1, <1>2 DEF Places
<1>4. named \in SUBSET Hw
  BY CollectorAssumption
<1>5. RowsOK' /\ FactsBacked'
  BY <1>1, <1>3, <1>4, FactsAdded
<1>6. RowsCached' /\ CacheBacked'
  BY <1>1, <1>2 DEF RowsCached, CacheBacked, AllNodes, AllPorts, Up
<1>7. Places' /\ ErrorsResolve' /\ SoundSweepsLand'
  BY <1>1, <1>2, <1>3 DEF Places, ErrorsResolve, SoundSweepsLand, Cached, Resolve, Names, Up
<1> QED
  BY <1>5, <1>6, <1>7 DEF PlacesOK

\* Threads that wake, connect, commit, stop and are signalled touch no row.
LEMMA QuietStep ==
  ASSUME IInv, \/ Wake \/ Exit \/ Connect \/ CommitTraffic \/ StopTraffic \/ Signal
               \/ UNCHANGED vars
  PROVE  RowsOK' /\ PlacesOK'
<1>1. /\ facts' \cup batch' \subseteq facts \cup batch
      /\ UNCHANGED <<node, port, nextNode, nextPort, latest, nodeId, portId, freshNode,
                     freshPort, first, sweep, conn, outcome, bad, starts>>
      /\ traffic # "none" \/ traffic' \in {"none", traffic}
  BY DEF Wake, Exit, Connect, CommitTraffic, StopTraffic, Signal, vars, database, cache, fresh
<1>2. \/ main' = main
      \/ main \in {"waiting", "joining"} /\ main' \in {"joining", "collecting"}
      \/ main = "joining" /\ main' = "ended" /\ traffic' = "none"
  BY DEF Wake, Exit, Connect, CommitTraffic, StopTraffic, Signal, vars, database, cache, fresh
<1>3. Places /\ ErrorsResolve /\ SoundSweepsLand
  BY DEF IInv
<1>4. (Up' => Up) /\ (Running' => Running)
  BY <1>2 DEF Up, Running
<1>5. RowsOK'
  BY <1>1, RowsSame
<1>6. RowsCached' /\ CacheBacked' /\ FactsBacked'
  BY <1>1, <1>4, PlacesSame
<1>7. Places'
  BY <1>1, <1>2, <1>3 DEF Places, Up
<1>8. ErrorsResolve' /\ SoundSweepsLand'
  BY <1>1, <1>2, <1>3 DEF ErrorsResolve, SoundSweepsLand, Cached, Resolve, Names
<1> QED
  BY <1>5, <1>6, <1>7, <1>8 DEF PlacesOK

\* A kill or a lost connection takes the open transactions with it.
LEMMA BreakStep ==
  ASSUME IInv, Kill \/ LoseConnection
  PROVE  RowsOK' /\ PlacesOK'
<1>1. /\ UNCHANGED <<node, port, nextNode, nextPort, latest, facts, nodeId, portId, first,
                     sweep, outcome, bad, starts>>
      /\ batch' \subseteq batch /\ freshNode' = {} /\ freshPort' = {} /\ (conn' => conn)
      /\ \/ main' = "ended" /\ traffic' = "none"
         \/ UNCHANGED <<main, traffic>> /\ conn' = FALSE
  BY DEF Kill, LoseConnection, database, cache
<1>2. Places /\ ErrorsResolve /\ SoundSweepsLand
  BY DEF IInv
<1>3. Up' => Up
  BY <1>1 DEF Up
<1>4. RowsOK' /\ RowsCached'
  BY <1>1, <1>3, RollBack
<1>5. CacheBacked' /\ FactsBacked'
  BY <1>1 DEF CacheBacked, FactsBacked, Up, Running
<1>6. Places' /\ SoundSweepsLand'
  BY <1>1, <1>2 DEF Places, SoundSweepsLand, Up
<1>7. ErrorsResolve'
  <2> SUFFICES ASSUME main' = "errors", sweep.complete, NEW p \in sweep.ports
               PROVE  Cached(p)' /\ \E r \in port' : r.id = Resolve(p)' /\ Names(r, p)'
    BY <1>1 DEF ErrorsResolve
  <2>1. PICK r \in port : Cached(p) /\ r.id = Resolve(p) /\ Names(r, p)
    BY <1>1, <1>2 DEF ErrorsResolve
  <2> QED
    BY <1>1, <2>1 DEF Cached, Resolve, Names
<1> QED
  BY <1>4, <1>5, <1>6, <1>7 DEF PlacesOK

\* A restarted process has an empty cache, until it starts.
LEMMA RestartStep ==
  ASSUME IInv, Restart
  PROVE  RowsOK' /\ PlacesOK'
<1>1. /\ UNCHANGED <<node, port, nextNode, nextPort, latest, facts, freshNode, freshPort,
                     first, sweep, bad>>
      /\ main = "ended" /\ main' = "starting" /\ traffic' = "none" /\ batch' = {}
      /\ starts' = starts + 1 /\ outcome' = "none"
  BY DEF Restart, Running, database, fresh
<1>2. DOMAIN nodeId' = {} /\ DOMAIN portId' = {}
  BY DEF Restart
<1>3. /\ TypeOK /\ IdsBelow /\ IdsDistinct /\ Places /\ OneRowPerHardware /\ FactsTell
      /\ LatestBacked
  BY DEF IInv
<1>4. AllNodes' = AllNodes /\ AllPorts' = AllPorts
  BY <1>1 DEF AllNodes, AllPorts
<1>5. IdsBelow' /\ IdsDistinct'
  BY <1>1, <1>2, <1>3, <1>4 DEF IdsBelow, IdsDistinct
<1>6. OneRowPerHardware' /\ FactsTell' /\ LatestBacked'
  BY <1>1, <1>3, <1>4 DEF OneRowPerHardware, FactsTell, LatestBacked, Names
<1>7. starts' > 1
  BY <1>1, <1>3 DEF TypeOK, Places
<1>8. RowsCached' /\ CacheBacked' /\ FactsBacked'
  BY <1>1, <1>7 DEF RowsCached, CacheBacked, FactsBacked, Up
<1>9. Places' /\ ErrorsResolve' /\ SoundSweepsLand'
  BY <1>1, <1>3, <1>7 DEF Places, ErrorsResolve, SoundSweepsLand
<1> QED
  BY <1>5, <1>6, <1>8, <1>9 DEF RowsOK, PlacesOK

\* The inductive invariant holds for ever.
LEMMA CollectorInvariant == Spec => []IInv
<1>1. Init => IInv
  <2> SUFFICES ASSUME Init PROVE IInv
    OBVIOUS
  <2>1. DOMAIN nodeId = {} /\ DOMAIN portId = {} /\ AllNodes = {} /\ AllPorts = {}
        /\ facts \cup batch = {} /\ latest = {}
    BY DEF Init, AllNodes, AllPorts
  <2>2. TypeOK
    BY <2>1 DEF Init, TypeOK, MainPlaces, TrafficPlaces
  <2>3. IdsBelow /\ IdsDistinct /\ FactsTell /\ LatestBacked
    BY <2>1 DEF IdsBelow, IdsDistinct, FactsTell, LatestBacked
  <2>4. OneRowPerHardware /\ Places /\ ErrorsResolve /\ SoundSweepsLand
    BY <2>1 DEF Init, OneRowPerHardware, Places, ErrorsResolve, SoundSweepsLand
  <2>5. RowsCached /\ CacheBacked /\ FactsBacked
    BY <2>1 DEF Init, RowsCached, CacheBacked, FactsBacked, Up
  <2> QED
    BY <2>2, <2>3, <2>4, <2>5 DEF IInv
<1>2. IInv /\ [Next]_vars => IInv'
  <2> SUFFICES ASSUME IInv, [Next]_vars PROVE IInv'
    OBVIOUS
  <2>1. TypeOK'
    BY TypeStep DEF IInv
  <2>2. RowsOK' /\ PlacesOK'
    BY StartStep, BeginStep, NodeStep, PortStep, CommitStep, RefuseStep, ErrorStep,
       ResolveStep, QuietStep, BreakStep, RestartStep
       DEF Next, MainStep, TrafficStep, Terminated
  <2> QED
    BY <2>1, <2>2 DEF IInv, RowsOK, PlacesOK
<1> QED
  BY <1>1, <1>2, PTL DEF Spec

\* An id names one piece of hardware for ever, and every counter row recorded
\* under it was read from that hardware, whatever was rolled back, killed or
\* restarted while the traffic thread held ids it had resolved: the cache never
\* holds an id of another port, because sequences hand no id out twice.
THEOREM IdsNameTheirHardware == Spec => []IdsNameHardware
<1>1. IInv => IdsNameHardware
  BY DEF IInv, IdsNameHardware, FactsTell, FactsNameTheirPort, AllPorts
<1> QED
  BY <1>1, CollectorInvariant, PTL

\* Nothing read is lost without a cause: the error half resolves every port of a
\* complete sweep, until a roll back every fact has its row, and only impossible
\* cabling or a lost connection refuses a sweep.
THEOREM NothingLost == Spec => []NothingIsLost
<1>1. IInv => NothingIsLost
  BY DEF IInv, NothingIsLost, FactsBacked, FactsHaveRows, AllPorts
<1> QED
  BY <1>1, CollectorInvariant, PTL

-----------------------------------------------------------------------------
(* Error counters.  The readers pick readings with CHOOSE and take extremes  *)
(* of sets of values; the first part shows that there is something to pick.  *)

\* A set of naturals that has an element has a smallest one.
LEMMA Lowest ==
  ASSUME NEW S \in SUBSET Nat, S # {}
  PROVE  \E m \in S : \A n \in S : m <= n
<1> DEFINE R == OpToRel(<, Nat)
<1>1. IsWellFoundedOn(R, Nat)
  BY NatLessThanWellFounded
<1>2. \A x, y \in Nat : <<y, x>> \in R <=> y < x
  BY DEF OpToRel
<1> HIDE DEF R
<1>3. PICK m \in S : \A n \in S : ~ (<<n, m>> \in R)
  BY <1>1, WFMin
<1>4. ASSUME NEW n \in S PROVE m <= n
  <2>1. m \in Nat /\ n \in Nat /\ ~ (n < m)
    BY <1>2, <1>3
  <2> QED
    BY <2>1
<1> QED
  BY <1>4

\* A bounded one also has a largest.
LEMMA Highest ==
  ASSUME NEW H \in Nat, NEW S \in SUBSET (0 .. H), S # {}
  PROVE  \E m \in S : \A n \in S : n <= m
<1> DEFINE T == {H - n : n \in S}
<1>1. T \in SUBSET Nat /\ T # {}
  <2>1. \A n \in S : H - n \in Nat
    OBVIOUS
  <2> QED
    BY <2>1
<1>2. PICK t \in T : \A u \in T : t <= u
  BY <1>1, Lowest
<1>3. PICK m \in S : t = H - m
  OBVIOUS
<1>4. ASSUME NEW n \in S PROVE n <= m
  <2>1. H - n \in T
    OBVIOUS
  <2>2. t <= H - n
    BY <1>2, <2>1
  <2> QED
    BY <1>3, <2>2
<1> QED
  BY <1>4

-----------------------------------------------------------------------------
(* What the readers pick.                                                  *)

\* The readings of one port have one for each instant.
Series(S) == S \subseteq Reading /\ \A r, s \in S : r.at = s.at => r = s

\* The newest reading of a series is the one at the latest instant.
LEMMA NewestIs ==
  ASSUME NEW S, Series(S), S # {}
  PROVE  /\ Newest(S) \in S
         /\ Newest(S) \in Reading
         /\ \A s \in S : s.at <= Newest(S).at
         /\ \A r \in S : (\A s \in S : s.at <= r.at) => r = Newest(S)
<1> DEFINE T == {s.at : s \in S}
<1>1. T \in SUBSET (0 .. Horizon) /\ T # {}
  BY CountersAssumption DEF Series, Reading
<1>2. Horizon \in Nat
  BY CountersAssumption
<1>3. PICK t \in T : \A u \in T : u <= t
  BY <1>1, <1>2, Highest
<1>4. PICK r \in S : r.at = t
  OBVIOUS
<1>5. \E x \in S : \A s \in S : s.at <= x.at
  BY <1>3, <1>4
<1>6. Newest(S) \in S /\ \A s \in S : s.at <= Newest(S).at
  BY <1>5 DEF Newest
<1>7. ASSUME NEW x \in S, \A s \in S : s.at <= x.at
      PROVE  x = Newest(S)
  <2>1. x.at <= Newest(S).at /\ Newest(S).at <= x.at
    BY <1>6, <1>7
  <2>2. x.at \in Int /\ Newest(S).at \in Int
    BY <1>6 DEF Series, Reading
  <2>3. x.at = Newest(S).at
    BY <2>1, <2>2
  <2> QED
    BY <1>6, <2>3 DEF Series
<1> QED
  BY <1>6, <1>7 DEF Series

\* The extremes of the values of a series are values of readings of it.
LEMMA ExtremesAre ==
  ASSUME NEW S, Series(S), S # {}
  PROVE  /\ \E r \in S : Min(Values(S)) = r.value
         /\ \E r \in S : Max(Values(S)) = r.value
         /\ \A r \in S : Min(Values(S)) <= r.value /\ r.value <= Max(Values(S))
<1> DEFINE V == Values(S)
<1>1. V \in SUBSET (0 .. Ceiling) /\ V \in SUBSET Nat /\ V # {}
  BY CountersAssumption DEF Series, Reading, Values
<1>2. Ceiling \in Nat
  BY CountersAssumption
<1>3. \E m \in V : \A n \in V : m <= n
  BY <1>1, Lowest
<1>4. \E m \in V : \A n \in V : n <= m
  BY <1>1, <1>2, Highest
<1>5. Min(V) \in V /\ \A n \in V : Min(V) <= n
  BY <1>3 DEF Min
<1>6. \E m \in V : \A n \in V : m >= n
  BY <1>1, <1>4
<1>7. Max(V) \in V /\ \A n \in V : Max(V) >= n
  BY <1>6 DEF Max
<1>8. \A r \in S : r.value \in V
  BY DEF Values
<1>9. ASSUME NEW v \in V PROVE \E r \in S : v = r.value
  BY DEF Values
<1>10. \A r \in S : r.value <= Max(V)
  <2> TAKE r \in S
  <2>1. Max(V) >= r.value /\ Max(V) \in Int /\ r.value \in Int
    BY <1>1, <1>7, <1>8
  <2> QED
    BY <2>1
<1> HIDE DEF V
<1>11. \A r \in S : Min(V) <= r.value
  BY <1>5, <1>8
<1>12. (\E r \in S : Min(V) = r.value) /\ (\E r \in S : Max(V) = r.value)
  BY <1>5, <1>7, <1>9
<1> QED
  BY <1>10, <1>11, <1>12 DEF V

\* The instants of a series have a first one.
LEMMA EarliestIs ==
  ASSUME NEW S, Series(S), S # {}
  PROVE  /\ \E r \in S : Min({s.at : s \in S}) = r.at
         /\ \A r \in S : Min({s.at : s \in S}) <= r.at
<1> DEFINE T == {s.at : s \in S}
<1>1. T \in SUBSET Nat /\ T # {}
  BY DEF Series, Reading
<1>2. \E m \in T : \A n \in T : m <= n
  BY <1>1, Lowest
<1>3. Min(T) \in T /\ \A n \in T : Min(T) <= n
  BY <1>2 DEF Min
<1> QED
  BY <1>3

-----------------------------------------------------------------------------
(* The inductive invariant.                                                *)

\* A counter that stood at v0 after t0 errors and c0 clears may stand at v1
\* after t1 and c1: it has not risen by more than the errors, nor after a clear
\* above them, and while nobody cleared it not fallen, nor risen by less unless
\* it is saturated.
Follows(v0, t0, c0, v1, t1, c1) ==
  /\ v1 <= v0 + (t1 - t0)
  /\ c0 # c1 => v1 <= t1 - t0
  /\ c0 = c1 => v0 <= v1 /\ (v1 < Ceiling => v1 = v0 + (t1 - t0))

\* Readings are of cycles that have been.
ReadingsPast == \A r \in readings : r.at <= Len(truth)

\* Errors and clears only ever add up.
HistoryGrows ==
  \A p \in Port : \A j \in DOMAIN truth :
    /\ truth[j][p].total <= total[p] /\ truth[j][p].clears <= clears[p]
    /\ \A i \in 1 .. j : /\ truth[i][p].total <= truth[j][p].total
                         /\ truth[i][p].clears <= truth[j][p].clears

\* The dump of its cycle came to the port of the reading.
Came(r) == ~ truth[r.at][r.port].missed

\* The counter follows every reading that was really taken ...
CounterFollows ==
  \A r \in readings :
    Came(r) => Follows(r.value, truth[r.at][r.port].total, truth[r.at][r.port].clears,
                       counter[r.port], total[r.port], clears[r.port])

\* ... and so does every later reading of the port.
ReadingsFollow ==
  \A r, s \in readings :
    r.port = s.port /\ r.at <= s.at /\ Came(r) /\ Came(s) =>
      Follows(r.value, truth[r.at][r.port].total, truth[r.at][r.port].clears,
              s.value, truth[s.at][s.port].total, truth[s.at][s.port].clears)

\* The inductive invariant.
CountersInv == CountersTypeOK /\ ReadingsPast /\ HistoryGrows /\ CounterFollows /\ ReadingsFollow

\* The types, used one by one.
LEMMA Typed ==
  ASSUME CountersTypeOK
  PROVE  /\ \A p \in Port : /\ counter[p] \in 0 .. Ceiling /\ total[p] \in 0 .. MaxErrors
                            /\ clears[p] \in 0 .. MaxClears
         /\ DOMAIN truth = 1 .. Len(truth) /\ Len(truth) \in Nat
         /\ \A i \in DOMAIN truth : \A p \in Port :
              /\ truth[i][p].total \in Nat /\ truth[i][p].clears \in Nat
              /\ truth[i][p].missed \in BOOLEAN
         /\ \A r \in readings : /\ r.port \in Port /\ r.at \in 1 .. Horizon
                                /\ r.value \in 0 .. Ceiling /\ r.value \in Nat /\ r.at \in Nat
<1>1. \A i \in DOMAIN truth : truth[i] \in PortHistory
  BY DEF CountersTypeOK
<1>2. DOMAIN truth = 1 .. Len(truth) /\ Len(truth) \in Nat
  BY DEF CountersTypeOK
<1>3. \A i \in DOMAIN truth : \A p \in Port :
        truth[i][p] \in [total  : 0 .. MaxErrors, clears : 0 .. MaxClears, missed : BOOLEAN]
  BY <1>1 DEF PortHistory
<1>4. MaxErrors \in Nat /\ MaxClears \in Nat /\ Ceiling \in Nat /\ Horizon \in Nat
  BY CountersAssumption
<1>5. \A i \in DOMAIN truth : \A p \in Port :
              /\ truth[i][p].total \in Nat /\ truth[i][p].clears \in Nat
              /\ truth[i][p].missed \in BOOLEAN
  BY <1>3, <1>4
<1>6. \A r \in readings : /\ r.port \in Port /\ r.at \in 1 .. Horizon
                          /\ r.value \in 0 .. Ceiling /\ r.value \in Nat /\ r.at \in Nat
  BY <1>4 DEF CountersTypeOK, Reading
<1> QED
  BY <1>2, <1>5, <1>6 DEF CountersTypeOK

\* Following carries over to a counter that moves on.
LEMMA FollowsOn ==
  ASSUME NEW v0 \in Nat, NEW t0 \in Nat, NEW c0 \in Nat, NEW v1 \in Nat, NEW t1 \in Nat,
         NEW c1 \in Nat, t0 <= t1, c0 <= c1, Follows(v0, t0, c0, v1, t1, c1), v1 <= Ceiling
  PROVE  /\ Follows(v0, t0, c0, IF v1 < Ceiling THEN v1 + 1 ELSE v1, t1 + 1, c1)
         /\ Follows(v0, t0, c0, 0, t1, c1 + 1)
  BY CountersAssumption DEF Follows

\* An error or a clear: the history stands, the counter moves on.
LEMMA FabricStep ==
  ASSUME CountersInv, NEW p \in Port, Error(p) \/ Clear(p)
  PROVE  CountersInv'
<1>1. UNCHANGED <<truth, readings>>
  BY DEF Error, Clear
<1>2. CountersTypeOK /\ HistoryGrows /\ CounterFollows
  BY DEF CountersInv
<1>3. Ceiling \in Nat /\ MaxErrors \in Nat /\ MaxClears \in Nat
  BY CountersAssumption
<1>4. DOMAIN counter = Port /\ DOMAIN total = Port /\ DOMAIN clears = Port
  BY <1>2 DEF CountersTypeOK
<1>5. /\ \A q \in Port : q # p => /\ counter'[q] = counter[q] /\ total'[q] = total[q]
                                  /\ clears'[q] = clears[q]
      /\ \/ /\ counter'[p] = (IF counter[p] < Ceiling THEN counter[p] + 1 ELSE counter[p])
            /\ total'[p] = total[p] + 1 /\ clears'[p] = clears[p]
         \/ counter'[p] = 0 /\ total'[p] = total[p] /\ clears'[p] = clears[p] + 1
  BY <1>4 DEF Error, Clear
<1>6. CountersTypeOK'
  <2>1. CASE Error(p)
    <3>1. (IF counter[p] < Ceiling THEN counter[p] + 1 ELSE counter[p]) \in 0 .. Ceiling
          /\ total[p] + 1 \in 0 .. MaxErrors
      BY <1>2, <1>3, <2>1, Typed DEF Error
    <3> QED
      BY <1>1, <1>2, <2>1, <3>1 DEF Error, CountersTypeOK
  <2>2. CASE Clear(p)
    <3>1. 0 \in 0 .. Ceiling /\ clears[p] + 1 \in 0 .. MaxClears
      BY <1>2, <1>3, <2>2, Typed DEF Clear
    <3> QED
      BY <1>1, <1>2, <2>2, <3>1 DEF Clear, CountersTypeOK
  <2> QED
    BY <2>1, <2>2
<1>7. ReadingsPast' /\ ReadingsFollow'
  BY <1>1 DEF CountersInv, ReadingsPast, ReadingsFollow, Came
<1>8. HistoryGrows'
  <2>1. \A q \in Port : /\ total[q] <= total'[q] /\ clears[q] <= clears'[q]
                        /\ total[q] \in Nat /\ total'[q] \in Nat
                        /\ clears[q] \in Nat /\ clears'[q] \in Nat
    BY <1>2, <1>3, <1>5, Typed
  <2>2. ASSUME NEW q \in Port, NEW j \in DOMAIN truth
        PROVE  truth[j][q].total <= total'[q] /\ truth[j][q].clears <= clears'[q]
    <3>1. truth[j][q].total <= total[q] /\ truth[j][q].clears <= clears[q]
      BY <1>2 DEF HistoryGrows
    <3>2. truth[j][q].total \in Nat /\ truth[j][q].clears \in Nat
      BY <1>2, Typed
    <3> QED
      BY <2>1, <3>1, <3>2
  <2> QED
    BY <1>1, <1>2, <2>2 DEF HistoryGrows
<1>9. CounterFollows'
  <2> SUFFICES ASSUME NEW r \in readings, Came(r)
               PROVE  Follows(r.value, truth[r.at][r.port].total, truth[r.at][r.port].clears,
                              counter'[r.port], total'[r.port], clears'[r.port])
    BY <1>1 DEF CounterFollows, Came
  <2>1. Follows(r.value, truth[r.at][r.port].total, truth[r.at][r.port].clears,
                counter[r.port], total[r.port], clears[r.port])
    BY <1>2 DEF CounterFollows
  <2>2. r.port \in Port /\ r.value \in Nat /\ r.at \in DOMAIN truth
    BY <1>2, Typed DEF CountersInv, ReadingsPast
  <2>3. /\ truth[r.at][r.port].total \in Nat /\ truth[r.at][r.port].clears \in Nat
        /\ truth[r.at][r.port].total <= total[r.port]
        /\ truth[r.at][r.port].clears <= clears[r.port]
    BY <1>2, <2>2, Typed DEF HistoryGrows
  <2>4. counter[r.port] \in Nat /\ counter[r.port] <= Ceiling /\ total[r.port] \in Nat
        /\ clears[r.port] \in Nat
    BY <1>2, <1>3, <2>2, Typed
  <2>5. CASE r.port # p
    BY <1>5, <2>1, <2>2, <2>5
  <2>6. CASE r.port = p
    <3> DEFINE t0 == truth[r.at][p].total
               c0 == truth[r.at][p].clears
    <3>1. t0 \in Nat /\ c0 \in Nat /\ t0 <= total[p] /\ c0 <= clears[p]
      BY <2>3, <2>6
    <3>2. counter[p] \in Nat /\ counter[p] <= Ceiling /\ total[p] \in Nat /\ clears[p] \in Nat
      BY <2>4, <2>6
    <3>3. Follows(r.value, t0, c0, counter[p], total[p], clears[p])
      BY <2>1, <2>6
    <3> HIDE DEF t0, c0
    <3>4. /\ Follows(r.value, t0, c0, IF counter[p] < Ceiling THEN counter[p] + 1 ELSE counter[p],
                     total[p] + 1, clears[p])
          /\ Follows(r.value, t0, c0, 0, total[p], clears[p] + 1)
      BY <2>2, <3>1, <3>2, <3>3, FollowsOn
    <3>5. Follows(r.value, t0, c0, counter'[p], total'[p], clears'[p])
      BY <1>5, <3>4
    <3> QED
      BY <2>6, <3>5 DEF t0, c0
  <2> QED
    BY <2>5, <2>6
<1> QED
  BY <1>6, <1>7, <1>8, <1>9 DEF CountersInv

\* A reading's cycle stays as it was when another goes by.
LEMMA TickKeeps ==
  ASSUME CountersTypeOK, NEW missed, Tick(missed)
  PROVE  /\ Len(truth') = Len(truth) + 1
         /\ DOMAIN truth' = 1 .. Len(truth) + 1
         /\ \A i \in 1 .. Len(truth) : truth'[i] = truth[i]
         /\ \A p \in Port : /\ truth'[Len(truth) + 1][p].total = total[p]
                            /\ truth'[Len(truth) + 1][p].clears = clears[p]
                            /\ truth'[Len(truth) + 1][p].missed <=> p \in missed
         /\ truth' \in Seq(PortHistory) /\ Len(truth') <= Horizon
<1> DEFINE now == [p \in Port |-> [total |-> total[p], clears |-> clears[p],
                                   missed |-> p \in missed]]
<1>1. now \in PortHistory
  BY Typed DEF PortHistory
<1>2. truth' = Append(truth, now) /\ Len(truth) < Horizon
  BY DEF Tick
<1>3. truth \in Seq(PortHistory)
  BY DEF CountersTypeOK
<1>4. \A p \in Port : /\ now[p].total = total[p] /\ now[p].clears = clears[p]
                      /\ now[p].missed <=> p \in missed
  OBVIOUS
<1> HIDE DEF now
<1>5. /\ Len(truth') = Len(truth) + 1 /\ Len(truth) \in Nat
      /\ truth' \in Seq(PortHistory)
      /\ \A i \in 1 .. Len(truth) : truth'[i] = truth[i]
      /\ truth'[Len(truth) + 1] = now
  BY <1>1, <1>2, <1>3
<1>6. DOMAIN truth' = 1 .. Len(truth')
  BY <1>5
<1>7. Len(truth') <= Horizon
  BY <1>2, <1>5, CountersAssumption
<1> QED
  BY <1>4, <1>5, <1>6, <1>7

\* What a cycle stores: one reading of each port it names or knows, of the
\* cycle's instant, and the counter itself for every port the dump came to.
LEMMA Stored ==
  ASSUME CountersTypeOK, Len(truth) < Horizon, NEW named \in SUBSET Nonzero,
         NEW universe \in SUBSET Port, NEW r \in RowsOf(named, universe)
  PROVE  /\ r \in Reading /\ r.at = Len(truth) + 1
         /\ \A s \in RowsOf(named, universe) : s.port = r.port => s = r
         /\ r.port \notin Nonzero \ named => r.value = counter[r.port]
<1>1. named \cup universe \subseteq Port
  BY DEF Nonzero
<1>2. PICK p \in named \cup universe :
        r = [port |-> p, at |-> Len(truth) + 1, value |-> IF p \in named THEN counter[p] ELSE 0]
  BY DEF RowsOf
<1>3. \A s \in RowsOf(named, universe) : s.port = r.port => s = r
  BY <1>2 DEF RowsOf
<1>4. p \in Port /\ counter[p] \in 0 .. Ceiling /\ Len(truth) + 1 \in 1 .. Horizon
      /\ 0 \in 0 .. Ceiling
  BY <1>1, Typed, CountersAssumption
<1>5. r \in Reading
  BY <1>2, <1>4 DEF Reading
<1>6. r.port \notin Nonzero \ named => r.value = counter[r.port]
  BY <1>2, <1>4 DEF Nonzero
<1> QED
  BY <1>2, <1>3, <1>5, <1>6

\* A cycle, in which the dump names some of the nonzero ports and misses the rest.
LEMMA CycleStep ==
  ASSUME CountersInv, NEW named \in SUBSET Nonzero, NEW universe \in SUBSET Port,
         Tick(Nonzero \ named),
         readings' \in {readings, readings \cup RowsOf(named, universe)}
  PROVE  CountersInv'
<1> DEFINE new == RowsOf(named, universe)
           L == Len(truth)
<1>1. CountersTypeOK /\ ReadingsPast /\ HistoryGrows /\ CounterFollows /\ ReadingsFollow
  BY DEF CountersInv
<1>2. UNCHANGED <<counter, total, clears>> /\ L < Horizon
  BY DEF Tick
<1>3. /\ Len(truth') = L + 1 /\ DOMAIN truth' = 1 .. L + 1
      /\ \A i \in 1 .. L : truth'[i] = truth[i]
      /\ \A p \in Port : /\ truth'[L + 1][p].total = total[p]
                         /\ truth'[L + 1][p].clears = clears[p]
                         /\ truth'[L + 1][p].missed <=> p \in Nonzero \ named
      /\ truth' \in Seq(PortHistory) /\ Len(truth') <= Horizon
  BY <1>1, TickKeeps
<1>4. L \in Nat /\ DOMAIN truth = 1 .. L
  BY <1>1, Typed
<1>5. \A r \in new : /\ r \in Reading /\ r.at = L + 1 /\ r.port \in Port
                     /\ \A s \in new : s.port = r.port => s = r
                     /\ r.port \notin Nonzero \ named => r.value = counter[r.port]
  BY <1>1, <1>2, Stored DEF Reading
<1>6. \A r \in readings : r.at \in 1 .. L /\ r.port \in Port /\ r.value \in Nat
  BY <1>1, <1>4, Typed DEF ReadingsPast
<1> HIDE DEF new
<1>7. readings' \subseteq readings \cup new /\ readings' \in {readings, readings \cup new}
  BY DEF new
<1> HIDE DEF L
<1>8. CountersTypeOK'
  <2>1. readings' \subseteq Reading
    BY <1>1, <1>5, <1>7 DEF CountersTypeOK
  <2>2. \A r, s \in readings' : r.port = s.port /\ r.at = s.at => r = s
    <3> TAKE r, s \in readings'
    <3> HAVE r.port = s.port /\ r.at = s.at
    <3>1. CASE r \in readings /\ s \in readings
      BY <1>1, <3>1 DEF CountersTypeOK
    <3>2. CASE r \in new /\ s \in new
      BY <1>5, <3>2
    <3>3. ~ (r \in readings /\ s \in new) /\ ~ (r \in new /\ s \in readings)
      BY <1>4, <1>5, <1>6
    <3> QED
      BY <1>7, <3>1, <3>2, <3>3
  <2> QED
    BY <1>1, <1>2, <1>3, <2>1, <2>2 DEF CountersTypeOK
<1>9. ReadingsPast'
  BY <1>3, <1>4, <1>5, <1>6, <1>7 DEF ReadingsPast
<1>10. \A r \in readings : Came(r)' <=> Came(r)
  BY <1>3, <1>6 DEF Came
<1>11. \A r \in new : /\ r.at = L + 1 /\ r.port \in Port
                      /\ truth'[r.at][r.port].total = total[r.port]
                      /\ truth'[r.at][r.port].clears = clears[r.port]
                      /\ Came(r)' => r.value = counter[r.port]
  BY <1>3, <1>5 DEF Came
<1>12. \A p \in Port : counter[p] \in Nat /\ total[p] \in Nat /\ clears[p] \in Nat
  BY <1>1, Typed, CountersAssumption
<1>13. \A p \in Port : Follows(counter[p], total[p], clears[p], counter[p], total[p], clears[p])
  BY <1>12 DEF Follows
<1>14. \A r \in readings : truth'[r.at] = truth[r.at]
  BY <1>3, <1>6
<1>15. HistoryGrows'
  <2> SUFFICES ASSUME NEW p \in Port, NEW j \in 1 .. L + 1
               PROVE  /\ truth'[j][p].total <= total[p] /\ truth'[j][p].clears <= clears[p]
                      /\ \A i \in 1 .. j : /\ truth'[i][p].total <= truth'[j][p].total
                                           /\ truth'[i][p].clears <= truth'[j][p].clears
    BY <1>2, <1>3 DEF HistoryGrows
  <2>1. CASE j \in 1 .. L
    <3>1. \A i \in 1 .. j : truth'[i] = truth[i]
      BY <1>3, <1>4, <2>1
    <3> QED
      BY <1>1, <1>4, <2>1, <3>1 DEF HistoryGrows
  <2>2. CASE j = L + 1
    <3>1. truth'[j][p].total = total[p] /\ truth'[j][p].clears = clears[p]
      BY <1>3, <2>2
    <3>2. \A i \in 1 .. L : truth'[i][p].total <= total[p] /\ truth'[i][p].clears <= clears[p]
      BY <1>1, <1>3, <1>4 DEF HistoryGrows
    <3> QED
      BY <1>4, <1>12, <2>2, <3>1, <3>2
  <2> QED
    BY <1>4, <2>1, <2>2
<1>16. CounterFollows'
  <2> SUFFICES ASSUME NEW r \in readings', Came(r)'
               PROVE  Follows(r.value, truth'[r.at][r.port].total, truth'[r.at][r.port].clears,
                              counter[r.port], total[r.port], clears[r.port])
    BY <1>2 DEF CounterFollows
  <2>1. CASE r \in readings
    BY <1>1, <1>10, <1>14, <2>1 DEF CounterFollows
  <2>2. CASE r \in new
    BY <1>11, <1>13, <2>2
  <2> QED
    BY <1>7, <2>1, <2>2
<1>17. ReadingsFollow'
  <2> SUFFICES ASSUME NEW r \in readings', NEW s \in readings', r.port = s.port, r.at <= s.at,
                      Came(r)', Came(s)'
               PROVE  Follows(r.value, truth'[r.at][r.port].total, truth'[r.at][r.port].clears,
                              s.value, truth'[s.at][s.port].total, truth'[s.at][s.port].clears)
    BY DEF ReadingsFollow
  <2>1. CASE r \in readings /\ s \in readings
    BY <1>1, <1>10, <1>14, <2>1 DEF ReadingsFollow
  <2>2. CASE r \in readings /\ s \in new
    <3>1. Follows(r.value, truth[r.at][r.port].total, truth[r.at][r.port].clears,
                  counter[r.port], total[r.port], clears[r.port])
      BY <1>1, <1>10, <2>2 DEF CounterFollows
    <3> QED
      BY <1>11, <1>14, <2>2, <3>1
  <2>3. CASE r \in new /\ s \in new
    BY <1>5, <1>11, <1>13, <2>3
  <2>4. ~ (r \in new /\ s \in readings)
    BY <1>4, <1>6, <1>11
  <2> QED
    BY <1>7, <2>1, <2>2, <2>3, <2>4
<1> QED
  BY <1>8, <1>9, <1>15, <1>16, <1>17 DEF CountersInv

\* The inductive invariant holds for ever.
LEMMA CountersInvariant == CountersSpec => []CountersInv
<1>1. CountersInit => CountersInv
  <2> SUFFICES ASSUME CountersInit PROVE CountersInv
    OBVIOUS
  <2>1. Ceiling \in Nat /\ MaxErrors \in Nat /\ MaxClears \in Nat /\ Horizon \in Nat
    BY CountersAssumption
  <2>2. truth \in Seq(PortHistory) /\ Len(truth) = 0 /\ DOMAIN truth = {}
    BY DEF CountersInit
  <2>3. CountersTypeOK
    BY <2>1, <2>2 DEF CountersInit, CountersTypeOK
  <2>4. ReadingsPast /\ HistoryGrows /\ CounterFollows /\ ReadingsFollow
    BY <2>2 DEF CountersInit, ReadingsPast, HistoryGrows, CounterFollows, ReadingsFollow
  <2> QED
    BY <2>3, <2>4 DEF CountersInv
<1>2. CountersInv /\ [CountersNext]_countersVars => CountersInv'
  <2> SUFFICES ASSUME CountersInv, [CountersNext]_countersVars PROVE CountersInv'
    OBVIOUS
  <2>1. ASSUME NEW universe \in SUBSET Port, Poll(universe) PROVE CountersInv'
    <3>1. Nonzero \in SUBSET Nonzero /\ Nonzero \ Nonzero = {}
      OBVIOUS
    <3>2. Tick(Nonzero \ Nonzero) /\ readings' = readings \cup RowsOf(Nonzero, universe)
      BY <2>1, <3>1 DEF Poll
    <3> QED
      BY <3>1, <3>2, CycleStep
  <2>2. ASSUME NEW universe \in SUBSET Port, NEW named \in SUBSET Port,
               PollCutOff(named, universe)
        PROVE  CountersInv'
    BY <2>2, CycleStep DEF PollCutOff
  <2>3. CASE Skip
    <3>1. Nonzero \in SUBSET Nonzero /\ Nonzero \ Nonzero = {} /\ {} \in SUBSET Port
      OBVIOUS
    <3>2. Tick(Nonzero \ Nonzero) /\ readings' = readings
      BY <2>3, <3>1 DEF Skip
    <3> QED
      BY <3>1, <3>2, CycleStep
  <2>4. CASE UNCHANGED countersVars
    BY <2>4 DEF countersVars, CountersInv, CountersTypeOK, ReadingsPast, HistoryGrows, CounterFollows, ReadingsFollow,
                Came
  <2> QED
    BY <2>1, <2>2, <2>3, <2>4, FabricStep DEF CountersNext, AtBound
<1> QED
  BY <1>1, <1>2, PTL DEF CountersSpec

-----------------------------------------------------------------------------
(* What the readers answer.                                                *)

\* The readings of a port, before a window, in it and up to its end, are series.
LEMMA SeriesOf ==
  ASSUME CountersTypeOK, NEW p \in Port, NEW since, NEW until
  PROVE  /\ Series(RowsFor(p)) /\ Series(BeforeSince(p, since))
         /\ Series(InWindow(p, since, until)) /\ Series(UpTo(p, until))
  BY DEF CountersTypeOK, Series, RowsFor, BeforeSince, InWindow, UpTo

\* What a measured answer is: what moved and what went back in it.
LEMMA AnswerIs ==
  ASSUME NEW p \in Port, NEW w \in Measured(p)
  PROVE  /\ InWindow(p, w[1], w[2]) # {}
         /\ Answer(p, w).d = Moved(BeforeSince(p, w[1]), InWindow(p, w[1], w[2]))
         /\ Answer(p, w).reset <=> WentBack(BeforeSince(p, w[1]), InWindow(p, w[1], w[2]))
         /\ Answer(p, w).partial <=> BeforeSince(p, w[1]) = {}
<1> DEFINE before == BeforeSince(p, w[1])
           inside == InWindow(p, w[1], w[2])
           d == Moved(before, inside)
           back == WentBack(before, inside)
<1>1. Answer(p, w) = IF inside = {} \/ (before = {} /\ Cardinality(inside) < 2)
                       THEN [noData |-> TRUE]
                       ELSE [noData |-> FALSE, d |-> d, reset |-> back, partial |-> before = {}]
  BY DEF Answer, Delta
<1>2. ~ Answer(p, w).noData
  BY DEF Measured
<1> HIDE DEF before, inside, d, back
<1>3. ~ (inside = {} \/ (before = {} /\ Cardinality(inside) < 2))
  BY <1>1, <1>2
<1>4. inside # {}
  BY <1>3
<1>5. Answer(p, w) = [noData |-> FALSE, d |-> d, reset |-> back, partial |-> before = {}]
  BY <1>1, <1>3
<1>6. Answer(p, w).d = d /\ (Answer(p, w).reset <=> back)
  BY <1>5
<1>7. Answer(p, w).partial = (before = {})
  BY <1>5
<1> QED
  BY <1>4, <1>6, <1>7 DEF before, inside, d, back

\* The readings a measured answer is made of: of the port, and between the
\* reading it starts from and the one it ends with.
Used(p, w) == {r \in RowsFor(p) : Started(p, w) <= r.at /\ r.at <= Ended(p, w)}

\* The reading a measured answer starts from and the one it ends with.
First(p, w) == Newest({r \in RowsFor(p) : r.at <= Started(p, w)})
Last(p, w)  == Newest(InWindow(p, w[1], w[2]))

\* The ends of an answer: where it starts there is a reading, that of the
\* baseline if there is one, and all readings of the window lie between.
LEMMA EndsAre ==
  ASSUME CountersInv, NEW p \in Port, NEW w \in Measured(p)
  PROVE  /\ First(p, w) \in Used(p, w) /\ First(p, w).at = Started(p, w)
         /\ Last(p, w) \in Used(p, w) /\ Last(p, w).at = Ended(p, w)
         /\ Last(p, w) \in InWindow(p, w[1], w[2])
         /\ InWindow(p, w[1], w[2]) \subseteq Used(p, w)
         /\ BeforeSince(p, w[1]) # {} => First(p, w) = Newest(BeforeSince(p, w[1]))
         /\ BeforeSince(p, w[1]) = {} => First(p, w) \in InWindow(p, w[1], w[2])
         /\ Newest(UpTo(p, Ended(p, w))) = Last(p, w)
         /\ \A r \in RowsFor(p) : r.at = Started(p, w) => r = First(p, w)
         /\ \A r \in RowsFor(p) : r.at = Ended(p, w) => r = Last(p, w)
<1> DEFINE before == BeforeSince(p, w[1])
           inside == InWindow(p, w[1], w[2])
           a == Started(p, w)
           b == Ended(p, w)
<1>1. CountersTypeOK /\ Series(RowsFor(p)) /\ Series(before) /\ Series(inside)
  BY SeriesOf DEF CountersInv
<1>2. inside # {}
  BY AnswerIs
<1>3. w[1] \in Nat /\ w[2] \in Nat /\ w[1] < w[2]
  <2>1. Len(truth) \in Nat
    BY <1>1, Typed
  <2> QED
    BY <2>1 DEF Measured, Windows
<1>4. /\ Last(p, w) \in inside /\ Last(p, w).at = b
      /\ \A r \in inside : r.at <= b
  BY <1>1, <1>2, NewestIs DEF Last, Ended
<1>5. inside \subseteq RowsFor(p) /\ before \subseteq RowsFor(p)
  BY DEF InWindow, BeforeSince
<1>6. \A r \in RowsFor(p) : r.at \in Nat
  BY <1>1 DEF Series, Reading
<1>7. \E f \in RowsFor(p) :
        /\ f.at = a /\ a <= b /\ \A r \in inside : a <= r.at
        /\ before # {} => f = Newest(before)
        /\ before = {} => f \in inside
  <2>1. CASE before # {}
    <3>1. a = Newest(before).at
      BY <2>1 DEF Started
    <3>2. Newest(before) \in before
      BY <1>1, <2>1, NewestIs
    <3>3. a <= w[1]
      BY <3>1, <3>2 DEF BeforeSince
    <3>4. \A r \in inside : w[1] < r.at
      BY DEF InWindow
    <3>5. \A r \in inside : a <= r.at
      BY <1>3, <1>5, <1>6, <3>1, <3>2, <3>3, <3>4
    <3>6. a <= b
      BY <1>4, <3>5
    <3> QED
      BY <1>5, <2>1, <3>1, <3>2, <3>5, <3>6
  <2>2. CASE before = {}
    <3>1. a = Min({r.at : r \in inside})
      BY <2>2 DEF Started
    <3>2. /\ \E r \in inside : a = r.at
          /\ \A r \in inside : a <= r.at
      BY <1>1, <1>2, <3>1, EarliestIs
    <3>3. a <= b
      BY <1>4, <3>2
    <3> QED
      BY <1>5, <2>2, <3>2, <3>3
  <2> QED
    BY <2>1, <2>2
<1>8. PICK f \in RowsFor(p) :
        /\ f.at = a /\ a <= b /\ \A r \in inside : a <= r.at
        /\ before # {} => f = Newest(before)
        /\ before = {} => f \in inside
  BY <1>7
<1> HIDE DEF a, b, before, inside
<1>9. f = First(p, w)
  <2> DEFINE S == {r \in RowsFor(p) : r.at <= a}
  <2>1. Series(S)
    BY <1>1 DEF Series
  <2>2. f \in S
    BY <1>6, <1>8
  <2>3. \A r \in S : r.at <= f.at
    BY <1>8
  <2> HIDE DEF S
  <2>4. f = Newest(S)
    BY <2>1, <2>2, <2>3, NewestIs
  <2> QED
    BY <2>4 DEF S, First, a
<1>10. Newest(UpTo(p, b)) = Last(p, w)
  <2>1. Series(UpTo(p, b))
    BY <1>1, SeriesOf
  <2>2. Last(p, w) \in UpTo(p, b)
    BY <1>4, <1>5, <1>6 DEF UpTo
  <2>3. \A r \in UpTo(p, b) : r.at <= Last(p, w).at
    BY <1>4 DEF UpTo
  <2> QED
    BY <2>1, <2>2, <2>3, NewestIs
<1>11. \A r \in RowsFor(p) : (r.at = a => r = First(p, w)) /\ (r.at = b => r = Last(p, w))
  BY <1>1, <1>4, <1>5, <1>8, <1>9 DEF Series
<1>12. /\ First(p, w) \in Used(p, w) /\ Last(p, w) \in Used(p, w) /\ inside \subseteq Used(p, w)
  <2>1. Used(p, w) = {r \in RowsFor(p) : a <= r.at /\ r.at <= b}
    BY DEF Used, a, b
  <2>2. a \in Nat /\ b \in Nat
    BY <1>4, <1>5, <1>6, <1>8
  <2> QED
    BY <1>4, <1>5, <1>8, <1>9, <2>1, <2>2
<1> QED
  BY <1>4, <1>8, <1>9, <1>10, <1>11, <1>12 DEF a, b, before, inside

\* In an answer that no dump missed the port of, every reading follows the
\* earlier ones, and errors and clears add up from its start to its end.
LEMMA UsedFollow ==
  ASSUME CountersInv, NEW p \in Port, NEW w \in Measured(p), ~ Missed(p, w),
         NEW r \in Used(p, w), NEW s \in Used(p, w), r.at <= s.at
  PROVE  /\ Follows(r.value, truth[r.at][p].total, truth[r.at][p].clears,
                    s.value, truth[s.at][p].total, truth[s.at][p].clears)
         /\ truth[r.at][p].total <= truth[s.at][p].total
         /\ truth[r.at][p].clears <= truth[s.at][p].clears
         /\ r.value \in 0 .. Ceiling /\ s.value \in 0 .. Ceiling
         /\ truth[r.at][p].total \in Nat /\ truth[s.at][p].total \in Nat
         /\ truth[r.at][p].clears \in Nat /\ truth[s.at][p].clears \in Nat
<1>1. /\ CountersTypeOK /\ ReadingsPast /\ HistoryGrows /\ ReadingsFollow
  BY DEF CountersInv
<1>2. /\ r \in readings /\ s \in readings /\ r.port = p /\ s.port = p
      /\ Started(p, w) <= r.at /\ r.at <= Ended(p, w)
      /\ Started(p, w) <= s.at /\ s.at <= Ended(p, w)
  BY DEF Used, RowsFor
<1>3. /\ r.at \in Nat /\ s.at \in Nat /\ r.at \in DOMAIN truth /\ s.at \in DOMAIN truth
      /\ r.at \in 1 .. s.at
  BY <1>1, <1>2, Typed DEF ReadingsPast
<1>4. Started(p, w) \in Nat /\ Ended(p, w) \in Nat
  <2>1. First(p, w) \in readings /\ Last(p, w) \in readings
    BY EndsAre DEF Used, RowsFor
  <2> QED
    BY <1>1, <2>1, EndsAre, Typed
<1>5. r.at \in Started(p, w) .. Ended(p, w) /\ s.at \in Started(p, w) .. Ended(p, w)
  BY <1>2, <1>3, <1>4
<1>6. Came(r) /\ Came(s)
  BY <1>2, <1>5 DEF Missed, Came
<1>7. Follows(r.value, truth[r.at][p].total, truth[r.at][p].clears,
              s.value, truth[s.at][p].total, truth[s.at][p].clears)
  BY <1>1, <1>2, <1>6 DEF ReadingsFollow
<1>8. /\ truth[r.at][p].total <= truth[s.at][p].total
      /\ truth[r.at][p].clears <= truth[s.at][p].clears
  BY <1>1, <1>3 DEF HistoryGrows
<1>9. /\ r.value \in 0 .. Ceiling /\ s.value \in 0 .. Ceiling
      /\ truth[r.at][p].total \in Nat /\ truth[s.at][p].total \in Nat
      /\ truth[r.at][p].clears \in Nat /\ truth[s.at][p].clears \in Nat
  BY <1>1, <1>2, <1>3, Typed
<1> QED
  BY <1>7, <1>8, <1>9

\* What moved: from the first reading, or from the smallest, to the last.
LEMMA MovedIs ==
  ASSUME CountersInv, NEW p \in Port, NEW w \in Measured(p)
  PROVE  \E m \in Used(p, w) :
           /\ Answer(p, w).d = Positive(Last(p, w).value - m.value)
           /\ m = First(p, w) \/ m.value <= First(p, w).value
<1> DEFINE before == BeforeSince(p, w[1])
           inside == InWindow(p, w[1], w[2])
<1>1. Series(inside) /\ inside # {} /\ inside \subseteq Used(p, w)
  BY SeriesOf, AnswerIs, EndsAre DEF CountersInv
<1>2. Answer(p, w).d = Moved(before, inside)
  BY AnswerIs
<1>3. CASE before # {}
  <2>1. First(p, w) = Newest(before) /\ First(p, w) \in Used(p, w)
    BY <1>3, EndsAre
  <2>2. Answer(p, w).d = Positive(Last(p, w).value - First(p, w).value)
    BY <1>2, <1>3, <2>1 DEF Moved, Last
  <2> QED
    BY <2>1, <2>2
<1>4. CASE before = {}
  <2>1. PICK m \in inside : Min(Values(inside)) = m.value
    BY <1>1, ExtremesAre
  <2>2. \A r \in inside : m.value <= r.value
    BY <1>1, <2>1, ExtremesAre
  <2>3. First(p, w) \in inside
    BY <1>4, EndsAre
  <2>4. Answer(p, w).d = Positive(Last(p, w).value - m.value)
    BY <1>2, <1>4, <2>1 DEF Moved, Last
  <2> QED
    BY <1>1, <2>2, <2>3, <2>4
<1> QED
  BY <1>3, <1>4

\* Where the counter was not cleared no reading is below an earlier one.
LEMMA UndisturbedRises ==
  ASSUME CountersInv, NEW p \in Port, NEW w \in Measured(p), ~ Missed(p, w), ~ Cleared(p, w),
         NEW r \in Used(p, w)
  PROVE  /\ First(p, w).value <= r.value /\ r.value <= Last(p, w).value
         /\ Last(p, w).value < Ceiling => Last(p, w).value = First(p, w).value + Happened(p, w)
<1> DEFINE f == First(p, w)
           l == Last(p, w)
<1>1. /\ f \in Used(p, w) /\ l \in Used(p, w) /\ f.at = Started(p, w) /\ l.at = Ended(p, w)
  BY EndsAre
<1>2. f.at <= r.at /\ r.at <= l.at
  BY <1>1 DEF Used
<1>3. f.at <= l.at
  <2>1. r \in readings /\ f \in readings /\ l \in readings
    BY <1>1 DEF Used, RowsFor
  <2> QED
    BY <1>2, <2>1, Typed DEF CountersInv
<1>4. truth[f.at][p].clears = truth[l.at][p].clears
  BY <1>1 DEF Cleared
<1>5. Happened(p, w) = truth[l.at][p].total - truth[f.at][p].total
  BY <1>1 DEF Happened
<1> HIDE DEF f, l
<1>6. /\ Follows(f.value, truth[f.at][p].total, truth[f.at][p].clears,
                 r.value, truth[r.at][p].total, truth[r.at][p].clears)
      /\ truth[f.at][p].clears <= truth[r.at][p].clears
      /\ truth[f.at][p].clears \in Nat /\ truth[r.at][p].clears \in Nat
      /\ f.value \in 0 .. Ceiling /\ r.value \in 0 .. Ceiling
  BY <1>1, <1>2, UsedFollow
<1>7. /\ Follows(r.value, truth[r.at][p].total, truth[r.at][p].clears,
                 l.value, truth[l.at][p].total, truth[l.at][p].clears)
      /\ truth[r.at][p].clears <= truth[l.at][p].clears
      /\ truth[l.at][p].clears \in Nat
  BY <1>1, <1>2, UsedFollow
<1>8. /\ Follows(f.value, truth[f.at][p].total, truth[f.at][p].clears,
                 l.value, truth[l.at][p].total, truth[l.at][p].clears)
      /\ truth[f.at][p].total \in Nat /\ truth[l.at][p].total \in Nat
      /\ l.value \in 0 .. Ceiling
  BY <1>1, <1>3, UsedFollow
<1>9. truth[r.at][p].clears = truth[f.at][p].clears
  BY <1>4, <1>6, <1>7
<1>10. f.value <= r.value /\ r.value <= l.value
  BY <1>4, <1>6, <1>7, <1>9 DEF Follows
<1>11. l.value < Ceiling => l.value = f.value + Happened(p, w)
  BY <1>4, <1>5, <1>8 DEF Follows
<1> QED
  BY <1>10, <1>11 DEF f, l

\* Readings that rise never went back.
LEMMA UndisturbedUnflagged ==
  ASSUME CountersInv, NEW p \in Port, NEW w \in Measured(p), ~ Missed(p, w), ~ Cleared(p, w)
  PROVE  ~ Answer(p, w).reset
<1> DEFINE before == BeforeSince(p, w[1])
           inside == InWindow(p, w[1], w[2])
<1>1. Series(inside) /\ inside # {} /\ inside \subseteq Used(p, w)
  BY SeriesOf, AnswerIs, EndsAre DEF CountersInv
<1>2. \A r \in Used(p, w) : r.value \in Nat
  BY Typed DEF CountersInv, Used, RowsFor
<1>3. PICK x \in inside : Max(Values(inside)) = x.value
  BY <1>1, ExtremesAre
<1>4. PICK m \in inside : Min(Values(inside)) = m.value
  BY <1>1, ExtremesAre
<1>5. x.value <= Last(p, w).value /\ First(p, w).value <= m.value
  BY <1>1, UndisturbedRises
<1>6. x.value \in Nat /\ m.value \in Nat /\ Last(p, w).value \in Nat /\ First(p, w).value \in Nat
  BY <1>1, <1>2, EndsAre
<1>7. before # {} => Newest(before) = First(p, w)
  BY EndsAre
<1>8. Newest(inside) = Last(p, w)
  BY DEF Last
<1>9. ~ (Max(Values(inside)) > Newest(inside).value)
  BY <1>3, <1>5, <1>6, <1>8
<1>10. before # {} => ~ (Min(Values(inside)) < Newest(before).value)
  BY <1>4, <1>5, <1>6, <1>7
<1>11. ~ WentBack(before, inside)
  BY <1>9, <1>10 DEF WentBack
<1> QED
  BY <1>11, AnswerIs

\* The overlay's delta is sound, whatever was cleared, cut off, not stored or out
\* of the lookback: never more than the errors between the readings it is taken
\* from, and all of them where the counter was left alone.
THEOREM DeltaHolds == CountersSpec => []DeltaIsSound
<1>1. ASSUME CountersInv PROVE NeverOverstates
  <2> SUFFICES ASSUME NEW p \in Port, NEW w \in Measured(p), ~ Missed(p, w)
               PROVE  Answer(p, w).d <= Happened(p, w)
    BY DEF NeverOverstates
  <2> DEFINE f == First(p, w)
             l == Last(p, w)
  <2>1. PICK m \in Used(p, w) : Answer(p, w).d = Positive(l.value - m.value)
    BY <1>1, MovedIs
  <2>2. f \in Used(p, w) /\ l \in Used(p, w) /\ f.at = Started(p, w) /\ l.at = Ended(p, w)
    BY <1>1, EndsAre
  <2>3. Happened(p, w) = truth[l.at][p].total - truth[f.at][p].total
    BY <2>2 DEF Happened
  <2>4. f.at <= m.at /\ m.at <= l.at
    BY <2>2 DEF Used
  <2> HIDE DEF f, l
  <2>5. /\ truth[f.at][p].total <= truth[m.at][p].total
        /\ truth[f.at][p].total \in Nat /\ truth[m.at][p].total \in Nat
    BY <1>1, <2>2, <2>4, UsedFollow
  <2>6. /\ Follows(m.value, truth[m.at][p].total, truth[m.at][p].clears,
                   l.value, truth[l.at][p].total, truth[l.at][p].clears)
        /\ truth[m.at][p].total <= truth[l.at][p].total
        /\ truth[l.at][p].total \in Nat /\ m.value \in 0 .. Ceiling /\ l.value \in 0 .. Ceiling
    BY <1>1, <2>2, <2>4, UsedFollow
  <2>7. l.value <= m.value + (truth[l.at][p].total - truth[m.at][p].total)
    BY <2>6 DEF Follows
  <2> QED
    BY <2>1, <2>3, <2>5, <2>6, <2>7 DEF Positive
<1>2. ASSUME CountersInv PROVE ExactUnlessDisturbed
  <2> SUFFICES ASSUME NEW p \in Port, NEW w \in Measured(p), ~ Cleared(p, w), ~ Missed(p, w),
                      BelowCeiling(p, w)
               PROVE  Answer(p, w).d = Happened(p, w) /\ ~ Answer(p, w).reset
    BY DEF ExactUnlessDisturbed
  <2>1. PICK m \in Used(p, w) : /\ Answer(p, w).d = Positive(Last(p, w).value - m.value)
                                /\ m = First(p, w) \/ m.value <= First(p, w).value
    BY <1>2, MovedIs
  <2>2. Last(p, w).value < Ceiling
    BY <1>2, EndsAre DEF BelowCeiling
  <2>3. First(p, w).value <= m.value /\ Last(p, w).value = First(p, w).value + Happened(p, w)
    BY <1>2, <2>2, UndisturbedRises
  <2>4. First(p, w).value \in Nat /\ m.value \in Nat /\ Last(p, w).value \in Nat
    BY <1>2, EndsAre, Typed DEF CountersInv, Used, RowsFor
  <2>5. m.value = First(p, w).value
    BY <2>1, <2>3, <2>4
  <2>6. Happened(p, w) \in Nat
    <3>1. /\ First(p, w).at = Started(p, w) /\ Last(p, w).at = Ended(p, w)
          /\ First(p, w) \in Used(p, w) /\ Last(p, w) \in Used(p, w)
      BY <1>2, EndsAre
    <3>2. First(p, w).at <= Last(p, w).at
      BY <3>1 DEF Used
    <3> QED
      BY <1>2, <3>1, <3>2, UsedFollow DEF Happened
  <2>7. Answer(p, w).d = Happened(p, w)
    BY <2>1, <2>3, <2>4, <2>5, <2>6 DEF Positive
  <2> QED
    BY <1>2, <2>7, UndisturbedUnflagged
<1>3. CountersInv => DeltaIsSound
  BY <1>1, <1>2 DEF CountersInv, DeltaIsSound
<1> QED
  BY <1>3, CountersInvariant, PTL

\* A reading of an answer that starts after it is one of its window, unless it
\* is the baseline, which then is the answer's first.
LEMMA UsedInside ==
  ASSUME CountersInv, NEW p \in Port, NEW w \in Measured(p), NEW r \in Used(p, w)
  PROVE  \/ r \in InWindow(p, w[1], w[2])
         \/ BeforeSince(p, w[1]) # {} /\ r = First(p, w)
<1> DEFINE before == BeforeSince(p, w[1])
           inside == InWindow(p, w[1], w[2])
<1>1. CountersTypeOK /\ Series(before)
  BY SeriesOf DEF CountersInv
<1>2. First(p, w) \in Used(p, w) /\ First(p, w).at = Started(p, w)
      /\ Last(p, w) \in inside /\ Last(p, w).at = Ended(p, w)
  BY EndsAre
<1>3. /\ r \in RowsFor(p) /\ Started(p, w) <= r.at /\ r.at <= Ended(p, w)
      /\ First(p, w) \in RowsFor(p)
  BY <1>2 DEF Used
<1>4. r.at \in Nat /\ First(p, w).at \in Nat /\ Last(p, w).at \in Nat
  BY <1>1, <1>2, <1>3, Typed DEF RowsFor, InWindow
<1>5. w[1] \in Nat /\ w[2] \in Nat /\ Lookback \in Nat
  BY <1>1, Typed, CountersAssumption DEF Measured, Windows
<1>6. r.at <= w[2]
  BY <1>2, <1>3, <1>4, <1>5 DEF InWindow
<1>7. CASE w[1] < r.at
  BY <1>3, <1>6, <1>7 DEF InWindow
<1>8. CASE ~ (w[1] < r.at)
  <2>1. before # {}
    <3> SUFFICES ASSUME before = {} PROVE FALSE
      OBVIOUS
    <3>1. First(p, w) \in inside
      BY EndsAre
    <3> QED
      BY <1>2, <1>3, <1>4, <1>5, <1>8, <3>1 DEF InWindow
  <2>2. First(p, w) = Newest(before) /\ First(p, w) \in before
    <3>1. First(p, w) = Newest(before)
      BY <2>1, EndsAre
    <3>2. Newest(before) \in before
      BY <1>1, <2>1, NewestIs
    <3> QED
      BY <3>1, <3>2
  <2>3. r \in before
    BY <1>2, <1>3, <1>4, <1>5, <1>8, <2>2 DEF BeforeSince
  <2>4. r.at <= First(p, w).at
    BY <1>1, <2>2, <2>3, NewestIs
  <2>5. r.at = Started(p, w)
    BY <1>2, <1>3, <1>4, <2>4
  <2> QED
    BY <1>3, <2>1, <2>5, EndsAre
<1> QED
  BY <1>7, <1>8

\* The reset flag tells: raised only if the counter was cleared or a dump ended
\* before the port, and for every clear that new errors have not made up for.
THEOREM ResetFlagsTell == CountersSpec => []FlagsTell
<1>1. ASSUME CountersInv PROVE ResetHasCause
  BY <1>1, UndisturbedUnflagged DEF ResetHasCause
<1>2. ASSUME CountersInv PROVE ClearsShow
  <2> SUFFICES ASSUME NEW p \in Port, NEW w \in Measured(p), NEW r \in RowsFor(p),
                      NEW s \in RowsFor(p),
                      Started(p, w) <= r.at, r.at < s.at, s.at <= Ended(p, w),
                      s.at = Ended(p, w) \/ (r.at = Started(p, w) /\ ~ Answer(p, w).partial),
                      \/ s.value < r.value
                      \/ /\ ~ Missed(p, w)
                         /\ truth[r.at][p].clears # truth[s.at][p].clears
                         /\ truth[s.at][p].total - truth[r.at][p].total < r.value
               PROVE  Answer(p, w).reset
    BY DEF ClearsShow
  <2> DEFINE before == BeforeSince(p, w[1])
             inside == InWindow(p, w[1], w[2])
  <2>1. Series(inside) /\ inside # {}
    BY <1>2, SeriesOf, AnswerIs DEF CountersInv
  <2>2. /\ r.value \in Nat /\ s.value \in Nat /\ r.at \in Nat /\ s.at \in Nat
        /\ First(p, w).at \in Nat /\ First(p, w).at = Started(p, w)
        /\ Last(p, w).at \in Nat /\ Last(p, w).at = Ended(p, w)
    BY <1>2, EndsAre, Typed DEF CountersInv, RowsFor, Used
  <2>3. r \in Used(p, w) /\ s \in Used(p, w)
    BY <2>2 DEF Used
  \* New errors alone do not bring a cleared counter back to where it was.
  <2>4. s.value < r.value
    <3>1. CASE ~ Missed(p, w) /\ truth[r.at][p].clears # truth[s.at][p].clears
               /\ truth[s.at][p].total - truth[r.at][p].total < r.value
      <4>1. /\ Follows(r.value, truth[r.at][p].total, truth[r.at][p].clears,
                       s.value, truth[s.at][p].total, truth[s.at][p].clears)
            /\ truth[r.at][p].total \in Nat /\ truth[s.at][p].total \in Nat
        BY <1>2, <2>2, <2>3, <3>1, UsedFollow
      <4> QED
        BY <2>2, <3>1, <4>1 DEF Follows
    <3> QED
      BY <3>1
  \* The second of the two is in the window, being after another of the answer.
  <2>5. s \in inside
    <3>1. s # First(p, w)
      BY <2>2
    <3> QED
      BY <1>2, <2>3, <3>1, UsedInside
  <2>6. /\ Min(Values(inside)) <= s.value
        /\ \A x \in inside : x.value <= Max(Values(inside))
    BY <2>1, <2>5, ExtremesAre
  <2>7. Min(Values(inside)) \in Nat /\ Max(Values(inside)) \in Nat
    <3>1. \A x \in inside : x.value \in Nat
      BY <1>2, Typed DEF CountersInv, InWindow, RowsFor
    <3> QED
      BY <2>1, <3>1, ExtremesAre
  \* Below the baseline,
  <2>8. CASE before # {} /\ r = First(p, w)
    <3>1. Newest(before) = r
      BY <1>2, <2>8, EndsAre
    <3>2. Min(Values(inside)) < Newest(before).value
      BY <2>2, <2>4, <2>6, <2>7, <3>1
    <3> QED
      BY <2>8, <3>2, AnswerIs DEF WentBack
  \* or below a reading of the window.
  <2>9. CASE r \in inside /\ s.at = Ended(p, w)
    <3>1. s = Last(p, w)
      BY <1>2, <2>9, EndsAre
    <3>2. Newest(inside) = s
      BY <3>1 DEF Last
    <3>3. Max(Values(inside)) > Newest(inside).value
      BY <2>2, <2>4, <2>6, <2>7, <2>9, <3>2
    <3> QED
      BY <3>3, AnswerIs DEF WentBack
  <2>10. CASE r.at = Started(p, w) /\ ~ Answer(p, w).partial
    <3>1. r = First(p, w)
      BY <1>2, <2>10, EndsAre
    <3>2. before # {}
      BY <2>10, AnswerIs
    <3> QED
      BY <2>8, <3>1, <3>2
  <2> QED
    BY <1>2, <2>3, <2>8, <2>9, <2>10, UsedInside
<1>3. CountersInv => FlagsTell
  BY <1>1, <1>2 DEF FlagsTell
<1> QED
  BY <1>3, CountersInvariant, PTL

\* The detail card and the overlay agree: where the card states a delta, the
\* overlay has a baseline and states the same.
THEOREM CardsAgree == CountersSpec => []CardAgrees
<1>1. ASSUME CountersInv PROVE CardAgrees
  <2> SUFFICES ASSUME NEW p \in Port, NEW w \in Windows, CardDelta(p, w[1], w[2]).known
               PROVE  LET card  == CardDelta(p, w[1], w[2])
                          delta == Delta(p, w[1], w[2])
                      IN  ~ delta.noData /\ ~ delta.partial /\ card.d = delta.d
    BY DEF CardAgrees
  <2> DEFINE before == BeforeSince(p, w[1])
             upto   == UpTo(p, w[2])
             inside == InWindow(p, w[1], w[2])
             base   == Newest(before)
             last   == Newest(upto)
             sound  == upto # {} /\ before # {} /\ base.at < last.at /\ base.value <= last.value
             moved  == Moved(before, inside)
             back   == WentBack(before, inside)
             card   == CardDelta(p, w[1], w[2])
             delta  == Delta(p, w[1], w[2])
  <2>1. /\ CountersTypeOK /\ Series(before) /\ Series(upto) /\ Series(inside)
    BY <1>1, SeriesOf DEF CountersInv
  <2>2. card = IF sound THEN [known |-> TRUE, d |-> last.value - base.value]
                        ELSE [known |-> FALSE]
    BY DEF CardDelta
  <2>3. delta = IF inside = {} \/ (before = {} /\ Cardinality(inside) < 2)
                  THEN [noData |-> TRUE]
                  ELSE [noData |-> FALSE, d |-> moved, reset |-> back, partial |-> before = {}]
    BY DEF Delta
  <2>4. sound
    <3> HIDE DEF sound, last, base
    <3> QED
      BY <2>2
  <2>5. last \in upto /\ base \in before /\ \A r \in before : r.at <= base.at
    BY <2>1, <2>4, NewestIs
  <2>6. w[1] \in Nat /\ w[2] \in Nat /\ w[1] < w[2] /\ Lookback \in Nat
    BY <2>1, Typed, CountersAssumption DEF Windows
  <2>7. last.at \in Nat /\ base.at \in Nat /\ last.value \in Nat /\ base.value \in Nat
    BY <2>1, <2>5, CountersAssumption DEF Series, Reading
  <2>8. w[1] < last.at
    <3> SUFFICES ASSUME last.at <= w[1] PROVE FALSE
      BY <2>6, <2>7
    <3>1. last \in before
      BY <2>4, <2>5, <2>6, <2>7 DEF BeforeSince, UpTo
    <3> QED
      BY <2>4, <2>5, <2>7, <3>1
  <2>9. last \in inside
    BY <2>5, <2>8 DEF InWindow, UpTo
  <2>10. \A r \in inside : r.at <= last.at
    <3>1. inside \subseteq upto
      BY DEF InWindow, UpTo
    <3> QED
      BY <2>1, <2>4, <3>1, NewestIs
  <2>11. Newest(inside) = last
    BY <2>1, <2>9, <2>10, NewestIs
  <2>12. moved = last.value - base.value
    BY <2>4, <2>7, <2>11 DEF Moved, Positive
  <2> HIDE DEF moved, back, last, base, inside, before, card, delta
  <2>13. card.d = last.value - base.value
    BY <2>2, <2>4
  <2>14. delta = [noData |-> FALSE, d |-> moved, reset |-> back, partial |-> before = {}]
    BY <2>3, <2>4, <2>9
  <2>15. ~ delta.noData /\ ~ delta.partial /\ delta.d = moved
    BY <2>4, <2>14
  <2> QED
    BY <2>12, <2>13, <2>15 DEF card, delta
<1> QED
  BY <1>1, CountersInvariant, PTL
===============================================================================
