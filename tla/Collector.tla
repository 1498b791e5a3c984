------------------------------- MODULE Collector -------------------------------
(***************************************************************************)
(* The collector process: its identity cache (store/identity.py), the      *)
(* cycle and the two threads around it (daemon.py), the identity half of   *)
(* the topology transaction (Writer._ensure_identity) and the counter      *)
(* transactions that resolve ports through the shared cache                *)
(* (store/counters.py).                                                    *)
(*                                                                         *)
(* The main thread runs cycle after cycle: a topology transaction, then    *)
(* the error half.  The traffic thread, started after the first cycle,     *)
(* sweeps on its own connection and shares nothing with it but the cache.  *)
(* The cache is filled while the topology transaction is open, and is not  *)
(* emptied when that transaction rolls back.  Database sequences do not    *)
(* roll back either.                                                       *)
(*                                                                         *)
(* What a sweep says besides which nodes and ports exist is module         *)
(* TopologyWriter; here a sweep only has `sound' cabling or not.           *)
(***************************************************************************)
EXTENDS Integers, FiniteSets, Functions

CONSTANTS
  Guid,         \* node GUIDs
  PortNum,      \* port numbers
  Sweeps,       \* the topology sweeps the fabric may yield
  Dumps,        \* the sets of ports an ibqueryerrors run may name
  MaxBad,       \* bound on the sweeps with impossible cabling
  MayLose,      \* TRUE: the main thread's database connection may be lost
  MaxStarts     \* bound on the times the process is started

Hw == Guid \X PortNum

Sweep == [nodes : SUBSET Guid, ports : SUBSET Hw, complete : BOOLEAN, sound : BOOLEAN]

ASSUME CollectorAssumption ==
  /\ Sweeps \subseteq Sweep
  /\ \A s \in Sweeps : \A p \in s.ports : p[1] \in s.nodes
  /\ Dumps \subseteq SUBSET Hw
  /\ MaxBad \in Nat
  /\ MayLose \in BOOLEAN
  /\ MaxStarts \in Nat

NodeRow == [guid : Guid, id : Nat]
PortRow == [node : Nat, num : PortNum, id : Nat]
Fact    == [source : {"errors", "traffic"}, port : Hw, id : Nat]

NoSweep == [nodes |-> {}, ports |-> {}, complete |-> FALSE, sound |-> TRUE]

VARIABLES
  node, port,          \* the committed rows of tables node and port
  nextNode, nextPort,  \* their identity sequences
  latest,              \* the digests of the latest complete snapshot: none or one
  facts,               \* committed rows of port_errors and port_traffic
  freshNode, freshPort,   \* rows of the open topology transaction
  nodeId, portId,      \* Identity._node_id and Identity._port_id
  main, traffic,       \* where the two threads are
  first,               \* whether the main thread is in its first cycle
  sweep,               \* the Observation in hand
  batch,               \* rows of the open traffic transaction
  stop,                \* the stop event
  conn,                \* whether the main thread's connection is usable
  outcome,             \* what became of the last topology transaction
  bad, starts          \* counts, for the bounds

database == <<node, port, nextNode, nextPort, latest, facts>>
cache    == <<nodeId, portId>>
fresh    == <<freshNode, freshPort>>
vars     == <<database, cache, fresh, main, traffic, first, sweep, batch, stop,
              conn, outcome, bad, starts>>

Digest(s) == [nodes |-> s.nodes, ports |-> s.ports, sound |-> s.sound]

-----------------------------------------------------------------------------
(* Identity. *)

Cached(p) == p[1] \in DOMAIN nodeId /\ <<nodeId[p[1]], p[2]>> \in DOMAIN portId

\* Identity.port_id, for a port that is cached.
Resolve(p) == portId[<<nodeId[p[1]], p[2]>>]

\* The fact rows of a counter sweep: ports that do not resolve are dropped.
Resolved(source, ports) ==
  {[source |-> source, port |-> p, id |-> Resolve(p)] : p \in {q \in ports : Cached(q)}}

SeededNodes == [g \in {n.guid : n \in node} |-> (CHOOSE n \in node : n.guid = g).id]

SeededPorts ==
  [k \in {<<r.node, r.num>> : r \in port} |->
     (CHOOSE r \in port : <<r.node, r.num>> = k).id]

\* The foreign keys of the rows this sweep's diff would write.
Backed(s) ==
  /\ \A g \in s.nodes : \E n \in node \cup freshNode : n.id = nodeId[g]
  /\ \A p \in s.ports : \E r \in port \cup freshPort : r.id = Resolve(p)

-----------------------------------------------------------------------------
(* The main thread. *)

\* connect, check_schema, check_clock, Identity.open.
Start ==
  /\ main = "starting"
  /\ main' = "collecting"
  /\ first' = TRUE
  /\ nodeId' = SeededNodes
  /\ portId' = SeededPorts
  /\ UNCHANGED <<database, fresh, traffic, sweep, batch, stop, conn, outcome, bad, starts>>

\* Writer.write up to the change gate.  A sweep that is incomplete or unchanged
\* commits there and then; of the tables here it touches latest at most, which
\* an unchanged digest leaves as it is.
BeginWrite(s) ==
  /\ main = "collecting"
  /\ conn
  /\ s.sound \/ bad < MaxBad
  /\ sweep' = s
  /\ bad' = IF s.sound THEN bad ELSE bad + 1
  /\ IF s.complete /\ Digest(s) \notin latest
       THEN main' = "identity" /\ UNCHANGED outcome
       ELSE main' = "errors" /\ outcome' = "committed"
  /\ UNCHANGED <<database, cache, fresh, traffic, first, batch, stop, conn, starts>>

\* Identity.remember_node
RememberNode(g, id) ==
  nodeId' = [x \in DOMAIN nodeId \cup {g} |-> IF x = g THEN id ELSE nodeId[x]]

\* INSERT INTO node ... RETURNING node_id, and remember_node.
EnsureNode(g) ==
  /\ main = "identity"
  /\ conn
  /\ g \in sweep.nodes \ DOMAIN nodeId
  /\ freshNode' = freshNode \cup {[guid |-> g, id |-> nextNode]}
  /\ RememberNode(g, nextNode)
  /\ nextNode' = nextNode + 1
  /\ UNCHANGED <<node, port, nextPort, latest, facts, freshPort, portId, main, traffic,
                 first, sweep, batch, stop, conn, outcome, bad, starts>>

NodesKnown == sweep.nodes \subseteq DOMAIN nodeId

\* Mutant: the id remembered is not the one the row was given.
MutRememberPort(p, id) ==
  portId' = [k \in DOMAIN portId \cup {<<nodeId[p[1]], p[2]>>} |->
               IF k = <<nodeId[p[1]], p[2]>> THEN id + 1 ELSE portId[k]]

\* Identity.remember_port
RememberPort(p, id) ==
  portId' = [k \in DOMAIN portId \cup {<<nodeId[p[1]], p[2]>>} |->
               IF k = <<nodeId[p[1]], p[2]>> THEN id ELSE portId[k]]

\* Mutant: a port's id is the number of ports plus one.
MutNewPortId == Cardinality(port) + Cardinality(freshPort) + 1

\* GENERATED ALWAYS AS IDENTITY
NewPortId == nextPort

\* INSERT INTO port ... RETURNING port_id, and remember_port; the row refers to
\* the node by its cached id.
EnsurePort(p) ==
  /\ main = "identity"
  /\ conn
  /\ NodesKnown
  /\ p \in sweep.ports /\ ~ Cached(p)
  /\ \E n \in node \cup freshNode : n.id = nodeId[p[1]]
  /\ freshPort' = freshPort \cup
                    {[node |-> nodeId[p[1]], num |-> p[2], id |-> NewPortId]}
  /\ RememberPort(p, NewPortId)
  /\ nextPort' = nextPort + 1
  /\ UNCHANGED <<node, port, nextNode, latest, facts, freshNode, nodeId, main, traffic,
                 first, sweep, batch, stop, conn, outcome, bad, starts>>

IdentityDone == NodesKnown /\ \A p \in sweep.ports : Cached(p)

\* The state diff, accepted; the transaction commits.
Commit ==
  /\ main = "identity"
  /\ conn
  /\ IdentityDone /\ Backed(sweep) /\ sweep.sound
  /\ node' = node \cup freshNode
  /\ port' = port \cup freshPort
  /\ latest' = {Digest(sweep)}
  /\ freshNode' = {} /\ freshPort' = {}
  /\ outcome' = "committed"
  /\ main' = "errors"
  /\ UNCHANGED <<nextNode, nextPort, facts, cache, traffic, first, sweep, batch,
                 stop, conn, bad, starts>>

\* A lost connection, a port whose node row is not there, or a diff that breaks
\* a foreign key or an exclusion constraint.
CannotCommit ==
  \/ ~ conn
  \/ IdentityDone /\ ~ (Backed(sweep) /\ sweep.sound)
  \/ /\ NodesKnown
     /\ \E p \in sweep.ports :
          ~ Cached(p) /\ \A n \in node \cup freshNode : n.id # nodeId[p[1]]

\* The transaction rolls back and the exception leaves one_cycle: the first one
\* ends the process, a later one is logged.
Refuse ==
  /\ main = "identity"
  /\ CannotCommit
  /\ freshNode' = {} /\ freshPort' = {}
  /\ outcome' = "refused"
  /\ main' = IF first THEN "ended" ELSE "waiting"
  /\ UNCHANGED <<database, cache, traffic, first, sweep, batch, stop, conn, bad, starts>>

\* The first statement on a lost connection raises: nothing reconnects.
CannotBegin(s) ==
  /\ main = "collecting"
  /\ ~ conn
  /\ sweep' = s
  /\ outcome' = "refused"
  /\ main' = IF first THEN "ended" ELSE "waiting"
  /\ UNCHANGED <<database, cache, fresh, traffic, first, batch, stop, conn, bad, starts>>

\* The error half, dense over the sweep's ports; its failure is logged.
ErrorHalf(named) ==
  /\ main = "errors"
  /\ \/ conn /\ facts' = facts \cup Resolved("errors", named \cup sweep.ports)
     \/ UNCHANGED facts
  /\ first' = FALSE
  /\ traffic' = IF first THEN "connecting" ELSE traffic
  /\ main' = IF stop THEN "joining" ELSE "waiting"
  /\ UNCHANGED <<node, port, nextNode, nextPort, latest, cache, fresh, sweep, batch,
                 stop, conn, outcome, bad, starts>>

\* stop.wait(interval) and the test after it.
Wake ==
  /\ main = "waiting"
  /\ main' = IF stop THEN "joining" ELSE "collecting"
  /\ UNCHANGED <<database, cache, fresh, traffic, first, sweep, batch, stop, conn, outcome,
                 bad, starts>>

\* Mutant: the join waits for the traffic thread.
MutJoinReturns == traffic = "none"

\* traffic.join has a timeout, so it returns whatever that thread is doing.
JoinReturns == TRUE

\* A daemon thread ends with the process and its open transaction rolls back.
Exit ==
  /\ main = "joining"
  /\ JoinReturns
  /\ main' = "ended"
  /\ traffic' = "none"
  /\ batch' = {}
  /\ UNCHANGED <<database, cache, fresh, first, sweep, stop, conn, outcome, bad, starts>>

-----------------------------------------------------------------------------
(* The traffic thread. *)

\* A connection that cannot be made ends the thread.
Connect ==
  /\ traffic = "connecting"
  /\ traffic' \in {"idle", "none"}
  /\ UNCHANGED <<database, cache, fresh, main, first, sweep, batch, stop, conn, outcome,
                 bad, starts>>

\* CounterWriter.write resolves the ports of its dump through the cache ...
ResolveTraffic(named) ==
  /\ traffic = "idle"
  /\ ~ stop
  /\ batch' = Resolved("traffic", named)
  /\ traffic' = "writing"
  /\ UNCHANGED <<database, cache, fresh, main, first, sweep, stop, conn, outcome, bad, starts>>

\* ... and commits; a failure is logged.
CommitTraffic ==
  /\ traffic = "writing"
  /\ \/ facts' = facts \cup batch
     \/ UNCHANGED facts
  /\ batch' = {}
  /\ traffic' = "idle"
  /\ UNCHANGED <<node, port, nextNode, nextPort, latest, cache, fresh, main, first,
                 sweep, stop, conn, outcome, bad, starts>>

StopTraffic ==
  /\ traffic = "idle"
  /\ stop
  /\ traffic' = "none"
  /\ UNCHANGED <<database, cache, fresh, main, first, sweep, batch, stop, conn, outcome,
                 bad, starts>>

-----------------------------------------------------------------------------
(* Signals, kills and restarts. *)

Running == main # "ended"

\* SIGTERM or SIGINT, once.
Signal ==
  /\ Running
  /\ ~ stop
  /\ stop' = TRUE
  /\ UNCHANGED <<database, cache, fresh, main, traffic, first, sweep, batch, conn, outcome,
                 bad, starts>>

\* A second signal, a crash, a power failure: open transactions roll back.
Kill ==
  /\ Running
  /\ starts < MaxStarts
  /\ main' = "ended"
  /\ traffic' = "none"
  /\ freshNode' = {} /\ freshPort' = {} /\ batch' = {}
  /\ UNCHANGED <<database, cache, first, sweep, stop, conn, outcome, bad, starts>>

\* The server drops the main thread's connection, and the rows of its open
\* transaction with it.
LoseConnection ==
  /\ MayLose
  /\ conn
  /\ main \notin {"starting", "ended"}
  /\ conn' = FALSE
  /\ freshNode' = {} /\ freshPort' = {}
  /\ UNCHANGED <<database, cache, main, traffic, first, sweep, batch, stop, outcome,
                 bad, starts>>

Restart ==
  /\ ~ Running
  /\ starts < MaxStarts
  /\ starts' = starts + 1
  /\ main' = "starting"
  /\ traffic' = "none"
  /\ stop' = FALSE
  /\ conn' = TRUE
  /\ batch' = {}
  /\ nodeId' = <<>> /\ portId' = <<>>
  /\ outcome' = "none"
  /\ UNCHANGED <<database, fresh, first, sweep, bad>>

\* The process has ended for good.
Terminated == ~ Running /\ UNCHANGED vars

-----------------------------------------------------------------------------
Init ==
  /\ node = {} /\ port = {}
  /\ nextNode = 1 /\ nextPort = 1
  /\ latest = {}
  /\ facts = {}
  /\ freshNode = {} /\ freshPort = {}
  /\ nodeId = <<>> /\ portId = <<>>
  /\ main = "starting" /\ traffic = "none"
  /\ first = TRUE
  /\ sweep = NoSweep
  /\ batch = {}
  /\ stop = FALSE
  /\ conn = TRUE
  /\ outcome = "none"
  /\ bad = 0 /\ starts = 1

MainStep ==
  \/ Start
  \/ \E s \in Sweeps : BeginWrite(s) \/ CannotBegin(s)
  \/ \E g \in Guid : EnsureNode(g)
  \/ \E p \in Hw : EnsurePort(p)
  \/ Commit
  \/ Refuse
  \/ \E named \in Dumps : ErrorHalf(named)
  \/ Wake
  \/ Exit

TrafficStep ==
  \/ Connect
  \/ \E named \in Dumps : ResolveTraffic(named)
  \/ CommitTraffic
  \/ StopTraffic

Next ==
  \/ MainStep \/ TrafficStep
  \/ Signal \/ Kill \/ LoseConnection \/ Restart \/ Terminated

\* Every query and transaction of the main thread has a timeout or returns, and
\* its waits are timed, so it keeps moving.  Nothing is assumed of the traffic
\* thread, of signals or of restarts.
Spec == Init /\ [][Next]_vars /\ WF_vars(MainStep)

-----------------------------------------------------------------------------
(* Properties. *)

MainPlaces    == {"starting", "collecting", "identity", "errors", "waiting",
                  "joining", "ended"}
TrafficPlaces == {"none", "connecting", "idle", "writing"}

\* Type invariant: rows, cache, facts and program counters are of their types.
TypeOK ==
  /\ node \subseteq NodeRow /\ freshNode \subseteq NodeRow
  /\ port \subseteq PortRow /\ freshPort \subseteq PortRow
  /\ nextNode \in Nat /\ nextPort \in Nat
  /\ latest \subseteq {Digest(s) : s \in Sweeps}
  /\ facts \subseteq Fact /\ batch \subseteq Fact
  /\ DOMAIN nodeId \subseteq Guid /\ \A g \in DOMAIN nodeId : nodeId[g] \in Nat
  /\ DOMAIN portId \subseteq Nat \X PortNum /\ \A k \in DOMAIN portId : portId[k] \in Nat
  /\ main \in MainPlaces /\ traffic \in TrafficPlaces
  /\ first \in BOOLEAN /\ stop \in BOOLEAN /\ conn \in BOOLEAN
  /\ sweep \in Sweeps \cup {NoSweep}
  /\ outcome \in {"none", "committed", "refused"}
  /\ bad \in Nat /\ starts \in Nat

\* Port row r is the row of hardware port p.
Names(r, p) ==
  /\ r.num = p[2]
  /\ \A n \in node \cup freshNode : n.id = r.node => n.guid = p[1]

\* A fact is never attributed to hardware it was not read from, whatever was
\* rolled back, killed or restarted since the traffic thread resolved its port
\* (port_errors and port_traffic hold a port_id with no foreign key).
FactsNameTheirPort ==
  \A f \in facts : \A r \in port \cup freshPort : r.id = f.id => Names(r, f.port)

\* Topology runs first because it is what creates port rows: when the error
\* half follows a complete sweep, every port of that sweep resolves to its own
\* committed row, also when the sweep was skipped as unchanged or the cache was
\* reseeded by a restart.
ErrorsResolve ==
  main = "errors" /\ sweep.complete =>
    \A p \in sweep.ports :
      Cached(p) /\ \E r \in port : r.id = Resolve(p) /\ Names(r, p)

\* No piece of hardware is ever inserted twice: the seeded cache always knows
\* what the UNIQUE constraints would refuse.
OneRowPerHardware ==
  /\ \A m, n \in node \cup freshNode : m.guid = n.guid => m = n
  /\ \A q, r \in port \cup freshPort : q.node = r.node /\ q.num = r.num => q = r

\* A signalled collector ends, whatever the traffic thread is doing: every wait
\* on the way out is timed.
StopEnds == stop ~> (main = "ended")

\* Until a roll back has left ids in the cache that no row has, every fact has
\* its row, if not committed yet then in the transaction that is open.
FactsHaveRows ==
  bad = 0 /\ starts = 1 /\ Running /\ conn =>
    \A f \in facts : \E r \in port \cup freshPort : r.id = f.id

\* And every sweep that reports possible cabling is recorded, new hardware and
\* hardware known from before a restart alike, while the connection stands.
SoundSweepsLand == outcome = "refused" /\ bad = 0 => ~ conn

\* An id names one piece of hardware, now and from before a restart, and every
\* fact recorded under it is about that hardware.
IdsNameHardware ==
  /\ TypeOK
  /\ FactsNameTheirPort
  /\ OneRowPerHardware

\* Nothing that was read is lost without a cause: facts have the rows they
\* point at, errors are of ports that can be told, and sound sweeps land.
NothingIsLost ==
  /\ ErrorsResolve
  /\ FactsHaveRows
  /\ SoundSweepsLand

\* One bad cycle must not kill the daemon: after a refused sweep it records
\* sweeps again, or is stopped.
BadCycleHeals == (outcome = "refused") ~> (outcome = "committed" \/ stop \/ ~ Running)
=============================================================================
