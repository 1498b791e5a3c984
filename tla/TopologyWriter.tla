---------------------------- MODULE TopologyWriter ----------------------------
(***************************************************************************)
(* The topology writer: how one sweep of the fabric is folded into the     *)
(* provenance, state and event tables (collector/store/writer.py,          *)
(* hashing.py and the constraints of migration 002).  One step is one call *)
(* of Writer.write: a single transaction, so it either commits whole or    *)
(* leaves the tables alone.                                                *)
(*                                                                         *)
(* Entities are named by their natural keys here (a node by its GUID, a    *)
(* port by (GUID, number), a link by the set of its two ports); the        *)
(* surrogate ids and their cache are module Collector.                     *)
(***************************************************************************)
EXTENDS Integers, Sequences, Intervals

CONSTANTS
  Guid,          \* node GUIDs
  Port,          \* port keys
  Desc,          \* node descriptions
  LogState, Speed, Width,   \* the port columns an event is about
  Rest,          \* the other port columns, as one value
  Observations,  \* the sweeps the assembler may hand over
  Horizon,       \* bound on the clock
  MaxSweeps,     \* bound on the snapshots recorded
  ClockMaySlip   \* TRUE: the collector's clock may step backwards

SmState  == {"none", "discovering", "standby", "master"}
NodeVal  == [desc : Desc, sm : SmState]
PortVal  == [log : LogState, speed : Speed, width : Width, rest : Rest]
Link     == {{a, b} : a, b \in Port}
LinkVal  == {"cabled"}
Instants == 0 .. Horizon

PartialFcns(S, T) == UNION {[D -> T] : D \in SUBSET S}

\* observation.Observation, without the wording of its problems.
Observation == [nodes    : PartialFcns(Guid, NodeVal),
                ports    : PartialFcns(Port, PortVal),
                links    : SUBSET Link,
                complete : BOOLEAN,
                smSeen   : BOOLEAN]

Nothing == [nodes |-> <<>>, ports |-> <<>>, links |-> {},
            complete |-> FALSE, smSeen |-> FALSE]

ASSUME WriterAssumption ==
  /\ Observations \subseteq Observation
  /\ Horizon \in Nat
  /\ MaxSweeps \in Nat
  /\ ClockMaySlip \in BOOLEAN

\* What topology_hash covers: everything the sweep read, but not whether the
\* SM was read.
Digest(obs) == [nodes |-> obs.nodes, ports |-> obs.ports, links |-> obs.links]

SnapshotRow == [at : Instants, digest : {Digest(obs) : obs \in Observations},
                changed : BOOLEAN, complete : BOOLEAN]

VARIABLES
  snapshots,   \* topology_snapshot, in snapshot_id order
  nodeState, portState, linkState,   \* the interval tables
  events,      \* topology_event
  clock,       \* collected_at of the last sweep
  handed,      \* the last sweep handed to the writer ...
  outcome      \* ... and what became of its transaction

tables == <<snapshots, nodeState, portState, linkState, events>>
vars   == <<tables, clock, handed, outcome>>

-----------------------------------------------------------------------------
(* The change gate. *)

\* Mutant: the latest sweep of any completeness.
MutLatestOfAny(i) ==
  \A j \in DOMAIN snapshots :
    \/ snapshots[j].at < snapshots[i].at
    \/ snapshots[j].at = snapshots[i].at /\ j <= i

\* ORDER BY collected_at DESC, snapshot_id DESC LIMIT 1 among complete sweeps.
IsLatestComplete(i) ==
  /\ snapshots[i].complete
  /\ \A j \in DOMAIN snapshots :
       snapshots[j].complete =>
         \/ snapshots[j].at < snapshots[i].at
         \/ snapshots[j].at = snapshots[i].at /\ j <= i

IsChanged(obs) ==
  \A i \in DOMAIN snapshots :
    IsLatestComplete(i) => snapshots[i].digest # Digest(obs)

\* Mutant: the first sweep is no change, having nothing to differ from.
MutSnapshotQuiet(obs, ts, changed) ==
  [at |-> ts, digest |-> Digest(obs), changed |-> changed /\ snapshots # <<>>,
   complete |-> obs.complete]

Snapshot(obs, ts, changed) ==
  [at |-> ts, digest |-> Digest(obs), changed |-> changed, complete |-> obs.complete]

-----------------------------------------------------------------------------
(* What the sweep wants each table to say from now on. *)

\* sm_state is carried forward, not defaulted, when the SM was not read.
WantedSm(obs, g) ==
  IF ~ obs.smSeen /\ g \in CurrentKeys(nodeState)
    THEN CurrentVal(nodeState, g).sm
    ELSE obs.nodes[g].sm

WantedNodes(obs) ==
  [g \in DOMAIN obs.nodes |-> [desc |-> obs.nodes[g].desc, sm |-> WantedSm(obs, g)]]

WantedPorts(obs) == obs.ports

WantedLinks(obs) == [l \in obs.links |-> "cabled"]

-----------------------------------------------------------------------------
(* The events a diff writes. *)

Event(type, key, ts) == [type |-> type, key |-> key, at |-> ts]

EventsFor(type, keys, ts) == {Event(type, k, ts) : k \in keys}

Appeared(T, want) == DOMAIN want \ CurrentKeys(T)
Vanished(T, want) == CurrentKeys(T) \ DOMAIN want
Kept(T, want)     == CurrentKeys(T) \cap DOMAIN want

\* Mutant: a failover is told by the new master only.
MutNodeEvents(want, ts) ==
  LET Was(g) == CurrentVal(nodeState, g)
      kept   == Kept(nodeState, want)
  IN  EventsFor("node_added", Appeared(nodeState, want), ts)
      \cup EventsFor("node_removed", Vanished(nodeState, want), ts)
      \cup EventsFor("node_renamed", {g \in kept : Was(g).desc # want[g].desc}, ts)
      \cup EventsFor("sm_failover", {g \in kept : want[g].sm = "master"
                                                /\ Was(g).sm # "master"}, ts)

NodeEvents(want, ts) ==
  LET Was(g) == CurrentVal(nodeState, g)
      kept   == Kept(nodeState, want)
  IN  EventsFor("node_added", Appeared(nodeState, want), ts)
      \cup EventsFor("node_removed", Vanished(nodeState, want), ts)
      \cup EventsFor("node_renamed", {g \in kept : Was(g).desc # want[g].desc}, ts)
      \cup EventsFor("sm_failover", {g \in kept : Was(g).sm # want[g].sm}, ts)

\* A port vanishing closes its row and says nothing.
PortEvents(want, ts) ==
  LET Was(p) == CurrentVal(portState, p)
      kept   == Kept(portState, want)
  IN  EventsFor("port_added", Appeared(portState, want), ts)
      \cup EventsFor("speed_changed", {p \in kept : Was(p).speed # want[p].speed}, ts)
      \cup EventsFor("width_changed", {p \in kept : Was(p).width # want[p].width}, ts)
      \cup EventsFor("port_state_changed", {p \in kept : Was(p).log # want[p].log}, ts)

LinkEvents(want, ts) ==
  EventsFor("link_removed", Vanished(linkState, want), ts)
  \cup EventsFor("link_added", Appeared(linkState, want), ts)

-----------------------------------------------------------------------------
(* The constraints, met by every statement of the diff. *)

LawfulLinks(T) ==
  /\ Ordered(T)
  /\ OneCablePerPort(T)
  /\ \A r \in T : \E a, b \in r.key : a # b      \* CHECK (port_a_id < port_b_id)

\* All removed links are closed before any new one is opened, because a port
\* may move from one cable to another within a sweep.
LinkStages(want, ts) == {Closed(linkState, want, ts), Diffed(linkState, want, ts)}

Accepted(obs, ts) ==
  /\ Lawful(Diffed(nodeState, WantedNodes(obs), ts))
  /\ Lawful(Diffed(portState, WantedPorts(obs), ts))
  /\ \A T \in LinkStages(WantedLinks(obs), ts) : LawfulLinks(T)

-----------------------------------------------------------------------------
(* Writer.write *)

\* collected_at is the collector's own clock.
ClockReads(ts) ==
  /\ Len(snapshots) < MaxSweeps
  /\ ClockMaySlip \/ ts > clock

\* Everything a call of write does besides the tables.
Handled(obs, ts, what) ==
  /\ handed' = obs
  /\ clock' = ts
  /\ outcome' = what

\* An incomplete sweep is recorded but never diffed.
RecordIncomplete(obs, ts) ==
  /\ ~ obs.complete
  /\ ClockReads(ts)
  /\ snapshots' = Append(snapshots, Snapshot(obs, ts, FALSE))
  /\ events' = events \cup {Event("sweep_incomplete", {}, ts)}
  /\ Handled(obs, ts, "committed")
  /\ UNCHANGED <<nodeState, portState, linkState>>

\* An unchanged digest skips the diff.
RecordUnchanged(obs, ts) ==
  /\ obs.complete
  /\ ~ IsChanged(obs)
  /\ ClockReads(ts)
  /\ snapshots' = Append(snapshots, Snapshot(obs, ts, FALSE))
  /\ Handled(obs, ts, "committed")
  /\ UNCHANGED <<nodeState, portState, linkState, events>>

RecordChanged(obs, ts) ==
  /\ obs.complete
  /\ IsChanged(obs)
  /\ ClockReads(ts)
  /\ Accepted(obs, ts)
  /\ snapshots' = Append(snapshots, Snapshot(obs, ts, TRUE))
  /\ nodeState' = Diffed(nodeState, WantedNodes(obs), ts)
  /\ portState' = Diffed(portState, WantedPorts(obs), ts)
  /\ linkState' = Diffed(linkState, WantedLinks(obs), ts)
  /\ events' = events \cup NodeEvents(WantedNodes(obs), ts)
                      \cup PortEvents(WantedPorts(obs), ts)
                      \cup LinkEvents(WantedLinks(obs), ts)
  /\ Handled(obs, ts, "committed")

\* A statement of the diff is refused: the whole transaction rolls back.
RollBack(obs, ts) ==
  /\ obs.complete
  /\ IsChanged(obs)
  /\ ClockReads(ts)
  /\ ~ Accepted(obs, ts)
  /\ Handled(obs, ts, "rolled back")
  /\ UNCHANGED tables

Init ==
  /\ snapshots = <<>>
  /\ nodeState = {} /\ portState = {} /\ linkState = {}
  /\ events = {}
  /\ clock = 0
  /\ handed = Nothing
  /\ outcome = "none"

Write(obs, ts) ==
  \/ RecordIncomplete(obs, ts)
  \/ RecordUnchanged(obs, ts)
  \/ RecordChanged(obs, ts)
  \/ RollBack(obs, ts)

\* Not a step of the program: where the bounds end the model.
AtBound ==
  /\ Len(snapshots) = MaxSweeps \/ clock = Horizon
  /\ UNCHANGED vars

Next == AtBound \/ \E obs \in Observations, ts \in Instants : Write(obs, ts)

Spec == Init /\ [][Next]_vars

-----------------------------------------------------------------------------
(* Properties. *)

PictureAt(t) == [nodes |-> AsOf(nodeState, t),
                 ports |-> AsOf(portState, t),
                 links |-> AsOf(linkState, t)]

\* Every variable has its type; in particular every row names a known entity and
\* is dated by a sweep.
TypeOK ==
  /\ snapshots \in Seq(SnapshotRow)
  /\ nodeState \subseteq Rows(Guid, NodeVal, Instants)
  /\ portState \subseteq Rows(Port, PortVal, Instants)
  /\ linkState \subseteq Rows(Link, LinkVal, Instants)
  /\ \A e \in events : e.at \in Instants
  /\ clock \in Instants
  /\ handed \in Observations \cup {Nothing}
  /\ outcome \in {"none", "committed", "rolled back"}

\* The open rows are what the last complete sweep read: the digest gate never
\* skips a diff that had something to write (names, ports and cables; the SM
\* column is SmFollowsSweep).
StateFollowsSweep ==
  \A i \in DOMAIN snapshots :
    LET read == snapshots[i].digest
    IN  (snapshots[i].complete
           /\ \A j \in DOMAIN snapshots : snapshots[j].complete => j <= i)
        => /\ {<<r.key, r.val.desc>> : r \in Current(nodeState)}
                = {<<g, read.nodes[g].desc>> : g \in DOMAIN read.nodes}
           /\ {<<r.key, r.val>> : r \in Current(portState)}
                = {<<p, read.ports[p]>> : p \in DOMAIN read.ports}
           /\ CurrentKeys(linkState) = read.links

\* A sweep of which the SM table was read in part only (assemble.py: a malformed
\* record is dropped, the others are applied) looks to the gate just like obs.
Blurred(obs) ==
  \E o \in Observations : o.complete /\ ~ o.smSeen /\ Digest(o) = Digest(obs)

\* After a complete sweep that read the SM, and that no partial reading can be
\* taken for, the open rows hold the SM states it read, whether or not the gate
\* let it through (hashing.py: an unchanged hash is a licence to skip diffing).
SmFollowsSweep ==
  outcome = "committed" /\ handed.complete /\ ~ Blurred(handed) =>
    \A r \in Current(nodeState) : r.val.sm = handed.nodes[r.key].sm

\* The event feed is strictly redundant: it is exactly what one reconstructs by
\* comparing the validity intervals of the state tables (migration 002).
Starts(T) == {r \in T : \A q \in T : q.key = r.key => q.to # r.from}
Ends(T)   == {r \in T : r.to # Open
                        /\ \A q \in T : q.key = r.key => q.from # r.to}
Turns(T)  == {qr \in T \X T : qr[1].key = qr[2].key /\ qr[1].to = qr[2].from}

StartEvents(type, T)    == {Event(type, r.key, r.from) : r \in Starts(T)}
EndEvents(type, T)      == {Event(type, r.key, r.to) : r \in Ends(T)}
TurnEvents(type, turns) == {Event(type, qr[2].key, qr[2].from) : qr \in turns}

NodesTold(T) ==
  StartEvents("node_added", T)
  \cup EndEvents("node_removed", T)
  \cup TurnEvents("node_renamed", {qr \in Turns(T) : qr[1].val.desc # qr[2].val.desc})
  \cup TurnEvents("sm_failover", {qr \in Turns(T) : qr[1].val.sm # qr[2].val.sm})

PortsTold(T) ==
  StartEvents("port_added", T)
  \cup TurnEvents("speed_changed", {qr \in Turns(T) : qr[1].val.speed # qr[2].val.speed})
  \cup TurnEvents("width_changed", {qr \in Turns(T) : qr[1].val.width # qr[2].val.width})
  \cup TurnEvents("port_state_changed", {qr \in Turns(T) : qr[1].val.log # qr[2].val.log})

LinksTold(T) == StartEvents("link_added", T) \cup EndEvents("link_removed", T)

Reconstructed == NodesTold(nodeState) \cup PortsTold(portState) \cup LinksTold(linkState)

\* The event feed is what the rows say, no more and no less: an event for every
\* row that starts, ends or takes over with another value.
EventsTellHistory ==
  {e \in events : e.type # "sweep_incomplete"} = Reconstructed

\* If no changed snapshot was collected after a and up to b, the topology as of
\* b is the topology as of a: what lets the diff endpoint read one of the two
\* (queries/diff.py, unchanged_guaranteed).
ChangedBetween(a, b) ==
  \E i \in DOMAIN snapshots :
    snapshots[i].changed /\ a < snapshots[i].at /\ snapshots[i].at <= b

\* Where nothing is marked changed, nothing differs.
QuietMeansUnchanged ==
  \A a, b \in Instants :
    a <= b /\ ~ ChangedBetween(a, b) => PictureAt(a) = PictureAt(b)

\* A sweep is refused by the database only if it reports a cable that no
\* hardware can have: a loopback, or two cables in one socket.
SoundCabling(obs) ==
  /\ \A l \in obs.links : \E a, b \in l : a # b
  /\ \A l, m \in obs.links : l \cap m # {} => l = m

\* Every other sweep lands, whatever order its rows are written in.
OnlyBadCablingRollsBack == outcome = "rolled back" => ~ SoundCabling(handed)

\* After any sequence of sweeps the tables say what the sweeps saw: node and SM
\* state follow the latest complete one, in columns of their types, and a sweep
\* is lost only when its cabling is impossible.
TablesFollowSweep ==
  /\ TypeOK
  /\ StateFollowsSweep
  /\ SmFollowsSweep
  /\ OnlyBadCablingRollsBack

\* A write changes nothing that was the case before its own collected_at: no
\* reader of a past instant is ever told something else later.
PastIsImmutable ==
  [][\A t \in Instants : t < clock' => PictureAt(t)' = PictureAt(t)]_vars
-----------------------------------------------------------------------------
\* The tables implement the record: as-of reads of the rows are its values.
Record == INSTANCE FabricRecord WITH record <- [t \in Instants |-> PictureAt(t)]

\* Every write, seen through as-of reads, is a sweep kept whole from its
\* collected_at on (at the least as whole as a partial reading of the SM that
\* the digest does not tell from it), or nothing at all.
ImplementsRecord == Record!Spec
=============================================================================
