------------------------------ MODULE MCWriter -------------------------------
(***************************************************************************)
(* TopologyWriter on sweeps of two kinds, in any order: two nodes whose    *)
(* names and SM states change, and the ports of one node with the cables   *)
(* between them, that change speed, width or state, vanish, move from      *)
(* socket to socket or are reported as an impossible cable.                *)
(*                                                                         *)
(* SMInfoRecord names at least one SM when it is read: the Subnet          *)
(* Administrator that answers is a master.  It is read whole, not at all,  *)
(* or with the record of the second node lost.                             *)
(***************************************************************************)
EXTENDS TopologyWriter, TLC

CONSTANTS g1, g2, d1, d2, p, q, r

MCGuid == {g1, g2}
MCDesc == {d1, d2}
MCPort == {p, q, r}

NodeViews == [desc : {d1}, sm : {"none", "standby", "master"}]
               \cup [desc : {d2}, sm : {"master"}]

\* The second node is a plain one or the master.
NodeMaps ==
  {m \in PartialFcns(MCGuid, NodeViews) :
     g2 \in DOMAIN m => m[g2].desc = d1 /\ m[g2].sm # "standby"}

NoSm(nodes) == \A g \in DOMAIN nodes : nodes[g].sm = "none"

PartlyRead ==
  {m \in [MCGuid -> NodeViews] :
     m[g1].desc = d1 /\ m[g1].sm # "none" /\ m[g2].desc = d1 /\ m[g2].sm = "none"}

Sweep(nodes, ports, links, complete, smSeen) ==
  [nodes |-> nodes, ports |-> ports, links |-> links,
   complete |-> complete, smSeen |-> smSeen]

NodeSweeps ==
  {Sweep(n, <<>>, {}, TRUE, TRUE) : n \in {m \in NodeMaps : ~ NoSm(m)}}
  \cup {Sweep(n, <<>>, {}, TRUE, FALSE) : n \in {m \in NodeMaps : NoSm(m)}}
  \cup {Sweep(n, <<>>, {}, TRUE, FALSE) : n \in PartlyRead}

View(log, speed, width, rest) ==
  [log |-> log, speed |-> speed, width |-> width, rest |-> rest]

\* As first seen; then each column changed on its own.
PortViews == {View("active", 4, 2, 0), View("active", 2, 2, 0),
              View("active", 4, 1, 0), View("down", 4, 2, 0), View("active", 4, 2, 1)}

Steady == View("active", 4, 2, 0)

\* The port p changes, cabled or not; where the ports stay as they are, cables move.
PortMaps == {[x \in MCPort |-> IF x = p THEN v ELSE Steady] : v \in PortViews}
              \cup {[x \in {p, q} |-> Steady]}

Cablings == {{}, {{p, q}}, {{q, r}}, {{p}}}

Cabled ==
  PortMaps \X {{}, {{p, q}}} \cup {[x \in MCPort |-> Steady]} \X Cablings

PortSweeps ==
  {Sweep([x \in {g1} |-> [desc |-> d1, sm |-> "master"]], mc[1], mc[2], TRUE, TRUE) :
     mc \in Cabled}

MCObservations ==
  NodeSweeps \cup PortSweeps \cup {Sweep(<<>>, <<>>, {}, FALSE, TRUE)}
=============================================================================
