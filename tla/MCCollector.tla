----------------------------- MODULE MCCollector -----------------------------
(***************************************************************************)
(* Collector with one node known from the start and one that is plugged in *)
(* later, each with one port.                                              *)
(***************************************************************************)
EXTENDS Collector, TLC

CONSTANTS g1, g2

MCGuid == {g1, g2}
MCPortNum == {1}

Whole(nodes, sound) ==
  [nodes |-> nodes, ports |-> nodes \X MCPortNum, complete |-> TRUE, sound |-> sound]

Torn == [nodes |-> MCGuid, ports |-> {<<g2, 1>>}, complete |-> FALSE, sound |-> TRUE]

SoundSweeps == {Whole({g1}, TRUE), Whole(MCGuid, TRUE), Torn}
MCSweeps    == SoundSweeps \cup {Whole(MCGuid, FALSE)}

\* A --counters dump names everything the switches know of.
MCDumps == {MCGuid \X MCPortNum}
=============================================================================
