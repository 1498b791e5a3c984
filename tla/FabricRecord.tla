----------------------------- MODULE FabricRecord -----------------------------
(***************************************************************************)
(* What the topology tables promise, with no rows, digests or events: a    *)
(* record that says, for every instant, what the fabric was.  A complete   *)
(* sweep collected at ts sets the record from ts on and touches nothing    *)
(* before it; an incomplete sweep, and one whose transaction is lost,      *)
(* change nothing.                                                         *)
(***************************************************************************)
EXTENDS Integers

CONSTANTS Observations, Horizon, Nothing

Instants == 0 .. Horizon

VARIABLES
  record,    \* record[t]: the fabric at instant t, as far as is known
  clock,     \* when the last sweep was collected
  handed,    \* the last sweep
  outcome    \* whether it was kept

vars == <<record, clock, handed, outcome>>

Blank == [nodes |-> {}, ports |-> {}, links |-> {}]

\* The SM state recorded for node g, if the record has the node.
KnownSm(pic, g) == {nv[2].sm : nv \in {x \in pic.nodes : x[1] = g}}

\* A sweep that did not read the SM says nothing about the SM of a known node.
SmOf(obs, pic, g) ==
  IF obs.smSeen \/ KnownSm(pic, g) = {}
    THEN obs.nodes[g].sm
    ELSE CHOOSE s \in KnownSm(pic, g) : TRUE

Interpret(obs, pic) ==
  [nodes |-> {<<g, [desc |-> obs.nodes[g].desc, sm |-> SmOf(obs, pic, g)]>>
                : g \in DOMAIN obs.nodes},
   ports |-> {<<p, obs.ports[p]>> : p \in DOMAIN obs.ports},
   links |-> {<<l, "cabled">> : l \in obs.links}]

\* What a sweep may be taken for: itself, or one that read the same of the fabric
\* but not the whole SM table, which the change gate does not tell apart.
TakenFor(obs) == {obs} \cup {o \in Observations : o = [obs EXCEPT !.smSeen = FALSE]}

Keep(obs, ts) ==
  /\ outcome' = "committed"
  /\ IF obs.complete
       THEN \E o \in TakenFor(obs) :
              record' = [t \in Instants |->
                           IF t < ts THEN record[t] ELSE Interpret(o, record[clock])]
       ELSE UNCHANGED record

Lose == outcome' = "rolled back" /\ UNCHANGED record

Init ==
  /\ record = [t \in Instants |-> Blank]
  /\ clock = 0
  /\ handed = Nothing
  /\ outcome = "none"

Next ==
  \E obs \in Observations, ts \in Instants :
    /\ ts > clock
    /\ handed' = obs
    /\ clock' = ts
    /\ Keep(obs, ts) \/ Lose

Spec == Init /\ [][Next]_vars
=============================================================================
