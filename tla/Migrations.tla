------------------------------ MODULE Migrations ------------------------------
(***************************************************************************)
(* The numbered files of db/migrations as programs: what each statement    *)
(* makes, and where the BEGIN and the COMMIT stand.  Columns, types,       *)
(* indices, comments and policies are left out, they stand or fall with    *)
(* the relation they belong to.                                            *)
(***************************************************************************)
EXTENDS Sequences

None == "none"

Begin  == [op |-> "begin",  obj |-> None]
Commit == [op |-> "commit", obj |-> None]
\* CREATE TABLE, CREATE MATERIALIZED VIEW: refused when the name is taken.
Create(o) == [op |-> "create", obj |-> o]
\* CREATE EXTENSION IF NOT EXISTS, DROP VIEW IF EXISTS and CREATE VIEW.
Ensure(o) == [op |-> "ensure", obj |-> o]

Extension == <<Ensure("timescaledb")>>

Identity == <<Begin, Create("fabric"), Create("node"), Create("port"), Commit>>

State ==
  <<Begin, Ensure("btree_gist"), Ensure("intarray"), Create("topology_snapshot"),
    Create("node_state"), Create("port_state"), Create("link_state"),
    Create("topology_event"), Commit>>

Counters ==
  <<Begin, Create("counter_sweep"), Create("port_pm_caps"), Create("port_traffic"),
    Create("port_errors"), Commit>>

\* A continuous aggregate cannot be made inside a transaction.
Rollups ==
  <<Create("traffic_1m"), Create("traffic_1h"), Create("errors_1h"),
    Begin, Ensure("port_counter_pegged"), Ensure("counter_sweep_degraded"), Commit>>

Files == <<Extension, Identity, State, Counters, Rollups>>
=============================================================================
