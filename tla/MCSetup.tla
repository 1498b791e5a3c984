------------------------------- MODULE MCSetup -------------------------------
(***************************************************************************)
(* Setup on one migration file of each kind there is: without a            *)
(* transaction, within one, and half and half.  One operator has the last  *)
(* release installed and one this one; so do the API and the collector,    *)
(* whose host is upgraded last (README.md:318).                            *)
(***************************************************************************)
EXTENDS Setup, Migrations

CONSTANTS old, new

Operators == {old, new}
Numbered(files) == [v \in 0 .. Len(files) - 1 |-> files[v + 1]]

OfEachKind == Numbered(<<Extension, Identity, Rollups>>)
LastKind == 2

\* The release before Last and Last itself.
Installed == [p \in Operators |-> IF p = old THEN Last - 1 ELSE Last]
Expected == [r \in Role |-> IF r = API_ROLE THEN Last ELSE Last - 1]

Everything ==
  UNION {{Files[i][j].obj : j \in DOMAIN Files[i]} : i \in DOMAIN Files}
  \cup {VERSION_TABLE, TIMESCALEDB}
=============================================================================
