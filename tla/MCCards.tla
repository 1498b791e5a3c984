------------------------------- MODULE MCCards -------------------------------
(***************************************************************************)
(* Cards with a switch and an adapter and two links between them, over     *)
(* three sweeps: the second link is cabled and the adapter gets another    *)
(* health and a chassis; then the first link is gone.                      *)
(***************************************************************************)
EXTENDS Cards, TLC

CONSTANTS s, a, e, f, box

Kinds  == s :> "switch" @@ a :> "ca"
Cables == e :> {s, a} @@ f :> {s, a}
Boxed  == {box}
Sorted == <<s, box, a, e, f>>

Unit(sys, health) == [sys |-> sys, health |-> health]
Port(health)      == [health |-> health]

History == <<
  [nodes |-> s :> Unit(None, "ok") @@ a :> Unit(None, "ok"),
   links |-> e :> Port("ok"), groups |-> {}],
  [nodes |-> s :> Unit(None, "ok") @@ a :> Unit(box, "degraded"),
   links |-> e :> Port("ok") @@ f :> Port("ok"), groups |-> {box}],
  [nodes |-> s :> Unit(None, "ok") @@ a :> Unit(box, "degraded"),
   links |-> f :> Port("down"), groups |-> {box}] >>

Live             == [mode |-> "live", since |-> None, until |-> None]
Since(was, is)   == [mode |-> "compare", since |-> was, until |-> is]
AllTimes == {Live, Since(1, None)}
Limits   == {2, 4}
=============================================================================
