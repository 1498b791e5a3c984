------------------------------ MODULE MCReadPath ------------------------------
(***************************************************************************)
(* ReadPath for a browser on one of several URLs, each with the sweeps its *)
(* answer depends on.                                                      *)
(***************************************************************************)
EXTENDS ReadPath

CONSTANTS a, b

Contents == {a, b}

Url(kind, at) == [kind |-> kind, at |-> at]

LiveMap     == Url("map", Live)
Steady      == {LiveMap, Url("map", 2), Url("card", 2), Url("card", Live),
                Url("card with traffic", 2), Url("card with traffic", Live),
                Url("traffic", Live), Url("traffic", 3)}

SweepsOf == [k \in Kind |-> CASE k = "traffic"           -> 0
                              [] k = "card with traffic" -> 1
                              [] OTHER                   -> 3]
DumpsOf  == [k \in Kind |-> IF k \in {"map", "card"} THEN 0 ELSE 3]
=============================================================================
