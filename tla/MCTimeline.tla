------------------------------ MODULE MCTimeline ------------------------------
(***************************************************************************)
(* Timeline with two fine units to a millisecond, a day of two, and       *)
(* sweeps that land off the millisecond, unchanged or incomplete; or too   *)
(* many of them for one answer of the index.                               *)
(***************************************************************************)
EXTENDS Timeline

Sweep(iso, changed, complete) == [iso |-> iso, changed |-> changed, complete |-> complete]

\* The head did not complete; then the fabric changes.
Struggling   == <<Sweep(3, TRUE, TRUE), Sweep(5, FALSE, FALSE), Sweep(8, TRUE, TRUE)>>
\* As many as one answer of the index holds: it counts as cut off.
Crowded      == [k \in 1 .. 4 |-> Sweep(2 * k, k # 2, TRUE)]
AllHistories == {Struggling, Crowded}
OpensAt      == [h \in AllHistories |-> IF h = Crowded THEN 4 ELSE 2]

Hour     == {2}
Drags    == {-1}
Wheel    == {<<4, 5>>}
Aims     == {<<1, 2>>}
=============================================================================
