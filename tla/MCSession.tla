------------------------------ MODULE MCSession ------------------------------
(***************************************************************************)
(* Session with two fabrics, the live view and one pinned instant, opened  *)
(* without a fabric, by a link to the past of one, and by an old link to   *)
(* one that is gone.                                                       *)
(***************************************************************************)
EXTENDS Session, TLC

CONSTANTS a, b, gone

AB == {a, b}
Listing == [some \in (SUBSET AB) \ {{}} |-> IF a \in some THEN a ELSE b]
Live     == [mode |-> "live"]
Pinned   == [mode |-> "point", at |-> 1]
TwoTimes == {Live, Pinned}

Opened(f, t) == [fabric |-> f, time |-> t]
OldLinks == {Opened(None, Live), Opened(b, Pinned), Opened(gone, Live)}
=============================================================================
