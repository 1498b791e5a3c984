------------------------------ MODULE Intervals ------------------------------
(***************************************************************************)
(* Interval-versioned tables: the shape that node_state, port_state and    *)
(* link_state share (migration 002).  A table is a set of rows             *)
(*     [key, val, from, to]                                                *)
(* saying that entity key had value val from instant from (included) until *)
(* instant to (excluded).  Nothing is updated in place except to close an  *)
(* interval.  The operators are the writer's diff, the schema's            *)
(* constraints and the read pattern the API uses.                          *)
(***************************************************************************)
EXTENDS Integers

\* valid_to IS NULL.  Instants are natural numbers, so -1 is none of them.
Open == -1

Rows(Key, Val, Time) == [key : Key, val : Val, from : Time, to : Time \cup {Open}]

-----------------------------------------------------------------------------
(* Reading. *)

\* valid_from <= T AND (valid_to IS NULL OR valid_to > T)
Covers(r, t) == r.from <= t /\ (r.to = Open \/ t < r.to)

\* What the table says of instant t: the set of <<key, value>> in force.
AsOf(T, t) == {<<r.key, r.val>> : r \in {x \in T : Covers(x, t)}}

\* The instants, not NULL, at which a row of T starts or ends.
Edges(T) == {r.from : r \in T} \cup {r.to : r \in {x \in T : x.to # Open}}

Current(T) == {r \in T : r.to = Open}

CurrentKeys(T) == {r.key : r \in Current(T)}

\* The value of key k in the writer's `cur` dictionary.
CurrentVal(T, k) == (CHOOSE r \in Current(T) : r.key = k).val

-----------------------------------------------------------------------------
(* Writing.  want is what the sweep observed: a function from the keys it  *)
(* saw to their values.                                                    *)

\* Mutant: a row is stale only if its entity is still there.
MutStaleKept(T, want) ==
  {r \in Current(T) : r.key \in DOMAIN want /\ want[r.key] # r.val}

Stale(T, want) ==
  {r \in Current(T) : ~ (r.key \in DOMAIN want /\ want[r.key] = r.val)}

Missing(T, want) ==
  {k \in DOMAIN want : \A r \in Current(T) : ~ (r.key = k /\ r.val = want[k])}

\* Mutant: a row is closed at the last instant it held.
MutCloseEarly(T, S, ts) == (T \ S) \cup {[r EXCEPT !.to = ts - 1] : r \in S}

\* UPDATE ... SET valid_to = ts, for the rows of S.
CloseRows(T, S, ts) == (T \ S) \cup {[r EXCEPT !.to = ts] : r \in S}

\* INSERT of an open row for each key of K.
OpenRows(T, want, K, ts) ==
  T \cup {[key |-> k, val |-> want[k], from |-> ts, to |-> Open] : k \in K}

\* The table once the rows the sweep contradicts are closed ...
Closed(T, want, ts) == CloseRows(T, Stale(T, want), ts)

\* ... and, after that, the rows it calls for are opened.
Diffed(T, want, ts) == OpenRows(Closed(T, want, ts), want, Missing(T, want), ts)

-----------------------------------------------------------------------------
(* The constraints every state table repeats. *)

\* CHECK (valid_to IS NULL OR valid_to > valid_from)
Ordered(T) == \A r \in T : r.to = Open \/ r.from < r.to

\* NOT (tstzrange(r) && tstzrange(s))
Apart(r, s) == \/ r.to # Open /\ r.to <= s.from
               \/ s.to # Open /\ s.to <= r.from

\* EXCLUDE USING gist (key WITH =, tstzrange(valid_from, valid_to) WITH &&)
NoOverlap(T) == \A r, s \in T : r.key = s.key /\ r # s => Apart(r, s)

Lawful(T) == Ordered(T) /\ NoOverlap(T)

\* For links, whose key is the set of the two ports: a port is in at most one
\* cable at any instant.
OneCablePerPort(T) ==
  \A r, s \in T : r.key \cap s.key # {} /\ r # s => Apart(r, s)
=============================================================================
