----------------------------- MODULE ErrorCounters -----------------------------
(***************************************************************************)
(* Error counters from the wire to the API: what an ibqueryerrors run      *)
(* stores (build_error_observation, CounterWriter.write), and what the     *)
(* readers make of the stored rows (queries/counters.py): the overlay's    *)
(* delta over a window and the detail card's.                              *)
(*                                                                         *)
(* Each port has one counter: the fourteen columns never meet, except in   *)
(* the flags, which are raised if any column raises them.  Counters        *)
(* saturate and may be cleared from outside.  Instants are the collection  *)
(* cycles, all rows of one cycle carrying one time.  The history variable  *)
(* truth records what really was the case at each of them.                 *)
(***************************************************************************)
EXTENDS Integers, Sequences, FiniteSets, FiniteSetsExt

CONSTANTS
  Port,        \* ports of the fabric, all with a row in table port
  Ceiling,     \* where a counter saturates
  Lookback,    \* DEFAULT_BASELINE_LOOKBACK, in cycles
  MaxErrors, MaxClears, Horizon   \* bounds: errors and clears per port, cycles

ASSUME CountersAssumption ==
  /\ Ceiling \in Nat \ {0}
  /\ Lookback \in Nat
  /\ MaxErrors \in Nat /\ MaxClears \in Nat /\ Horizon \in Nat

VARIABLES
  counter,     \* the hardware's counters
  total,       \* errors there have been on each port
  clears,      \* times each counter has been cleared
  truth,       \* history: total and clears at each cycle, and who was missed
  readings     \* port_errors

countersVars == <<counter, total, clears, truth, readings>>

Reading == [port : Port, at : 1 .. Horizon, value : 0 .. Ceiling]

-----------------------------------------------------------------------------
(* The fabric. *)

Error(p) ==
  /\ total[p] < MaxErrors
  /\ counter' = [counter EXCEPT ![p] = IF @ < Ceiling THEN @ + 1 ELSE @]
  /\ total' = [total EXCEPT ![p] = @ + 1]
  /\ UNCHANGED <<clears, truth, readings>>

\* perfquery -R, a reboot of the switch.
Clear(p) ==
  /\ clears[p] < MaxClears
  /\ counter' = [counter EXCEPT ![p] = 0]
  /\ clears' = [clears EXCEPT ![p] = @ + 1]
  /\ UNCHANGED <<total, truth, readings>>

-----------------------------------------------------------------------------
(* The error half of a cycle. *)

\* ibqueryerrors names the ports with a nonzero counter.
Nonzero == {p \in Port : counter[p] # 0}

\* Ports named are stored as read, ports of the universe that are not as zero.
RowsOf(named, universe) ==
  {[port |-> p, at |-> Len(truth) + 1, value |-> IF p \in named THEN counter[p] ELSE 0]
     : p \in named \cup universe}

\* One cycle goes by, in which the dump ended before it came to some ports.
Tick(missed) ==
  /\ Len(truth) < Horizon
  /\ truth' = Append(truth, [p \in Port |-> [total |-> total[p], clears |-> clears[p],
                                             missed |-> p \in missed]])
  /\ UNCHANGED <<counter, total, clears>>

\* The dump is whole; universe is the port set of the cycle's topology sweep.
Poll(universe) ==
  /\ Tick({})
  /\ readings' = readings \cup RowsOf(Nonzero, universe)

\* The tool times out or dies: what it printed is not clean, and is stored.
PollCutOff(named, universe) ==
  /\ named \subseteq Nonzero
  /\ Tick(Nonzero \ named)
  /\ readings' = readings \cup RowsOf(named, universe)

\* No output to read, or the transaction fails and the error half is logged.
Skip == Tick({}) /\ UNCHANGED readings

-----------------------------------------------------------------------------
(* Reading. *)

RowsFor(p) == {r \in readings : r.port = p}

\* DISTINCT ON (port_id) ... ORDER BY time DESC, when there is one.
Newest(S) == CHOOSE r \in S : \A s \in S : s.at <= r.at

Values(S) == {r.value : r \in S}

\* _BEFORE_SINCE and _IN_WINDOW
BeforeSince(p, since) == {r \in RowsFor(p) : since - Lookback < r.at /\ r.at <= since}
InWindow(p, since, until) == {r \in RowsFor(p) : since < r.at /\ r.at <= until}
UpTo(p, until) == {r \in RowsFor(p) : r.at <= until}

Positive(n) == IF n > 0 THEN n ELSE 0

\* Mutant: with no reading before the window, counters started from zero.
MutMovedFromZero(before, inside) ==
  Positive(Newest(inside).value - (IF before # {} THEN Newest(before).value ELSE 0))

\* From the baseline, or the smallest reading of the window if there is none.
Moved(before, inside) ==
  Positive(Newest(inside).value
             - (IF before # {} THEN Newest(before).value ELSE Min(Values(inside))))

\* Mutant: only readings inside the window are compared.
MutWentBackInside(before, inside) == Max(Values(inside)) > Newest(inside).value

\* Backwards inside the window, or since the baseline.
WentBack(before, inside) ==
  \/ Max(Values(inside)) > Newest(inside).value
  \/ before # {} /\ Min(Values(inside)) < Newest(before).value

\* counters.assemble, for one port.
Delta(p, since, until) ==
  LET before == BeforeSince(p, since)
      inside == InWindow(p, since, until)
  IN  IF inside = {} \/ (before = {} /\ Cardinality(inside) < 2)
        THEN [noData |-> TRUE]
        ELSE [noData  |-> FALSE,
              d       |-> Moved(before, inside),
              reset   |-> WentBack(before, inside),
              partial |-> before = {}]

\* Mutant: a baseline of any age will do.
MutCardDelta(p, since, until) ==
  LET before == UpTo(p, since)
      upto   == UpTo(p, until)
      base   == Newest(before)
      last   == Newest(upto)
  IN  IF /\ upto # {} /\ before # {}
         /\ base.at < last.at
         /\ base.value <= last.value
        THEN [known |-> TRUE, d |-> last.value - base.value]
        ELSE [known |-> FALSE]

\* counters.port_counters, for one port: the delta of the detail card.
CardDelta(p, since, until) ==
  LET before == BeforeSince(p, since)
      upto   == UpTo(p, until)
      base   == Newest(before)
      last   == Newest(upto)
  IN  IF /\ upto # {} /\ before # {}
         /\ base.at < last.at
         /\ base.value <= last.value
        THEN [known |-> TRUE, d |-> last.value - base.value]
        ELSE [known |-> FALSE]

-----------------------------------------------------------------------------
CountersInit ==
  /\ counter = [p \in Port |-> 0]
  /\ total = [p \in Port |-> 0]
  /\ clears = [p \in Port |-> 0]
  /\ truth = <<>>
  /\ readings = {}

\* Not a step of the program: where the bounds end the model.
AtBound == Len(truth) = Horizon /\ UNCHANGED countersVars

CountersNext ==
  \/ \E p \in Port : Error(p) \/ Clear(p)
  \/ \E universe \in SUBSET Port :
       Poll(universe) \/ \E named \in SUBSET Port : PollCutOff(named, universe)
  \/ Skip
  \/ AtBound

CountersSpec == CountersInit /\ [][CountersNext]_countersVars

-----------------------------------------------------------------------------
(* Properties. *)

PortHistory == [Port -> [total  : 0 .. MaxErrors, clears : 0 .. MaxClears,
                         missed : BOOLEAN]]

\* Type invariant: counters, their history and the readings are of their types,
\* and a series has one reading of an instant.
CountersTypeOK ==
  /\ counter \in [Port -> 0 .. Ceiling]
  /\ total \in [Port -> 0 .. MaxErrors]
  /\ clears \in [Port -> 0 .. MaxClears]
  /\ truth \in Seq(PortHistory) /\ Len(truth) <= Horizon
  /\ readings \subseteq Reading
  /\ \A r, s \in readings : r.port = s.port /\ r.at = s.at => r = s

Windows == {w \in (0 .. Len(truth)) \X (1 .. Len(truth)) : w[1] < w[2]}

\* The overlay's answer over a window, and the windows in which it is measured.
Answer(p, w) == Delta(p, w[1], w[2])
Measured(p)  == {w \in Windows : ~ Answer(p, w).noData}

\* What a measured delta is about: from its baseline to its last reading.
Started(p, w) ==
  IF BeforeSince(p, w[1]) # {}
    THEN Newest(BeforeSince(p, w[1])).at
    ELSE Min({r.at : r \in InWindow(p, w[1], w[2])})

Ended(p, w) == Newest(InWindow(p, w[1], w[2])).at

Happened(p, w) == truth[Ended(p, w)][p].total - truth[Started(p, w)][p].total
Cleared(p, w)  == truth[Started(p, w)][p].clears # truth[Ended(p, w)][p].clears
Missed(p, w)   == \E t \in Started(p, w) .. Ended(p, w) : truth[t][p].missed

\* The reading a measured delta ends with was short of the ceiling.
BelowCeiling(p, w) == Newest(UpTo(p, Ended(p, w))).value < Ceiling

\* A reset makes the figure a lower bound: no delta, flagged or not, exceeds the
\* errors that happened between the two readings it is taken from, if the dumps
\* of that time came to the port.
NeverOverstates ==
  \A p \in Port : \A w \in Measured(p) :
    ~ Missed(p, w) => Answer(p, w).d <= Happened(p, w)

\* The delta of a counter that nobody cleared and that has not saturated is the
\* exact number of errors, and carries no flag.
ExactUnlessDisturbed ==
  \A p \in Port : \A w \in Measured(p) :
    ~ Cleared(p, w) /\ ~ Missed(p, w) /\ BelowCeiling(p, w)
      => Answer(p, w).d = Happened(p, w) /\ ~ Answer(p, w).reset

\* A flag that is raised has a cause between the two readings: the counter was
\* cleared, or a dump ended before it came to the port.
ResetHasCause ==
  \A p \in Port : \A w \in Measured(p) :
    Answer(p, w).reset => Cleared(p, w) \/ Missed(p, w)

\* A clear hides behind new errors only, never behind silence.  Between the
\* baseline and a reading of the window, or between a reading and the last, it
\* raises the flag unless as many errors came after the first of the two as the
\* counter stood at then; and a reading below the first raises it whatever came
\* between.  The extrema of counters.py 218-221 can show no more: 3 errors, a
\* clear and 3 errors again pass for a quiet port.
ClearsShow ==
  \A p \in Port : \A w \in Measured(p) : \A r, s \in RowsFor(p) :
    /\ Started(p, w) <= r.at /\ r.at < s.at /\ s.at <= Ended(p, w)
    /\ s.at = Ended(p, w) \/ (r.at = Started(p, w) /\ ~ Answer(p, w).partial)
    /\ \/ s.value < r.value
       \/ /\ ~ Missed(p, w)
          /\ truth[r.at][p].clears # truth[s.at][p].clears
          /\ truth[s.at][p].total - truth[r.at][p].total < r.value
    => Answer(p, w).reset

\* A delta is never more than the events of its window, and all of them where
\* nothing disturbed the counter.
DeltaIsSound ==
  /\ CountersTypeOK
  /\ NeverOverstates
  /\ ExactUnlessDisturbed

\* The reset flag tells: raised only with a cause, and for every clear that new
\* errors have not made up for.
FlagsTell ==
  /\ ResetHasCause
  /\ ClearsShow

\* The card and the graph agree over the same window (routes/detail.py): where
\* the card states a delta, the overlay measured the port from a reading before
\* the window and states the same.
CardAgrees ==
  \A p \in Port, w \in Windows :
    LET card  == CardDelta(p, w[1], w[2])
        delta == Delta(p, w[1], w[2])
    IN  card.known => ~ delta.noData /\ ~ delta.partial /\ card.d = delta.d
=============================================================================
