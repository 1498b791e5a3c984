--------------------------- MODULE Database_proofs ---------------------------
(***************************************************************************)
(* Theorems about the two parts of the backend that meet in the database:  *)
(* setting it up and reading from it.                                      *)
(*                                                                         *)
(* Setting up, for any migrations whose files end outside a transaction,   *)
(* any number of operators and any builds.                                 *)
(*                                                                         *)
(* The read path, for any contents, URL, window, lookback and interleaving *)
(* of requests with the collector's commits.  That proof rests on one      *)
(* shape of invariant: what was read under a tag is what would be read     *)
(* now, unless the tag has moved since, and a tag only moves forward.      *)
(***************************************************************************)
EXTENDS Setup, ReadPath, WellFoundedInduction, TLAPS

-----------------------------------------------------------------------------
(* Setting up. *)

-----------------------------------------------------------------------------
(* Type correctness. *)

\* A statement of a migration is one.
LEMMA NowIsStatement ==
  ASSUME SetupTypeOK, NEW p \in Op, NEW v \in 0 .. Last, AtStatement(p, v)
  PROVE  /\ at[p] \in Nat /\ Len(Sql[v]) \in Nat
         /\ at[p] + 1 \in 1 .. Len(Sql[v])
         /\ Now(p, v) \in Statement
<1>1. Sql[v] \in Seq(Statement)
  BY SetupAssumption
<1>2. at[p] \in Nat /\ Len(Sql[v]) \in Nat
  <2>1. at[p] \in Nat
    BY DEF SetupTypeOK
  <2>2. Len(Sql[v]) \in Nat
    BY <1>1
  <2> QED
    BY <2>1, <2>2
<1>3. at[p] + 1 \in 1 .. Len(Sql[v])
  BY <1>2 DEF AtStatement
<1> QED
  BY <1>1, <1>2, <1>3 DEF Now

\* What a statement with IF NOT EXISTS, or a CREATE, leaves is typed.
LEMMA MakeTypes ==
  ASSUME SetupTypeOK, NEW p \in Op, NEW o \in Object, NEW open \in BOOLEAN,
         MakeObject(p, o, open) \/ UNCHANGED <<tables, made, readable>>
  PROVE  /\ tables' \subseteq Object /\ readable' \subseteq Object
         /\ made' \in [Op -> SUBSET Object]
<1>1. CASE MakeObject(p, o, open)
  <2>1. readable' \subseteq Object
    <3>1. readable' = readable \cup {o} \/ readable' = readable
      BY <1>1, Zenon DEF MakeObject
    <3> QED
      BY <3>1 DEF SetupTypeOK
  <2>2. \/ made' = [made EXCEPT ![p] = @ \cup {o}] /\ tables' = tables
        \/ tables' = tables \cup {o} /\ made' = made
    BY <1>1, Zenon DEF MakeObject
  <2>3. tables \subseteq Object /\ made \in [Op -> SUBSET Object]
    BY DEF SetupTypeOK
  <2> QED
    BY <2>1, <2>2, <2>3
<1>2. CASE UNCHANGED <<tables, made, readable>>
  BY <1>2 DEF SetupTypeOK
<1> QED
  BY <1>1, <1>2

\* To move on, within a migration or to another step, keeps counters typed.
LEMMA GotoTypes ==
  ASSUME SetupTypeOK, NEW p \in Op, NEW where \in Step \cup End, Goto(p, where) \/ Advance(p)
  PROVE  pc' \in [Op -> Step \cup End] /\ at' \in [Op -> Nat]
<1>1. pc \in [Op -> Step \cup End] /\ at \in [Op -> Nat]
  BY DEF SetupTypeOK
<1> QED
  BY <1>1 DEF Goto, Advance

\* A cluster in which nothing is set up is of its types.
LEMMA InitTypes == SetupInit => SetupTypeOK
<1> SUFFICES ASSUME SetupInit
             PROVE  SetupTypeOK
  OBVIOUS
<1>1. /\ contrib \in BOOLEAN /\ database \in BOOLEAN
      /\ granted \in BOOLEAN /\ defaults \in BOOLEAN
  BY Zenon DEF SetupInit
<1>2. /\ roles \subseteq Role /\ tables \subseteq Object /\ readable \subseteq Object
      /\ recorded \subseteq 0 .. Last /\ shared \subseteq Op
  BY DEF SetupInit
<1>3. /\ pc \in [Op -> Step \cup End] /\ at \in [Op -> Nat]
      /\ command \in [Op -> {"init", "init --no-migrate", "migrate"}]
      /\ todo \in [Op -> SUBSET (0 .. Last)] /\ made \in [Op -> SUBSET Object]
  BY DEF SetupInit, End
<1> QED
  BY <1>1, <1>2, <1>3, Zenon DEF SetupTypeOK

\* Every step keeps the types.
LEMMA NextTypes == SetupTypeOK /\ [SetupNext]_setupVars => SetupTypeOK'
<1> SUFFICES ASSUME SetupTypeOK, [SetupNext]_setupVars
             PROVE  SetupTypeOK'
  OBVIOUS
<1> USE DEF Role, server, run
<1>1. ASSUME NEW p \in Op, NEW c \in {"init", "init --no-migrate", "migrate"}, Start(p, c)
      PROVE  SetupTypeOK'
  <2>1. PICK w \in Step \cup End : Goto(p, w)
    BY <1>1 DEF Start, Step, End
  <2>2. pc' \in [Op -> Step \cup End] /\ at' \in [Op -> Nat]
    BY <2>1, GotoTypes
  <2>3. shared' \subseteq Op
    BY <1>1 DEF Start, SetupTypeOK, Running
  <2> QED
    BY <1>1, <2>2, <2>3 DEF Start, SetupTypeOK
<1>2. ASSUME NEW p \in Op, CreateDatabase(p)
      PROVE  SetupTypeOK'
  <2>1. pc' \in [Op -> Step \cup End] /\ at' \in [Op -> Nat]
    BY <1>2, GotoTypes DEF CreateDatabase, Step, End
  <2> QED
    BY <1>2, <2>1 DEF CreateDatabase, SetupTypeOK
<1>3. ASSUME NEW p \in Op, CreateRole(p)
      PROVE  SetupTypeOK'
  <2>1. pc' \in [Op -> Step \cup End] /\ at' \in [Op -> Nat]
    <3>1. UNCHANGED <<pc, at>> \/ Goto(p, "extension")
      BY <1>3, Zenon DEF CreateRole
    <3>2. CASE UNCHANGED <<pc, at>>
      BY <3>2 DEF SetupTypeOK
    <3>3. CASE Goto(p, "extension")
      BY <3>3, GotoTypes DEF Step
    <3> QED
      BY <3>1, <3>2, <3>3
  <2>2. roles' \subseteq Role
    <3>1. roles' = roles \cup {API_ROLE} \/ roles' = roles \cup {COLLECTOR_ROLE}
      BY <1>3, Zenon DEF CreateRole
    <3> QED
      BY <3>1 DEF SetupTypeOK
  <2>3. UNCHANGED <<contrib, database, tables, readable, defaults, recorded, command,
                    todo, made, shared, granted>>
    BY <1>3 DEF CreateRole
  <2> QED
    BY <2>1, <2>2, <2>3 DEF SetupTypeOK
<1>4. ASSUME NEW p \in Op, EnsureExtension(p)
      PROVE  SetupTypeOK'
  <2>1. pc' \in [Op -> Step \cup End] /\ at' \in [Op -> Nat]
    <3>1. PICK w \in Step \cup End : Goto(p, w)
      BY <1>4 DEF EnsureExtension, Step, End
    <3> QED
      BY <3>1, GotoTypes
  <2>2. /\ tables' \subseteq Object /\ readable' \subseteq Object
        /\ made' \in [Op -> SUBSET Object]
    BY <1>4, MakeTypes, SetupAssumption DEF EnsureExtension, Ensured
  <2> QED
    BY <1>4, <2>1, <2>2 DEF EnsureExtension, SetupTypeOK
<1>5. ASSUME NEW p \in Op, EnsureVersionTable(p)
      PROVE  SetupTypeOK'
  <2>1. pc' \in [Op -> Step \cup End] /\ at' \in [Op -> Nat]
    BY <1>5, GotoTypes DEF EnsureVersionTable, Step, End
  <2>2. /\ tables' \subseteq Object /\ readable' \subseteq Object
        /\ made' \in [Op -> SUBSET Object]
    BY <1>5, MakeTypes, SetupAssumption DEF EnsureVersionTable, Ensured
  <2> QED
    BY <1>5, <2>1, <2>2 DEF EnsureVersionTable, SetupTypeOK
<1>6. ASSUME NEW p \in Op, FindPending(p)
      PROVE  SetupTypeOK'
  <2>1. pc' \in [Op -> Step \cup End] /\ at' \in [Op -> Nat]
    <3>1. PICK w \in Step \cup End : Goto(p, w)
      BY <1>6 DEF FindPending, AfterMigrations, Step, End
    <3> QED
      BY <3>1, GotoTypes
  <2>2. Pending(p) \subseteq 0 .. Last
    BY SetupAssumption DEF Pending
  <2> QED
    BY <1>6, <2>1, <2>2 DEF FindPending, SetupTypeOK
<1>7. ASSUME NEW p \in Op, NEW v \in 0 .. Last, BeginTransaction(p, v)
      PROVE  SetupTypeOK'
  <2>1. pc' \in [Op -> Step \cup End] /\ at' \in [Op -> Nat]
    BY <1>7, GotoTypes DEF BeginTransaction, Step, End
  <2> QED
    BY <1>7, <2>1 DEF BeginTransaction, SetupTypeOK
<1>8. ASSUME NEW p \in Op, NEW v \in 0 .. Last, CommitTransaction(p, v)
      PROVE  SetupTypeOK'
  <2>1. pc' \in [Op -> Step \cup End] /\ at' \in [Op -> Nat]
    BY <1>8, GotoTypes DEF CommitTransaction, Step, End
  <2> QED
    BY <1>8, <2>1 DEF CommitTransaction, SetupTypeOK
<1>9. ASSUME NEW p \in Op, NEW v \in 0 .. Last, Make(p, v)
      PROVE  SetupTypeOK'
  <2>1. pc' \in [Op -> Step \cup End] /\ at' \in [Op -> Nat]
    BY <1>9, GotoTypes DEF Make, Step, End
  <2>2. Now(p, v).obj \in Object
    BY <1>9, NowIsStatement DEF Make, Statement
  <2>3. /\ tables' \subseteq Object /\ readable' \subseteq Object
        /\ made' \in [Op -> SUBSET Object]
    BY <1>9, <2>2, MakeTypes DEF Make, InTransaction
  <2> QED
    BY <1>9, <2>1, <2>3 DEF Make, SetupTypeOK
<1>10. ASSUME NEW p \in Op, NEW w \in End, EndRun(p, w)
       PROVE  SetupTypeOK'
  <2>1. pc' \in [Op -> Step \cup End] /\ at' \in [Op -> Nat]
    BY <1>10, GotoTypes DEF EndRun
  <2> QED
    BY <1>10, <2>1 DEF EndRun, SetupTypeOK
<1>11. ASSUME NEW p \in Op, NEW v \in 0 .. Last, Record(p, v)
       PROVE  SetupTypeOK'
  <2>1. pc' \in [Op -> Step \cup End] /\ at' \in [Op -> Nat]
    <3>1. PICK w \in Step \cup End : Goto(p, w)
      BY <1>11 DEF Record, AfterMigrations, Step, End
    <3> QED
      BY <3>1, GotoTypes
  <2> QED
    BY <1>11, <2>1 DEF Record, SetupTypeOK
<1>12. ASSUME NEW p \in Op, Grant(p)
       PROVE  SetupTypeOK'
  <2>1. pc' \in [Op -> Step \cup End] /\ at' \in [Op -> Nat]
    BY <1>12, GotoTypes DEF Grant, Step, End
  <2>2. readable' \subseteq Object /\ defaults' \in BOOLEAN /\ granted' \in BOOLEAN
    BY <1>12 DEF Grant, SetupTypeOK
  <2> QED
    BY <1>12, <2>1, <2>2 DEF Grant, SetupTypeOK
<1>13. CASE Install
  BY <1>13 DEF Install, SetupTypeOK
<1>14. CASE UNCHANGED setupVars
  BY <1>14 DEF setupVars, SetupTypeOK
<1>15. ASSUME NEW p \in Op, Apply(p)
       PROVE  SetupTypeOK'
  BY <1>15, <1>7, <1>8, <1>9, <1>10, <1>11 DEF Apply, Clash, End
<1>16. ASSUME NEW p \in Op, Continue(p)
       PROVE  SetupTypeOK'
  BY <1>16, <1>2, <1>3, <1>4, <1>5, <1>6, <1>12, <1>15 DEF Continue
<1>17. ASSUME NEW p \in Op, Die(p)
       PROVE  SetupTypeOK'
  BY <1>17, <1>10 DEF Die, End
<1> QED
  BY <1>1, <1>13, <1>14, <1>16, <1>17 DEF SetupNext

\* The state of server and runs stays of its type, whoever runs what and dies where.
THEOREM SetupTypes == SetupSpec => []SetupTypeOK
<1> QED
  BY InitTypes, NextTypes, PTL DEF SetupSpec

-----------------------------------------------------------------------------
(* What is recorded has been applied. *)

SetupInv == SetupTypeOK /\ RecordedIsApplied /\ Progress

\* Nothing that is there goes away, so what has been applied stays applied.
LEMMA AppliedStays ==
  ASSUME RecordedIsApplied, tables \subseteq tables', recorded' = recorded
  PROVE  RecordedIsApplied'
BY DEF RecordedIsApplied, Makes, MadeBy

\* A run is as far as it was when others act.
LEMMA OthersKeep ==
  ASSUME NEW q \in Op, ProgressOf(q), tables \subseteq tables', recorded \subseteq recorded',
         pc'[q] = pc[q], todo'[q] = todo[q], at'[q] = at[q], made'[q] = made[q]
  PROVE  ProgressOf(q)'
<1>1. CASE pc[q] = "apply"
  <2>1. /\ todo[q] \subseteq 0 .. Carries[q]
        /\ 0 .. Carries[q] \subseteq recorded \cup todo[q]
    BY <1>1 DEF ProgressOf
  <2>2. ASSUME NEW v \in todo[q], IsNext(q, v)'
        PROVE  /\ at[q] <= Len(Sql[v])
               /\ MadeBy(v, at[q]) \subseteq tables' \cup made[q]
               /\ InTransaction(v, at[q]) \/ made[q] = {}
    <3>1. IsNext(q, v)
      BY <2>2 DEF IsNext
    <3> QED
      BY <1>1, <3>1 DEF ProgressOf
  <2>3. ASSUME NEW v \in todo[q], IsNext(q, v)'
        PROVE  /\ MadeBy(v, at[q])' = MadeBy(v, at[q])
               /\ InTransaction(v, at[q])' = InTransaction(v, at[q])
    BY DEF MadeBy, InTransaction
  <2> QED
    BY <1>1, <2>1, <2>2, <2>3 DEF ProgressOf
<1>2. CASE pc[q] # "apply"
  BY <1>2 DEF ProgressOf
<1> QED
  BY <1>1, <1>2

\* A step that records nothing and takes nothing away keeps the invariant if
\* the run that makes it has nothing open and is not among the migrations.
LEMMA OutsideMigrations ==
  ASSUME SetupInv, NEW p \in Op, pc'[p] # "apply", made'[p] = {},
         tables \subseteq tables', recorded' = recorded,
         \A q \in Op \ {p} : /\ pc'[q] = pc[q] /\ todo'[q] = todo[q]
                             /\ at'[q] = at[q] /\ made'[q] = made[q]
  PROVE  RecordedIsApplied' /\ Progress'
<1>1. RecordedIsApplied'
  BY AppliedStays DEF SetupInv
<1>2. ProgressOf(p)'
  BY DEF ProgressOf
<1>3. ASSUME NEW q \in Op \ {p}
      PROVE  ProgressOf(q)'
  BY OthersKeep DEF SetupInv, Progress
<1> QED
  BY <1>1, <1>2, <1>3 DEF Progress

\* A statement in a migration keeps the invariant if what it and those before
\* it make is there, or in a transaction that is open.
LEMMA WithinMigration ==
  ASSUME SetupInv, NEW p \in Op, NEW v \in 0 .. Last, AtStatement(p, v), Advance(p),
         UNCHANGED <<todo, recorded>>, tables \subseteq tables',
         \A q \in Op \ {p} : made'[q] = made[q],
         MadeBy(v, at[p] + 1) \subseteq tables' \cup made'[p],
         InTransaction(v, at[p] + 1) \/ made'[p] = {}
  PROVE  RecordedIsApplied' /\ Progress'
<1>1. RecordedIsApplied'
  BY AppliedStays DEF SetupInv
<1>2. pc' = pc /\ at'[p] = at[p] + 1 /\ \A q \in Op \ {p} : at'[q] = at[q]
  BY DEF Advance, SetupInv, SetupTypeOK
<1>3. ASSUME NEW q \in Op \ {p}
      PROVE  ProgressOf(q)'
  BY <1>2, OthersKeep DEF SetupInv, Progress
<1>4. ProgressOf(p)'
  <2>1. pc[p] = "apply" /\ v \in todo[p] /\ todo[p] \subseteq Nat
    <3>1. todo \in [Op -> SUBSET (0 .. Last)]
      BY DEF SetupInv, SetupTypeOK
    <3>2. todo[p] \subseteq Nat
      BY <3>1, SetupAssumption
    <3> QED
      BY <3>2 DEF AtStatement, IsNext
  <2>2. /\ todo[p] \subseteq 0 .. Carries[p]
        /\ 0 .. Carries[p] \subseteq recorded \cup todo[p]
    BY <2>1 DEF SetupInv, Progress, ProgressOf
  <2>3. ASSUME NEW w \in todo[p], IsNext(p, w)'
        PROVE  w = v
    BY <2>1, <2>3 DEF AtStatement, IsNext
  <2>4. at[p] + 1 <= Len(Sql[v])
    BY NowIsStatement DEF SetupInv
  <2>5. ASSUME NEW w \in todo[p], IsNext(p, w)'
        PROVE  /\ at'[p] <= Len(Sql[w])
               /\ MadeBy(w, at[p])' \subseteq tables' \cup made'[p]
               /\ InTransaction(w, at[p])' \/ made'[p] = {}
    BY <1>2, <2>3, <2>4, <2>5 DEF MadeBy, InTransaction
  <2> QED
    BY <1>2, <2>1, <2>2, <2>5 DEF ProgressOf
<1> QED
  BY <1>3, <1>1, <1>4 DEF Progress
\* One more statement adds what it makes.
LEMMA MadeByNext ==
  ASSUME NEW v, NEW n \in Nat
  PROVE  /\ MadeBy(v, 0) = {}
         /\ Sql[v][n + 1].op \notin {"create", "ensure"} => MadeBy(v, n + 1) = MadeBy(v, n)
         /\ MadeBy(v, n + 1) \subseteq MadeBy(v, n) \cup {Sql[v][n + 1].obj}
<1>1. 1 .. n + 1 = (1 .. n) \cup {n + 1} /\ 1 .. 0 = {}
  OBVIOUS
<1>2. MadeBy(v, 0) = {}
  BY <1>1 DEF MadeBy
<1>3. MadeBy(v, n + 1) \subseteq MadeBy(v, n) \cup {Sql[v][n + 1].obj}
  BY <1>1 DEF MadeBy
<1>4. ASSUME Sql[v][n + 1].op \notin {"create", "ensure"}
      PROVE  MadeBy(v, n + 1) = MadeBy(v, n)
  BY <1>1, <1>4 DEF MadeBy
<1> QED
  BY <1>2, <1>3, <1>4

\* A transaction opens with begin and stays open until commit.
LEMMA OpenNext ==
  ASSUME NEW v, NEW n \in Nat
  PROVE  /\ Sql[v][n + 1].op = "begin" => InTransaction(v, n + 1)
         /\ InTransaction(v, n) /\ Sql[v][n + 1].op # "commit" => InTransaction(v, n + 1)
<1>1. ASSUME Sql[v][n + 1].op = "begin"
      PROVE  InTransaction(v, n + 1)
  <2>1. n + 1 \in 1 .. n + 1 /\ \A k \in n + 1 + 1 .. n + 1 : FALSE
    OBVIOUS
  <2> QED
    BY <1>1, <2>1 DEF InTransaction
<1>2. ASSUME InTransaction(v, n), Sql[v][n + 1].op # "commit"
      PROVE  InTransaction(v, n + 1)
  <2>1. PICK j \in 1 .. n : /\ Sql[v][j].op = "begin"
                            /\ \A k \in j + 1 .. n : Sql[v][k].op # "commit"
    BY <1>2 DEF InTransaction
  <2>2. j \in 1 .. n + 1
    OBVIOUS
  <2>3. \A k \in j + 1 .. n + 1 : k \in j + 1 .. n \/ k = n + 1
    OBVIOUS
  <2> QED
    BY <1>2, <2>1, <2>2, <2>3 DEF InTransaction
<1> QED
  BY <1>1, <1>2

\* BEGIN makes nothing and leaves a transaction that holds nothing.
LEMMA BeginKeeps ==
  ASSUME SetupInv, NEW p \in Op, NEW v \in 0 .. Last, BeginTransaction(p, v)
  PROVE  RecordedIsApplied' /\ Progress'
<1>1. AtStatement(p, v) /\ Advance(p) /\ Sql[v][at[p] + 1].op = "begin"
  BY DEF BeginTransaction, Now
<1>2. UNCHANGED <<todo, recorded, tables, made>>
  BY DEF BeginTransaction, server
<1>3. at[p] \in Nat
  BY DEF SetupInv, SetupTypeOK
<1>4. MadeBy(v, at[p]) \subseteq tables \cup made[p]
  BY <1>1 DEF SetupInv, Progress, ProgressOf, AtStatement, IsNext
<1>5. MadeBy(v, at[p] + 1) = MadeBy(v, at[p])
  BY <1>1, <1>3, MadeByNext
<1>6. InTransaction(v, at[p] + 1)
  BY <1>1, <1>3, OpenNext
<1> QED
  BY <1>1, <1>2, <1>4, <1>5, <1>6, WithinMigration

\* COMMIT moves what the transaction made to the tables.
LEMMA CommitKeeps ==
  ASSUME SetupInv, NEW p \in Op, NEW v \in 0 .. Last, CommitTransaction(p, v)
  PROVE  RecordedIsApplied' /\ Progress'
<1>1. AtStatement(p, v) /\ Advance(p) /\ Sql[v][at[p] + 1].op = "commit"
  BY DEF CommitTransaction, Now
<1>2. /\ UNCHANGED <<todo, recorded>> /\ tables' = tables \cup made[p]
      /\ made'[p] = {} /\ \A q \in Op \ {p} : made'[q] = made[q]
  BY DEF CommitTransaction, SetupInv, SetupTypeOK
<1>3. at[p] \in Nat
  BY DEF SetupInv, SetupTypeOK
<1>4. MadeBy(v, at[p]) \subseteq tables \cup made[p]
  BY <1>1 DEF SetupInv, Progress, ProgressOf, AtStatement, IsNext
<1>5. MadeBy(v, at[p] + 1) = MadeBy(v, at[p])
  BY <1>1, <1>3, MadeByNext
<1> QED
  BY <1>1, <1>2, <1>4, <1>5, WithinMigration

\* A CREATE makes its object, in the open transaction or at once.
LEMMA MakeKeeps ==
  ASSUME SetupInv, NEW p \in Op, NEW v \in 0 .. Last, Make(p, v)
  PROVE  RecordedIsApplied' /\ Progress'
<1> DEFINE o == Now(p, v).obj
<1>1. AtStatement(p, v) /\ Advance(p) /\ Sql[v][at[p] + 1].op \in {"create", "ensure"}
  BY DEF Make, Now
<1>2. UNCHANGED <<todo, recorded>>
  BY DEF Make
<1>3. at[p] \in Nat /\ made \in [Op -> SUBSET Object]
  BY DEF SetupInv, SetupTypeOK
<1>4. /\ MadeBy(v, at[p]) \subseteq tables \cup made[p]
      /\ InTransaction(v, at[p]) \/ made[p] = {}
  BY <1>1 DEF SetupInv, Progress, ProgressOf, AtStatement, IsNext
<1>5. MadeBy(v, at[p] + 1) \subseteq MadeBy(v, at[p]) \cup {o}
  BY <1>3, MadeByNext DEF Now
<1>6. InTransaction(v, at[p]) => InTransaction(v, at[p] + 1)
  BY <1>1, <1>3, OpenNext
<1>7. \/ o \in tables \cup made[p] /\ UNCHANGED <<tables, made>>
      \/ InTransaction(v, at[p]) /\ made' = [made EXCEPT ![p] = @ \cup {o}] /\ tables' = tables
      \/ tables' = tables \cup {o} /\ made' = made
  BY Zenon DEF Make, MakeObject, Exists
<1>8. /\ tables \subseteq tables' /\ \A q \in Op \ {p} : made'[q] = made[q]
      /\ MadeBy(v, at[p] + 1) \subseteq tables' \cup made'[p]
      /\ InTransaction(v, at[p] + 1) \/ made'[p] = {}
  BY <1>3, <1>4, <1>5, <1>6, <1>7
<1> QED
  BY <1>1, <1>2, <1>8, WithinMigration
\* The row of a migration is written when all its statements have run and all
\* before it have rows: the run took them in order.
LEMMA RecordKeeps ==
  ASSUME SetupInv, NEW p \in Op, NEW v \in 0 .. Last, Record(p, v)
  PROVE  RecordedIsApplied' /\ Progress'
<1>1. /\ pc[p] = "apply" /\ IsNext(p, v) /\ v \in todo[p] /\ at[p] = Len(Sql[v])
      /\ UNCHANGED <<tables, made>> /\ recorded' = recorded \cup {v}
  BY DEF Record, IsNext
<1>2. /\ todo'[p] = todo[p] \ {v} /\ \A q \in Op \ {p} : todo'[q] = todo[q]
      /\ at'[p] = 0 /\ \A q \in Op \ {p} : at'[q] = at[q] /\ pc'[q] = pc[q]
  BY DEF Record, Goto, SetupInv, SetupTypeOK
<1>3. /\ todo[p] \subseteq 0 .. Carries[p] /\ 0 .. Carries[p] \subseteq recorded \cup todo[p]
      /\ MadeBy(v, Len(Sql[v])) \subseteq tables \cup made[p]
      /\ InTransaction(v, Len(Sql[v])) \/ made[p] = {}
  BY <1>1 DEF SetupInv, Progress, ProgressOf
<1>4. made[p] = {} /\ Makes(v) \subseteq tables
  BY <1>3, FilesCommit DEF Makes
<1>5. Carries[p] \in Nat
  BY SetupAssumption
<1>6. ASSUME NEW u \in 0 .. v, u # v
      PROVE  u \in recorded
  <2>1. u \in 0 .. Carries[p] /\ ~(v <= u)
    BY <1>1, <1>3, <1>5, <1>6
  <2> QED
    BY <1>1, <1>3, <2>1 DEF IsNext
<1>7. RecordedIsApplied'
  <2>1. ASSUME NEW w \in recorded', NEW u \in 0 .. w
        PROVE  u \in recorded' /\ Makes(u) \subseteq tables'
    <3>1. CASE w \in recorded
      BY <1>1, <3>1 DEF SetupInv, RecordedIsApplied
    <3>2. CASE w = v /\ u = v
      BY <1>1, <1>4, <3>2
    <3>3. CASE w = v /\ u # v
      <4>1. u \in recorded
        BY <1>6, <3>3
      <4>2. u \in 0 .. u
        BY <2>1
      <4> QED
        BY <1>1, <4>1, <4>2 DEF SetupInv, RecordedIsApplied
    <3> QED
      BY <1>1, <3>1, <3>2, <3>3
  <2> QED
    BY <2>1 DEF RecordedIsApplied, Makes, MadeBy
<1>8. ProgressOf(p)'
  <2>1. made'[p] = {}
    BY <1>1, <1>4
  <2>2. todo'[p] \subseteq 0 .. Carries[p] /\ 0 .. Carries[p] \subseteq recorded' \cup todo'[p]
    BY <1>1, <1>2, <1>3
  <2>3. ASSUME NEW w \in todo'[p]
        PROVE  at'[p] <= Len(Sql[w]) /\ MadeBy(w, at[p])' = {}
    <3>1. w \in 0 .. Last
      BY <1>2 DEF SetupInv, SetupTypeOK
    <3>2. Sql[w] \in Seq(Statement)
      BY <3>1, SetupAssumption
    <3>3. Len(Sql[w]) \in Nat
      BY <3>2
    <3>4. MadeBy(w, 0) = {}
      BY MadeByNext
    <3> QED
      BY <1>2, <3>3, <3>4 DEF MadeBy
  <2> QED
    BY <2>1, <2>2, <2>3 DEF ProgressOf
<1>9. ASSUME NEW q \in Op \ {p}
      PROVE  ProgressOf(q)'
  BY <1>1, <1>2, OthersKeep DEF SetupInv, Progress
<1> QED
  BY <1>7, <1>8, <1>9 DEF Progress

\* What a run finds pending is all its build has that is not recorded.
LEMMA FindKeeps ==
  ASSUME SetupInv, NEW p \in Op, FindPending(p)
  PROVE  RecordedIsApplied' /\ Progress'
<1>1. /\ pc[p] # "apply" /\ UNCHANGED <<tables, made, recorded>>
  BY DEF FindPending, server
<1>2. /\ todo'[p] = Pending(p) /\ at'[p] = 0
      /\ \A q \in Op \ {p} : todo'[q] = todo[q] /\ at'[q] = at[q] /\ pc'[q] = pc[q]
  BY DEF FindPending, Goto, SetupInv, SetupTypeOK
<1>3. made'[p] = {}
  BY <1>1 DEF SetupInv, Progress, ProgressOf
<1>4. RecordedIsApplied'
  BY <1>1, AppliedStays DEF SetupInv
<1>5. ProgressOf(p)'
  <2>1. todo'[p] \subseteq 0 .. Carries[p] /\ 0 .. Carries[p] \subseteq recorded' \cup todo'[p]
    BY <1>1, <1>2 DEF Pending
  <2>2. ASSUME NEW w \in todo'[p]
        PROVE  at'[p] <= Len(Sql[w]) /\ MadeBy(w, at[p])' = {}
    <3>1. w \in 0 .. Last
      BY <1>2, SetupAssumption DEF Pending
    <3>2. Sql[w] \in Seq(Statement)
      BY <3>1, SetupAssumption
    <3>3. Len(Sql[w]) \in Nat
      BY <3>2
    <3>4. MadeBy(w, 0) = {}
      BY MadeByNext
    <3> QED
      BY <1>2, <3>3, <3>4 DEF MadeBy
  <2> QED
    BY <1>3, <2>1, <2>2 DEF ProgressOf
<1>6. ASSUME NEW q \in Op \ {p}
      PROVE  ProgressOf(q)'
  BY <1>1, <1>2, OthersKeep DEF SetupInv, Progress
<1> QED
  BY <1>4, <1>5, <1>6 DEF Progress

\* A run that ends gives up what it had open.
LEMMA EndKeeps ==
  ASSUME SetupInv, NEW p \in Op, NEW why \in End, EndRun(p, why)
  PROVE  RecordedIsApplied' /\ Progress'
<1>1. /\ pc'[p] # "apply" /\ made'[p] = {} /\ UNCHANGED <<tables, recorded>>
      /\ \A q \in Op \ {p} : /\ pc'[q] = pc[q] /\ todo'[q] = todo[q]
                            /\ at'[q] = at[q] /\ made'[q] = made[q]
  BY DEF EndRun, Goto, End, server, SetupInv, SetupTypeOK
<1> QED
  BY <1>1, OutsideMigrations

\* So do the steps before the migrations and after them.
LEMMA OtherStepsKeep ==
  ASSUME SetupInv, NEW p \in Op,
         \/ \E c \in {"init", "init --no-migrate", "migrate"} : Start(p, c)
         \/ CreateDatabase(p) \/ CreateRole(p) \/ EnsureExtension(p)
         \/ EnsureVersionTable(p) \/ Grant(p)
  PROVE  RecordedIsApplied' /\ Progress'
<1>1. pc[p] # "apply"
  BY Zenon DEF Start, Running, Step, CreateDatabase, CreateRole, EnsureExtension,
         EnsureVersionTable, Grant
<1>2. made[p] = {}
  BY <1>1 DEF SetupInv, Progress, ProgressOf
<1>3. /\ tables \subseteq tables' /\ UNCHANGED <<made, todo, recorded>>
  BY DEF Start, CreateDatabase, CreateRole, EnsureExtension, EnsureVersionTable, Grant,
         Ensured, MakeObject, server
<1>4. (\E w \in {"idle", "database", "version_table", "roles", "extension", "grants",
                  "pending", "ok"} : Goto(p, w)) \/ UNCHANGED <<pc, at>> \/ Advance(p)
  BY DEF Start, CreateDatabase, CreateRole, EnsureExtension, EnsureVersionTable, Grant
<1>5. pc'[p] # "apply" /\ \A q \in Op \ {p} : pc'[q] = pc[q] /\ at'[q] = at[q]
  BY <1>1, <1>4 DEF Goto, Advance, SetupInv, SetupTypeOK
<1> QED
  BY <1>2, <1>3, <1>5, OutsideMigrations

\* No step of any run, nor its death, breaks the invariant.
LEMMA NextKeeps == SetupInv /\ [SetupNext]_setupVars => SetupInv'
<1> SUFFICES ASSUME SetupInv, [SetupNext]_setupVars
             PROVE  SetupInv'
  OBVIOUS
<1>1. SetupTypeOK'
  BY NextTypes DEF SetupInv
<1>2. ASSUME NEW p \in Op, NEW c \in {"init", "init --no-migrate", "migrate"}, Start(p, c)
      PROVE  RecordedIsApplied' /\ Progress'
  BY <1>2, OtherStepsKeep
<1>3. ASSUME NEW p \in Op, NEW v \in 0 .. Last, Clash(p, v)
      PROVE  RecordedIsApplied' /\ Progress'
  BY <1>3, EndKeeps DEF Clash, End
<1>4. ASSUME NEW p \in Op, Apply(p)
      PROVE  RecordedIsApplied' /\ Progress'
  BY <1>3, <1>4, BeginKeeps, CommitKeeps, MakeKeeps, RecordKeeps DEF Apply
<1>5. ASSUME NEW p \in Op, Continue(p)
      PROVE  RecordedIsApplied' /\ Progress'
  BY <1>4, <1>5, OtherStepsKeep, FindKeeps DEF Continue
<1>6. ASSUME NEW p \in Op, Die(p)
      PROVE  RecordedIsApplied' /\ Progress'
  BY <1>6, EndKeeps DEF Die, End
<1>7. CASE Install \/ UNCHANGED setupVars
  <2>1. UNCHANGED <<tables, recorded, pc, todo, at, made>>
    BY <1>7 DEF Install, setupVars, server, run
  <2>2. RecordedIsApplied'
    <3>1. tables \subseteq tables' /\ recorded' = recorded
      BY <2>1
    <3> QED
      BY <3>1, AppliedStays DEF SetupInv
  <2>3. ASSUME NEW q \in Op
        PROVE  ProgressOf(q)'
    <3>1. ProgressOf(q) /\ tables \subseteq tables' /\ recorded \subseteq recorded'
      BY <2>1 DEF SetupInv, Progress
    <3>2. pc'[q] = pc[q] /\ todo'[q] = todo[q] /\ at'[q] = at[q] /\ made'[q] = made[q]
      BY <2>1
    <3> QED
      BY <3>1, <3>2, OthersKeep
  <2> QED
    BY <1>1, <2>2, <2>3 DEF Progress, SetupInv
<1> QED
  BY <1>1, <1>2, <1>5, <1>6, <1>7 DEF SetupInv, SetupNext

\* Nothing is recorded at first, and no run has started.
LEMMA InitHolds == SetupInit => SetupInv
<1> SUFFICES ASSUME SetupInit
             PROVE  SetupInv
  OBVIOUS
<1>1. SetupTypeOK
  BY InitTypes
<1>2. RecordedIsApplied
  BY DEF SetupInit, RecordedIsApplied
<1>3. Progress
  BY DEF SetupInit, Progress, ProgressOf
<1> QED
  BY <1>1, <1>2, <1>3 DEF SetupInv

\* A version in schema_version, and every one before it, has made all it makes,
\* whatever runs of whatever builds died or met on the way (apply_one, pending).
THEOREM AppliedBeforeRecorded == SetupSpec => []RecordedIsApplied
<1>1. SetupInv => RecordedIsApplied
  BY DEF SetupInv
<1> QED
  BY <1>1, InitHolds, NextKeeps, PTL DEF SetupSpec

\* Reading the highest version is enough: a half that passes check_schema finds
\* every object of its build's migrations.
THEOREM ServedSchemaIsWhole == SetupSpec => []ServesOnWholeSchema
<1>1. ASSUME SetupTypeOK, RecordedIsApplied
      PROVE  ServesOnWholeSchema
  <2> SUFFICES ASSUME NEW r \in Role, CheckSchema(r), NEW u \in 0 .. Expects[r]
               PROVE  Makes(u) \subseteq tables
    BY DEF ServesOnWholeSchema
  <2>1. PICK w \in recorded : Expects[r] <= w
    BY DEF CheckSchema
  <2>2. w \in Nat /\ Expects[r] \in Nat
    <3>1. recorded \subseteq 0 .. Last
      BY <1>1 DEF SetupTypeOK
    <3> QED
      BY <3>1, SetupAssumption
  <2>3. u \in 0 .. w
    BY <2>1, <2>2
  <2> QED
    BY <1>1, <2>1, <2>3 DEF RecordedIsApplied
<1>2. SetupInv => ServesOnWholeSchema
  BY <1>1 DEF SetupInv
<1> QED
  BY <1>2, InitHolds, NextKeeps, PTL DEF SetupSpec

-----------------------------------------------------------------------------
(* What a run that ended well says is done is done. *)

\* Where a run stands tells what it is: only init passes through the grants and
\* the migrations both.
CommandFits(p) ==
  /\ pc[p] \in {"database", "roles", "extension", "grants"} => command[p] # "migrate"
  /\ pc[p] \in {"version_table", "pending", "apply"} => command[p] # "init --no-migrate"

\* A run that is through with the migrations leaves none of its build out, and
\* one that is through with the grants leaves the defaults behind.
DoneOf(p) ==
  /\ pc[p] = "grants" /\ command[p] = "init" => 0 .. Carries[p] \subseteq recorded
  /\ pc[p] = "ok" /\ command[p] # "init --no-migrate" => 0 .. Carries[p] \subseteq recorded
  /\ pc[p] = "ok" /\ command[p] # "migrate" => defaults

\* A run that has had no company is the only one there is.
Alone == \A p \in Running \ shared : Running = {p}

\* What an init that had no company has granted on is all there is.
HalfGranted ==
  \A p \in Op \ shared : pc[p] = "grants" /\ at[p] # 0 => tables \subseteq readable

\* Once granted, what open transactions have made can be read already.
AllGranted ==
  granted => /\ defaults
             /\ tables \subseteq readable
             /\ \A p \in Op : made[p] \subseteq readable

WorkInv ==
  /\ SetupInv
  /\ \A p \in Op : CommandFits(p) /\ DoneOf(p)
  /\ Alone
  /\ HalfGranted
  /\ AllGranted

\* A step within a run is that run's alone: it was going, it stays what it is,
\* and nothing there is or was recorded goes away.
LEMMA StepIsOwn ==
  ASSUME SetupTypeOK, NEW p \in Op, Continue(p) \/ Die(p)
  PROVE  /\ p \in Running /\ UNCHANGED <<command, shared>>
         /\ tables \subseteq tables' /\ recorded \subseteq recorded'
         /\ readable \subseteq readable' /\ (defaults => defaults')
         /\ \A q \in Op \ {p} : pc'[q] = pc[q] /\ at'[q] = at[q] /\ made'[q] = made[q]
<1> DEFINE Own ==
      /\ p \in Running /\ UNCHANGED <<command, shared>>
      /\ tables \subseteq tables' /\ recorded \subseteq recorded'
      /\ readable \subseteq readable' /\ (defaults => defaults')
      /\ \A q \in Op \ {p} : pc'[q] = pc[q] /\ at'[q] = at[q] /\ made'[q] = made[q]
<1> SUFFICES Own
  OBVIOUS
<1>1. ASSUME NEW w, Goto(p, w) \/ Advance(p) \/ UNCHANGED <<pc, at>>
      PROVE  \A q \in Op \ {p} : pc'[q] = pc[q] /\ at'[q] = at[q]
  BY <1>1 DEF Goto, Advance, SetupTypeOK
<1>2. ASSUME NEW o, NEW open \in BOOLEAN,
             MakeObject(p, o, open) \/ UNCHANGED <<tables, made, readable>>
      PROVE  /\ tables \subseteq tables' /\ readable \subseteq readable'
             /\ \A q \in Op \ {p} : made'[q] = made[q]
  BY <1>2 DEF MakeObject, SetupTypeOK
<1> USE DEF Running, Step, server
<1>3. ASSUME CreateDatabase(p) \/ CreateRole(p) \/ FindPending(p)
      PROVE  Own
  <2>1. \E w : Goto(p, w) \/ Advance(p) \/ UNCHANGED <<pc, at>>
    BY <1>3, Zenon DEF CreateDatabase, CreateRole, FindPending
  <2>2. UNCHANGED <<tables, recorded, readable, defaults, command, shared, made>>
    BY <1>3 DEF CreateDatabase, CreateRole, FindPending
  <2>3. p \in Running
    BY <1>3 DEF CreateDatabase, CreateRole, FindPending
  <2> QED
    BY <1>1, <2>1, <2>2, <2>3
<1>4. ASSUME EnsureExtension(p) \/ EnsureVersionTable(p)
      PROVE  Own
  <2>1. \E w : Goto(p, w)
    BY <1>4, Zenon DEF EnsureExtension, EnsureVersionTable
  <2>2. \E o : MakeObject(p, o, FALSE) \/ UNCHANGED <<tables, made, readable>>
    BY <1>4, Zenon DEF EnsureExtension, EnsureVersionTable, Ensured
  <2>3. p \in Running /\ UNCHANGED <<recorded, defaults, command, shared>>
    BY <1>4 DEF EnsureExtension, EnsureVersionTable
  <2> QED
    BY <1>1, <1>2, <2>1, <2>2, <2>3
<1>5. ASSUME NEW v \in 0 .. Last, Make(p, v)
      PROVE  Own
  <2>1. Advance(p) /\ p \in Running /\ UNCHANGED <<recorded, defaults, command, shared>>
    BY <1>5 DEF Make, AtStatement
  <2>2. \E o : \E open \in BOOLEAN :
          MakeObject(p, o, open) \/ UNCHANGED <<tables, made, readable>>
    <3>1. InTransaction(v, at[p]) \in BOOLEAN
      BY DEF InTransaction
    <3> QED
      BY <1>5, <3>1, Zenon DEF Make
  <2> QED
    BY <1>1, <1>2, <2>1, <2>2
<1>6. ASSUME NEW v \in 0 .. Last,
             BeginTransaction(p, v) \/ CommitTransaction(p, v) \/ Record(p, v)
      PROVE  Own
  <2>1. \E w : Goto(p, w) \/ Advance(p)
    BY <1>6, Zenon DEF BeginTransaction, CommitTransaction, Record
  <2>2. p \in Running /\ UNCHANGED <<readable, defaults, command, shared>>
    BY <1>6 DEF BeginTransaction, CommitTransaction, Record, AtStatement
  <2>3. /\ tables \subseteq tables' /\ recorded \subseteq recorded'
        /\ \A q \in Op \ {p} : made'[q] = made[q]
    BY <1>6 DEF BeginTransaction, CommitTransaction, Record, SetupTypeOK
  <2> QED
    BY <1>1, <2>1, <2>2, <2>3
<1>7. ASSUME NEW why, EndRun(p, why), p \in Running
      PROVE  Own
  <2>1. Goto(p, why)
    BY <1>7 DEF EndRun
  <2>2. UNCHANGED <<tables, recorded, readable, defaults, command, shared>>
    BY <1>7 DEF EndRun
  <2>3. \A q \in Op \ {p} : made'[q] = made[q]
    BY <1>7 DEF EndRun, SetupTypeOK
  <2> QED
    BY <1>1, <1>7, <2>1, <2>2, <2>3
<1>8. ASSUME NEW v \in 0 .. Last, Clash(p, v)
      PROVE  Own
  BY <1>7, <1>8 DEF Clash, AtStatement
<1>9. ASSUME Grant(p)
      PROVE  Own
  <2>1. \E w : Goto(p, w) \/ Advance(p)
    BY <1>9, Zenon DEF Grant
  <2>2. /\ p \in Running /\ UNCHANGED <<tables, recorded, command, shared, made>>
        /\ readable \subseteq readable' /\ (defaults => defaults')
    BY <1>9 DEF Grant
  <2> QED
    BY <1>1, <2>1, <2>2
<1> HIDE DEF Own
<1>10. ASSUME Apply(p)
       PROVE  Own
  BY <1>5, <1>6, <1>8, <1>10 DEF Apply
<1> QED
  BY <1>3, <1>4, <1>7, <1>9, <1>10 DEF Continue, Die

\* A run comes to its end only past the steps its command names.
LEMMA EndsDone ==
  ASSUME WorkInv, NEW p \in Op, Continue(p) \/ Die(p)
  PROVE  \A q \in Op : CommandFits(q)' /\ DoneOf(q)'
<1>1. /\ SetupTypeOK /\ CommandFits(p) /\ DoneOf(p) /\ ProgressOf(p)
  BY DEF WorkInv, SetupInv, Progress
<1>2. /\ UNCHANGED <<command, shared>>
      /\ recorded \subseteq recorded' /\ (defaults => defaults')
      /\ \A q \in Op \ {p} : pc'[q] = pc[q]
  BY <1>1, StepIsOwn
<1>3. ASSUME NEW q \in Op \ {p}
      PROVE  CommandFits(q)' /\ DoneOf(q)'
  BY <1>2 DEF WorkInv, CommandFits, DoneOf
<1>4. ASSUME NEW w, Goto(p, w)
      PROVE  pc'[p] = w
  BY <1>1, <1>4 DEF Goto, SetupTypeOK
<1>5. command'[p] \in {"init", "init --no-migrate", "migrate"}
  BY <1>1, <1>2 DEF SetupTypeOK
<1>6. ASSUME CreateDatabase(p) \/ CreateRole(p)
      PROVE  CommandFits(p)' /\ DoneOf(p)'
  <2>1. pc[p] \in {"database", "roles"}
    BY <1>6 DEF CreateDatabase, CreateRole
  <2>2. pc'[p] \in {"roles", "extension"}
    BY <1>4, <1>6, <2>1 DEF CreateDatabase, CreateRole
  <2> QED
    BY <1>1, <1>2, <2>1, <2>2 DEF CommandFits, DoneOf
<1>7. ASSUME EnsureExtension(p)
      PROVE  CommandFits(p)' /\ DoneOf(p)'
  <2>1. pc[p] = "extension" /\ pc'[p] = IF command[p] = "init" THEN "version_table" ELSE "grants"
    BY <1>4, <1>7 DEF EnsureExtension
  <2> QED
    BY <1>1, <1>2, <2>1 DEF CommandFits, DoneOf
<1>8. ASSUME EnsureVersionTable(p)
      PROVE  CommandFits(p)' /\ DoneOf(p)'
  <2>1. pc[p] = "version_table" /\ pc'[p] = "pending"
    BY <1>4, <1>8 DEF EnsureVersionTable
  <2> QED
    BY <1>1, <1>2, <2>1 DEF CommandFits, DoneOf
<1>9. ASSUME FindPending(p)
      PROVE  CommandFits(p)' /\ DoneOf(p)'
  <2>1. pc[p] = "pending" /\ UNCHANGED recorded
    BY <1>9 DEF FindPending, server
  <2>2. pc'[p] = IF Pending(p) = {} THEN AfterMigrations(p) ELSE "apply"
    BY <1>4, <1>9 DEF FindPending
  <2>3. Pending(p) = {} => 0 .. Carries[p] \subseteq recorded'
    BY <2>1 DEF Pending
  <2> QED
    BY <1>1, <1>2, <1>5, <2>1, <2>2, <2>3 DEF CommandFits, DoneOf, AfterMigrations
<1>10. ASSUME NEW v \in 0 .. Last, Record(p, v)
       PROVE  CommandFits(p)' /\ DoneOf(p)'
  <2>1. pc[p] = "apply" /\ recorded' = recorded \cup {v}
    BY <1>10 DEF Record
  <2>2. pc'[p] = IF todo[p] = {v} THEN AfterMigrations(p) ELSE "apply"
    BY <1>4, <1>10 DEF Record
  <2>3. todo[p] = {v} => 0 .. Carries[p] \subseteq recorded'
    BY <1>1, <2>1 DEF ProgressOf
  <2> QED
    BY <1>1, <1>2, <1>5, <2>1, <2>2, <2>3 DEF CommandFits, DoneOf, AfterMigrations
<1>11. ASSUME pc[p] = "apply", Advance(p)
       PROVE  CommandFits(p)' /\ DoneOf(p)'
  <2>1. pc'[p] = "apply"
    BY <1>11 DEF Advance
  <2> QED
    BY <1>1, <1>2, <1>11, <2>1 DEF CommandFits, DoneOf
<1>12. ASSUME NEW why \in {"clash", "idle"}, EndRun(p, why)
       PROVE  CommandFits(p)' /\ DoneOf(p)'
  <2>1. pc'[p] \in {"clash", "idle"}
    BY <1>4, <1>12 DEF EndRun
  <2> QED
    BY <2>1 DEF CommandFits, DoneOf
<1>13. ASSUME Apply(p)
       PROVE  CommandFits(p)' /\ DoneOf(p)'
  <2>1. ASSUME NEW v \in 0 .. Last,
               BeginTransaction(p, v) \/ CommitTransaction(p, v) \/ Make(p, v)
        PROVE  pc[p] = "apply" /\ Advance(p)
    BY <2>1 DEF BeginTransaction, CommitTransaction, Make, AtStatement
  <2>2. ASSUME NEW v \in 0 .. Last, Clash(p, v)
        PROVE  EndRun(p, "clash")
    BY <2>2 DEF Clash
  <2> QED
    BY <1>10, <1>11, <1>12, <1>13, <2>1, <2>2 DEF Apply
<1>14. ASSUME Grant(p)
       PROVE  CommandFits(p)' /\ DoneOf(p)'
  <2>1. pc[p] = "grants" /\ UNCHANGED recorded
    BY <1>14 DEF Grant
  <2>2. \/ Advance(p)
        \/ Goto(p, "ok") /\ defaults'
    BY <1>14 DEF Grant
  <2>3. \/ pc'[p] = "grants"
        \/ pc'[p] = "ok" /\ defaults'
    BY <1>4, <2>1, <2>2 DEF Advance
  <2> QED
    BY <1>1, <1>2, <1>5, <2>1, <2>3 DEF CommandFits, DoneOf
<1>15. CommandFits(p)' /\ DoneOf(p)'
  BY <1>6, <1>7, <1>8, <1>9, <1>12, <1>13, <1>14 DEF Continue, Die
<1> QED
  BY <1>3, <1>15

\* What a statement makes can be read once the default privileges are given.
LEMMA MadeIsReadable ==
  ASSUME SetupTypeOK, NEW p \in Op, NEW o, NEW open \in BOOLEAN,
         MakeObject(p, o, open) \/ UNCHANGED <<tables, made, readable>>,
         defaults, tables \subseteq readable, \A q \in Op : made[q] \subseteq readable
  PROVE  tables' \subseteq readable' /\ \A q \in Op : made'[q] \subseteq readable'
<1>1. CASE MakeObject(p, o, open)
  <2>1. readable' = readable \cup {o}
    BY <1>1 DEF MakeObject
  <2>2. \/ made' = [made EXCEPT ![p] = @ \cup {o}] /\ tables' = tables
        \/ tables' = tables \cup {o} /\ made' = made
    BY <1>1, Zenon DEF MakeObject
  <2>3. made \in [Op -> SUBSET Object]
    BY DEF SetupTypeOK
  <2> QED
    BY <2>1, <2>2, <2>3
<1>2. CASE UNCHANGED <<tables, made, readable>>
  BY <1>2
<1> QED
  BY <1>1, <1>2

\* Every step of a run but the grants' own leaves what is granted granted.
LEMMA GrantsStay ==
  ASSUME WorkInv, NEW p \in Op, Continue(p) \/ Die(p), ~Grant(p)
  PROVE  AllGranted'
<1> DEFINE Readable == tables \subseteq readable /\ \A q \in Op : made[q] \subseteq readable
<1>1. SetupTypeOK /\ AllGranted
  BY DEF WorkInv, SetupInv
<1>2. UNCHANGED granted /\ UNCHANGED defaults
  <2>1. ASSUME NEW v \in 0 .. Last,
               \/ BeginTransaction(p, v) \/ CommitTransaction(p, v)
               \/ Make(p, v) \/ Clash(p, v) \/ Record(p, v)
        PROVE  UNCHANGED granted /\ UNCHANGED defaults
    BY <2>1 DEF BeginTransaction, CommitTransaction, Make, Clash, Record, EndRun, server
  <2>2. Apply(p) => UNCHANGED granted /\ UNCHANGED defaults
    BY <2>1 DEF Apply
  <2>3. CreateDatabase(p) \/ CreateRole(p) \/ EnsureExtension(p) \/ EnsureVersionTable(p)
          \/ FindPending(p) \/ Die(p) => UNCHANGED granted /\ UNCHANGED defaults
    BY DEF CreateDatabase, CreateRole, EnsureExtension, EnsureVersionTable, FindPending,
           Die, EndRun, server
  <2> QED
    BY <2>2, <2>3 DEF Continue
<1> SUFFICES ASSUME granted
             PROVE  Readable'
  BY <1>1, <1>2 DEF AllGranted
<1>3. defaults /\ Readable
  BY <1>1 DEF AllGranted
<1>4. ASSUME UNCHANGED <<tables, readable>>, UNCHANGED made \/ made' = [made EXCEPT ![p] = {}]
      PROVE  Readable'
  BY <1>1, <1>3, <1>4 DEF SetupTypeOK
<1>5. CASE CreateDatabase(p) \/ CreateRole(p) \/ FindPending(p)
  <2>1. UNCHANGED <<tables, readable>> /\ UNCHANGED made
    BY <1>5 DEF CreateDatabase, CreateRole, FindPending, server
  <2> QED
    BY <1>4, <2>1
<1>6. CASE EnsureExtension(p) \/ EnsureVersionTable(p)
  <2>1. \E o : MakeObject(p, o, FALSE) \/ UNCHANGED <<tables, made, readable>>
    BY <1>6, Zenon DEF EnsureExtension, EnsureVersionTable, Ensured
  <2> QED
    BY <1>1, <1>3, <2>1, MadeIsReadable
<1>7. ASSUME NEW v \in 0 .. Last, Make(p, v)
      PROVE  Readable'
  <2>1. \E o : \E open \in BOOLEAN :
          MakeObject(p, o, open) \/ UNCHANGED <<tables, made, readable>>
    <3>1. InTransaction(v, at[p]) \in BOOLEAN
      BY DEF InTransaction
    <3> QED
      BY <1>7, <3>1, Zenon DEF Make
  <2> QED
    BY <1>1, <1>3, <2>1, MadeIsReadable
<1>8. ASSUME NEW v \in 0 .. Last, CommitTransaction(p, v)
      PROVE  Readable'
  <2>1. /\ tables' = tables \cup made[p] /\ made' = [made EXCEPT ![p] = {}]
        /\ UNCHANGED readable
    BY <1>8 DEF CommitTransaction
  <2> QED
    BY <1>1, <1>3, <2>1 DEF SetupTypeOK
<1>9. ASSUME NEW v \in 0 .. Last, BeginTransaction(p, v) \/ Clash(p, v) \/ Record(p, v)
      PROVE  Readable'
  <2>1. /\ UNCHANGED <<tables, readable>>
        /\ UNCHANGED made \/ made' = [made EXCEPT ![p] = {}]
    BY <1>9 DEF BeginTransaction, Clash, Record, EndRun, server
  <2> QED
    BY <1>4, <2>1
<1>10. CASE Die(p)
  <2>1. UNCHANGED <<tables, readable>> /\ made' = [made EXCEPT ![p] = {}]
    BY <1>10 DEF Die, EndRun, server
  <2> QED
    BY <1>4, <2>1
<1> HIDE DEF Readable
<1>11. CASE Apply(p)
  BY <1>7, <1>8, <1>9, <1>11 DEF Apply
<1> QED
  BY <1>5, <1>6, <1>10, <1>11 DEF Continue

\* An init without company that grants on what there is, and then by default,
\* has granted on all there is: nobody had anything open meanwhile.
LEMMA GrantGrants ==
  ASSUME WorkInv, NEW p \in Op, Grant(p)
  PROVE  AllGranted'
<1>1. /\ SetupTypeOK /\ Progress /\ Alone /\ HalfGranted /\ AllGranted
  BY DEF WorkInv, SetupInv
<1>2. pc[p] = "grants" /\ p \in Running /\ UNCHANGED <<tables, made>>
  BY DEF Grant, Running, Step
<1>3. CASE at[p] = 0
  <2>1. readable' = readable \cup tables /\ UNCHANGED <<defaults, granted>>
    BY <1>3 DEF Grant
  <2> QED
    BY <1>1, <1>2, <2>1 DEF AllGranted
<1>4. CASE at[p] # 0
  <2>1. defaults' /\ (granted' <=> granted \/ p \notin shared) /\ UNCHANGED readable
    BY <1>4 DEF Grant
  <2>2. CASE granted
    BY <1>1, <1>2, <2>1, <2>2 DEF AllGranted
  <2>3. CASE p \notin shared
    <3>1. tables \subseteq readable
      BY <1>1, <1>2, <1>4, <2>3 DEF HalfGranted
    <3>2. ASSUME NEW q \in Op
          PROVE  made[q] = {}
      <4>1. Running = {p}
        BY <1>1, <1>2, <2>3 DEF Alone
      <4>2. pc[q] # "apply"
        BY <1>2, <4>1 DEF Running, Step
      <4> QED
        BY <1>1, <4>2 DEF Progress, ProgressOf
    <3> QED
      BY <1>2, <2>1, <3>1, <3>2 DEF AllGranted
  <2>4. CASE ~granted /\ p \in shared
    BY <2>1, <2>4 DEF AllGranted
  <2> QED
    BY <2>2, <2>3, <2>4
<1> QED
  BY <1>3, <1>4

\* No step within a run gives another one company.
LEMMA StepsKeepAlone ==
  ASSUME WorkInv, NEW p \in Op, Continue(p) \/ Die(p)
  PROVE  Alone' /\ HalfGranted'
<1>1. SetupTypeOK /\ Alone /\ HalfGranted
  BY DEF WorkInv, SetupInv
<1>2. /\ p \in Running /\ shared' = shared /\ readable \subseteq readable'
      /\ \A q \in Op \ {p} : pc'[q] = pc[q] /\ at'[q] = at[q]
  BY <1>1, StepIsOwn
<1>3. Running' \subseteq Running
  BY <1>2 DEF Running
<1>4. Alone'
  <2> SUFFICES ASSUME NEW q \in Running' \ shared'
               PROVE  Running' = {q}
    BY DEF Alone
  <2>1. Running = {q}
    BY <1>1, <1>2, <1>3 DEF Alone
  <2> QED
    BY <1>3, <2>1
<1>5. ASSUME NEW q \in Op \ shared', pc'[q] = "grants", at'[q] # 0
      PROVE  tables' \subseteq readable'
  <2>1. CASE q # p
    <3>1. q \in Running \ shared
      BY <1>2, <1>5, <2>1 DEF Running, Step
    <3> QED
      BY <1>1, <1>2, <2>1, <3>1 DEF Alone
  <2>2. CASE q = p /\ Grant(p)
    <3>1. at[p] # 0 => at'[p] = 0
      BY <1>1, <2>2 DEF Grant, Goto, SetupTypeOK
    <3>2. at[p] = 0 /\ tables' = tables /\ readable' = readable \cup tables
      BY <1>5, <2>2, <3>1 DEF Grant
    <3> QED
      BY <3>2
  <2>3. CASE q = p /\ ~Grant(p)
    <3>1. pc[p] # "grants"
      <4>1. Die(p) => pc'[p] = "idle"
        BY <1>1 DEF Die, EndRun, Goto, SetupTypeOK
      <4>2. Apply(p) => pc[p] = "apply"
        BY DEF Apply, BeginTransaction, CommitTransaction, Make, Clash, Record, AtStatement
      <4> QED
        BY <1>5, <2>3, <4>1, <4>2 DEF Continue, CreateDatabase, CreateRole, EnsureExtension,
           EnsureVersionTable, FindPending
    <3>2. (\E w : Goto(p, w)) \/ pc' = pc
      <4>1. ASSUME NEW v \in 0 .. Last,
                   \/ BeginTransaction(p, v) \/ CommitTransaction(p, v)
                   \/ Make(p, v) \/ Clash(p, v) \/ Record(p, v)
            PROVE  (\E w : Goto(p, w)) \/ pc' = pc
        BY <4>1, Zenon DEF BeginTransaction, CommitTransaction, Make, Clash, Record, EndRun,
           Advance
      <4>2. Apply(p) => (\E w : Goto(p, w)) \/ pc' = pc
        BY <4>1 DEF Apply
      <4>3. CreateDatabase(p) \/ CreateRole(p) \/ EnsureExtension(p) \/ EnsureVersionTable(p)
              \/ FindPending(p) \/ Die(p) => (\E w : Goto(p, w)) \/ pc' = pc
        BY Zenon DEF CreateDatabase, CreateRole, EnsureExtension, EnsureVersionTable,
           FindPending, Die, EndRun
      <4> QED
        BY <2>3, <4>2, <4>3 DEF Continue
    <3>3. at'[p] = 0
      BY <1>1, <1>5, <2>3, <3>1, <3>2 DEF Goto, SetupTypeOK
    <3> QED
      BY <1>5, <2>3, <3>3
  <2> QED
    BY <2>1, <2>2, <2>3
<1> QED
  BY <1>4, <1>5 DEF HalfGranted

\* A run that starts is counted as company of those that are going.
LEMMA StartKeeps ==
  ASSUME WorkInv, NEW p \in Op, NEW c \in {"init", "init --no-migrate", "migrate"}, Start(p, c)
  PROVE  /\ \A q \in Op : CommandFits(q)' /\ DoneOf(q)'
         /\ Alone' /\ HalfGranted' /\ AllGranted'
<1>1. /\ SetupTypeOK /\ Alone /\ HalfGranted /\ AllGranted
      /\ \A q \in Op : CommandFits(q) /\ DoneOf(q)
  BY DEF WorkInv, SetupInv
<1>2. /\ p \notin Running /\ UNCHANGED <<tables, readable, defaults, recorded, made, granted>>
      /\ shared' = IF Running = {} THEN shared \ {p} ELSE shared \cup Running \cup {p}
      /\ command' = [command EXCEPT ![p] = c]
  BY DEF Start, server
<1>3. PICK w \in {"idle", "version_table", "database"} :
        /\ Goto(p, w)
        /\ w = "version_table" => c = "migrate"
        /\ w = "database" => c # "migrate"
  BY DEF Start
<1>4. /\ pc'[p] = w /\ at'[p] = 0 /\ command'[p] = c
      /\ \A q \in Op \ {p} : pc'[q] = pc[q] /\ at'[q] = at[q] /\ command'[q] = command[q]
  BY <1>1, <1>2, <1>3 DEF Goto, SetupTypeOK
<1>5. CommandFits(p)' /\ DoneOf(p)'
  BY <1>3, <1>4 DEF CommandFits, DoneOf
<1>6. ASSUME NEW q \in Op \ {p}
      PROVE  CommandFits(q)' /\ DoneOf(q)'
  BY <1>1, <1>2, <1>4 DEF CommandFits, DoneOf
<1>7. AllGranted'
  BY <1>1, <1>2 DEF AllGranted
<1>8. Running' \subseteq Running \cup {p}
  BY <1>4 DEF Running
<1>9. Alone'
  <2> SUFFICES ASSUME NEW q \in Running' \ shared'
               PROVE  Running' = {q}
    BY DEF Alone
  <2>1. Running = {}
    BY <1>2, <1>8
  <2> QED
    BY <1>8, <2>1
<1>10. ASSUME NEW q \in Op \ shared', pc'[q] = "grants", at'[q] # 0
       PROVE  tables' \subseteq readable'
  <2>1. q # p /\ pc[q] = "grants"
    BY <1>3, <1>4, <1>10
  <2>2. q \in Running
    BY <2>1 DEF Running, Step
  <2> QED
    BY <1>2, <1>10, <2>2
<1> QED
  BY <1>5, <1>6, <1>7, <1>9, <1>10 DEF HalfGranted

\* No step breaks the invariant of what has been done.
LEMMA NextKeepsWork == WorkInv /\ [SetupNext]_setupVars => WorkInv'
<1> SUFFICES ASSUME WorkInv, [SetupNext]_setupVars
             PROVE  WorkInv'
  OBVIOUS
<1>1. SetupInv'
  BY NextKeeps DEF WorkInv
<1>2. ASSUME NEW p \in Op, Continue(p) \/ Die(p)
      PROVE  WorkInv'
  <2>1. AllGranted'
    BY <1>2, GrantsStay, GrantGrants
  <2> QED
    BY <1>1, <1>2, <2>1, EndsDone, StepsKeepAlone DEF WorkInv
<1>3. ASSUME NEW p \in Op, NEW c \in {"init", "init --no-migrate", "migrate"}, Start(p, c)
      PROVE  WorkInv'
  BY <1>1, <1>3, StartKeeps DEF WorkInv
<1>4. CASE Install \/ UNCHANGED setupVars
  <2>1. UNCHANGED <<tables, readable, defaults, recorded, pc, command, at, made, shared,
                    granted>>
    BY <1>4 DEF Install, setupVars, server, run
  <2>2. \A p \in Op : CommandFits(p)' /\ DoneOf(p)'
    BY <2>1 DEF WorkInv, CommandFits, DoneOf
  <2>3. Alone' /\ HalfGranted' /\ AllGranted'
    <3>1. Running' = Running
      BY <2>1 DEF Running
    <3> QED
      BY <2>1, <3>1 DEF WorkInv, Alone, HalfGranted, AllGranted
  <2> QED
    BY <1>1, <2>2, <2>3 DEF WorkInv
<1> QED
  BY <1>2, <1>3, <1>4 DEF SetupNext

\* Nobody has run anything at first.
LEMMA InitWork == SetupInit => WorkInv
<1> SUFFICES ASSUME SetupInit
             PROVE  WorkInv
  OBVIOUS
<1>1. SetupInv
  BY InitHolds
<1>2. \A p \in Op : CommandFits(p) /\ DoneOf(p)
  BY DEF SetupInit, CommandFits, DoneOf
<1>3. Running = {}
  BY DEF SetupInit, Running, Step
<1>4. Alone /\ HalfGranted /\ AllGranted
  BY <1>3 DEF SetupInit, Alone, HalfGranted, AllGranted
<1> QED
  BY <1>1, <1>2, <1>4 DEF WorkInv

\* A run that said it ended well has left its whole build applied, and an init
\* the default grants; and once an init ended well with no other run beside it,
\* both halves can read every table that comes to be (initialise, migrate).
THEOREM DoneIsDone == SetupSpec => []WorkIsDone
<1>1. WorkInv => WorkIsDone
  <2> SUFFICES ASSUME WorkInv
               PROVE  WorkIsDone
    OBVIOUS
  <2>1. OkMeansDone
    BY DEF WorkInv, DoneOf, OkMeansDone
  <2>2. GrantsLast
    BY DEF WorkInv, AllGranted, GrantsLast
  <2> QED
    BY <2>1, <2>2 DEF WorkInv, SetupInv, WorkIsDone
<1> QED
  BY <1>1, InitWork, NextKeepsWork, PTL DEF SetupSpec

-----------------------------------------------------------------------------
(* The read path. *)

\* A bounded set of naturals that has an element has a largest one.
LEMMA Highest ==
  ASSUME NEW H \in Nat, NEW S \in SUBSET (0 .. H), S # {}
  PROVE  \E m \in S : \A n \in S : n <= m
<1> DEFINE R == OpToRel(<, Nat)
           T == {H - n : n \in S}
<1>1. IsWellFoundedOn(R, Nat)
  BY NatLessThanWellFounded
<1>2. \A x, y \in Nat : <<y, x>> \in R <=> y < x
  BY DEF OpToRel
<1>3. T \subseteq Nat /\ T # {}
  <2>1. \A n \in S : H - n \in Nat
    OBVIOUS
  <2> QED
    BY <2>1
<1> HIDE DEF R
<1>4. PICK t \in T : \A u \in T : ~ (<<u, t>> \in R)
  BY <1>1, <1>3, WFMin
<1>5. PICK m \in S : t = H - m
  OBVIOUS
<1>6. ASSUME NEW n \in S PROVE n <= m
  <2>1. H - n \in T /\ H - n \in Nat /\ t \in Nat
    BY <1>3
  <2>2. ~ (H - n < t)
    BY <1>2, <1>4, <2>1
  <2> QED
    BY <1>5, <2>1, <2>2
<1> QED
  BY <1>6

\* The newest of a set of instants or indices is one of them, or 0.
LEMMA NewestIs ==
  ASSUME NEW H \in Nat, NEW S \in SUBSET (1 .. H)
  PROVE  /\ Newest(S) \in S \cup {0} /\ Newest(S) \in 0 .. H
         /\ \A s \in S : s <= Newest(S)
         /\ Newest(S) = 0 <=> S = {}
<1> DEFINE T == S \cup {0}
<1>1. T \in SUBSET (0 .. H) /\ T # {}
  OBVIOUS
<1>2. \E m \in T : \A n \in T : n <= m
  BY <1>1, Highest
<1>3. \E m \in T : \A n \in T : m >= n
  BY <1>1, <1>2
<1>4. Max(T) \in T /\ \A n \in T : Max(T) >= n
  BY <1>3 DEF Max
<1>5. Newest(S) = Max(T)
  BY DEF Newest
<1>6. \A s \in S : s \in 1 .. H
  OBVIOUS
<1>7. Newest(S) \in S \cup {0} /\ \A s \in S : Newest(S) >= s
  BY <1>4, <1>5
<1>8. Newest(S) \in 0 .. H
  <2>1. 0 \in 0 .. H /\ \A s \in S : s \in 0 .. H
    BY <1>6
  <2> QED
    BY <1>7, <2>1
<1> QED
  BY <1>6, <1>7, <1>8

\* Adding nothing newer than the newest changes nothing, adding something newer does.
LEMMA NewestGrows ==
  ASSUME NEW H \in Nat, NEW S \in SUBSET (1 .. H), NEW x \in 1 .. H, \A s \in S : s < x
  PROVE  Newest(S \cup {x}) = x /\ Newest(S) < x
<1>1. S \cup {x} \in SUBSET (1 .. H)
  OBVIOUS
<1>2. /\ Newest(S \cup {x}) \in S \cup {x, 0}
      /\ \A s \in S \cup {x} : s <= Newest(S \cup {x})
      /\ Newest(S \cup {x}) \in 0 .. H
  BY <1>1, NewestIs
<1>3. x <= Newest(S \cup {x})
  BY <1>2
<1>4. Newest(S \cup {x}) = x
  BY <1>2, <1>3
<1>5. Newest(S) \in S \cup {0}
  BY NewestIs
<1>6. x > 0 /\ \A s \in S : s < x
  OBVIOUS
<1> QED
  BY <1>4, <1>5, <1>6

-----------------------------------------------------------------------------
(* The inductive invariant.                                                *)

Request == [open : {TRUE}, read : BOOLEAN, first : SUBSET Content, until : 1 .. Horizon,
            seen : 0 .. Horizon, tag : [snapshot : 0 .. Horizon, mark : 0 .. Horizon],
            immutable : BOOLEAN, snapshot : 0 .. Horizon]

\* A request is absent, or open and of its type, and what is kept for ever is of
\* an instant; neither has seen a sweep that is not there.
RequestOK ==
  /\ request \in {NoRequest} \cup Request
  /\ request.open => /\ request.immutable => url.at # Live
                     /\ request.seen <= Len(snapshots)
  /\ cache.stored => /\ cache.immutable => url.at # Live
                     /\ cache.seen <= Len(snapshots)

\* Sweeps and dumps are stamped one after the other, the next one later than all
\* that are in, and no stamp is of the future.
StampsOrdered ==
  /\ \A i \in DOMAIN snapshots : i <= snapshots[i].at /\ snapshots[i].at <= now
  /\ phase # "idle" => obs.at \in 1 .. now
  /\ phase = "topology" => \A i \in DOMAIN snapshots : snapshots[i].at < obs.at
  /\ phase = "errors" => \A i \in DOMAIN snapshots : snapshots[i].at <= obs.at
  /\ \A t \in trafficRows : t <= now
  /\ dump # 0 => dump <= now /\ \A t \in trafficRows : t < dump

\* Of the map: what was read under a sweep is what is there, unless a newer one
\* is in.
MapKept ==
  url.kind = "map" =>
    /\ request.open =>
         /\ request.tag.snapshot <= Resolved(url.at)
         /\ request.read /\ request.tag.snapshot = Resolved(url.at)
              => request.first = StateRows(url.at)
    /\ cache.stored =>
         /\ cache.tag.snapshot <= Resolved(url.at)
         /\ cache.tag.snapshot = Resolved(url.at) => UpToDate

\* Of rates at an instant: likewise, by the newest dump up to it.
RatesKept ==
  url.kind = "traffic" /\ url.at # Live =>
    /\ request.open =>
         /\ request.tag.mark <= Mark(url.at) /\ request.until = url.at
         /\ request.read => request.first = {}
    /\ cache.stored =>
         /\ cache.tag.mark <= Mark(url.at)
         /\ cache.tag.mark = Mark(url.at) => UpToDate

\* One of the first n sweeps was collected after the instant asked for.
SettledBy(n) == \E i \in 1 .. n : snapshots[i].at > url.at

\* Of maps and cards at an instant: what was read when the instant had settled
\* is what is there.
SettledKept ==
  url.kind \in {"map", "card"} /\ url.at # Live =>
    /\ request.open /\ request.read /\ SettledBy(request.seen)
         => request.first = StateRows(url.at)
    /\ cache.stored /\ SettledBy(cache.seen) => UpToDate

\* The inductive invariant.
IInv == TypeOK /\ RequestOK /\ StampsOrdered /\ MapKept /\ RatesKept /\ SettledKept

-----------------------------------------------------------------------------
(* What a resolution reads.                                                *)

\* The complete sweeps up to an instant, and those a live request has in force.
CompleteUpTo(t) == {i \in DOMAIN snapshots : snapshots[i].complete /\ snapshots[i].at <= t}

\* The stamps of sweeps, used one by one.
LEMMA StampsAre ==
  ASSUME TypeOK, StampsOrdered
  PROVE  /\ DOMAIN snapshots = 1 .. Len(snapshots) /\ Len(snapshots) \in 0 .. Horizon
         /\ \A i \in DOMAIN snapshots : /\ snapshots[i].at \in 1 .. now
                                        /\ snapshots[i].content \in Content
                                        /\ snapshots[i].complete \in BOOLEAN
         /\ now \in 1 .. Horizon /\ Horizon \in Nat
<1>1. now \in 1 .. Horizon /\ Horizon \in Nat
  BY ReadPathAssumption DEF TypeOK
<1>2. DOMAIN snapshots = 1 .. Len(snapshots) /\ Len(snapshots) \in Nat
  BY DEF TypeOK
<1>3. \A i \in DOMAIN snapshots : snapshots[i] \in Observation
  BY DEF TypeOK
<1>4. \A i \in DOMAIN snapshots : /\ snapshots[i].at \in 1 .. now
                                  /\ snapshots[i].content \in Content
                                  /\ snapshots[i].complete \in BOOLEAN
  BY <1>1, <1>2, <1>3 DEF StampsOrdered, Observation
<1>5. Len(snapshots) \in 0 .. Horizon
  <2>1. CASE Len(snapshots) = 0
    BY <1>1, <2>1
  <2>2. CASE Len(snapshots) # 0
    <3>1. Len(snapshots) \in DOMAIN snapshots
      BY <1>2, <2>2
    <3>2. Len(snapshots) <= snapshots[Len(snapshots)].at
      BY <3>1 DEF StampsOrdered
    <3> QED
      BY <1>1, <1>2, <1>4, <3>1, <3>2
  <2> QED
    BY <2>1, <2>2
<1> QED
  BY <1>1, <1>2, <1>4, <1>5

\* An instant asked for is one of the horizon's.
LEMMA UrlIs ==
  ASSUME TypeOK
  PROVE  /\ url.kind \in Kind /\ url.at \in {Live} \cup 1 .. Horizon
         /\ Requested(url.at) \in 1 .. Horizon
         /\ url.at # Live => url.at \in 1 .. Horizon /\ Requested(url.at) = url.at
  BY ReadPathAssumption DEF TypeOK, Resource, Requested

\* A request resolves to the sweep its rows are read from, live or not.
LEMMA ResolvedIs ==
  ASSUME TypeOK, StampsOrdered
  PROVE  /\ Resolved(url.at) = Newest(CompleteUpTo(Requested(url.at)))
         /\ StateSweep(url.at) = Resolved(url.at)
         /\ CompleteUpTo(Requested(url.at)) \in SUBSET (1 .. Horizon)
         /\ Resolved(url.at) \in 0 .. Horizon
         /\ Resolved(url.at) # 0 => Resolved(url.at) \in DOMAIN snapshots
         /\ Resolved(url.at) <= Len(snapshots)
<1>1. Resolved(url.at) = Newest(CompleteUpTo(Requested(url.at)))
  BY DEF Resolved, CompleteUpTo
<1>2. CompleteUpTo(Requested(url.at)) \in SUBSET (1 .. Horizon)
  BY StampsAre DEF CompleteUpTo
<1>3. {i \in DOMAIN snapshots : snapshots[i].complete /\ (url.at = Live \/ snapshots[i].at <= url.at)}
        = CompleteUpTo(Requested(url.at))
  BY StampsAre DEF CompleteUpTo, Requested
<1>4. StateSweep(url.at) = Resolved(url.at)
  BY <1>1, <1>3 DEF StateSweep
<1>5. Horizon \in Nat
  BY StampsAre
<1>6. Resolved(url.at) \in 0 .. Horizon
      /\ Resolved(url.at) \in CompleteUpTo(Requested(url.at)) \cup {0}
  BY <1>1, <1>2, <1>5, NewestIs
<1>7. Resolved(url.at) # 0 => Resolved(url.at) \in DOMAIN snapshots
  BY <1>6 DEF CompleteUpTo
<1>8. Resolved(url.at) <= Len(snapshots)
  BY <1>6, <1>7, StampsAre
<1> QED
  BY <1>1, <1>2, <1>4, <1>6, <1>7, <1>8

\* The mark is an instant, or 0.
LEMMA MarkIs ==
  ASSUME TypeOK
  PROVE  Mark(url.at) \in 0 .. Horizon /\ Mark(url.at) \in Nat
<1>1. Horizon \in Nat /\ {t \in trafficRows : t <= Requested(url.at)} \in SUBSET (1 .. Horizon)
  BY ReadPathAssumption DEF TypeOK
<1>2. Newest({t \in trafficRows : t <= Requested(url.at)}) \in 0 .. Horizon
  BY <1>1, NewestIs
<1> QED
  BY <1>1, <1>2 DEF Mark

\* What the second part of an answer is, of each kind the theorems are about.
LEMMA SecondIs ==
  ASSUME NEW n, NEW u
  PROVE  /\ url.kind = "map" => SecondRead(url, n, u) = [state |-> StateRows(url.at)]
         /\ url.kind = "card" /\ url.at # Live
              => SecondRead(url, n, u) = [errors |-> ErrorsUpTo(url.at)]
         /\ url.kind = "traffic" => SecondRead(url, n, u) = [rate |-> RateOver(u)]
  BY DEF SecondRead, CardUntil

\* An answer is up to date when both its parts are.
LEMMA UpToDateIs ==
  /\ url.kind = "map" =>
       (UpToDate <=> /\ cache.first = StateRows(url.at)
                     /\ cache.second = [state |-> StateRows(url.at)])
  /\ url.kind = "card" /\ url.at # Live =>
       (UpToDate <=> /\ cache.first = StateRows(url.at)
                     /\ cache.second = [errors |-> ErrorsUpTo(url.at)])
  /\ url.kind = "traffic" /\ url.at # Live =>
       (UpToDate <=> cache.first = {} /\ cache.second = [rate |-> RateOver(url.at)])
  BY SecondIs DEF UpToDate, FirstRead, Requested

\* The same after a step.
LEMMA UpToDateWillBe ==
  ASSUME url' = url, cache' = cache
  PROVE  /\ url.kind = "map" =>
              (UpToDate' <=> /\ cache.first = StateRows(url.at)'
                             /\ cache.second = [state |-> StateRows(url.at)'])
         /\ url.kind = "card" /\ url.at # Live =>
              (UpToDate' <=> /\ cache.first = StateRows(url.at)'
                             /\ cache.second = [errors |-> ErrorsUpTo(url.at)'])
         /\ url.kind = "traffic" /\ url.at # Live =>
              (UpToDate' <=> cache.first = {} /\ cache.second = [rate |-> RateOver(url.at)'])
<1>1. (/\ url.kind = "map" =>
            (UpToDate <=> /\ cache.first = StateRows(url.at)
                          /\ cache.second = [state |-> StateRows(url.at)])
       /\ url.kind = "card" /\ url.at # Live =>
            (UpToDate <=> /\ cache.first = StateRows(url.at)
                          /\ cache.second = [errors |-> ErrorsUpTo(url.at)])
       /\ url.kind = "traffic" /\ url.at # Live =>
            (UpToDate <=> cache.first = {} /\ cache.second = [rate |-> RateOver(url.at)]))'
  BY UpToDateIs, PTL
<1> QED
  BY <1>1

\* The clock alone changes no answer.
LEMMA ClockKeeps ==
  ASSUME TypeOK, StampsOrdered, now' \in Nat, now <= now',
         UNCHANGED <<snapshots, errorRows, trafficRows, url>>
  PROVE  /\ Resolved(url.at)' = Resolved(url.at) /\ StateRows(url.at)' = StateRows(url.at)
         /\ ErrorsUpTo(url.at)' = ErrorsUpTo(url.at)
         /\ RateOver(url.at)' = RateOver(url.at)
         /\ url.at # Live => Mark(url.at)' = Mark(url.at)
         /\ \A n : SettledBy(n)' = SettledBy(n)
<1>1. {i \in DOMAIN snapshots : snapshots[i].complete /\ snapshots[i].at <= Requested(url.at)'}
       = {i \in DOMAIN snapshots : snapshots[i].complete /\ snapshots[i].at <= Requested(url.at)}
  BY StampsAre DEF Requested
<1>2. Resolved(url.at)' = Resolved(url.at)
  BY <1>1 DEF Resolved
<1>3. StateRows(url.at)' = StateRows(url.at)
  BY DEF StateRows, StateSweep
<1>4. ErrorsUpTo(url.at)' = ErrorsUpTo(url.at) /\ RateOver(url.at)' = RateOver(url.at)
  BY DEF ErrorsUpTo, RateOver
<1>5. url.at # Live => Mark(url.at)' = Mark(url.at)
  BY DEF Mark, Requested
<1>6. \A n : SettledBy(n)' = SettledBy(n)
  BY DEF SettledBy
<1> QED
  BY <1>2, <1>3, <1>4, <1>5, <1>6

\* The types of an open request and of a stored answer.
LEMMA Parts ==
  ASSUME TypeOK, RequestOK
  PROVE  /\ request.open => /\ request \in Request
                            /\ request.tag.snapshot \in Nat /\ request.tag.mark \in Nat
                            /\ request.seen \in 0 .. Len(snapshots)
         /\ cache.stored => /\ cache \in Entry
                            /\ cache.tag.snapshot \in Nat /\ cache.tag.mark \in Nat
                            /\ cache.seen \in 0 .. Len(snapshots)
<1> DEFINE Tags == [snapshot : 0 .. Horizon, mark : 0 .. Horizon]
<1>1. \A t \in Tags : t.snapshot \in Nat /\ t.mark \in Nat
  BY ReadPathAssumption
<1> HIDE DEF Tags
<1>2. ASSUME request.open
      PROVE  request \in Request /\ request.tag \in Tags /\ request.seen \in 0 .. Len(snapshots)
  <2>1. request # NoRequest
    BY <1>2 DEF NoRequest
  <2>2. request \in Request
    BY <2>1 DEF RequestOK
  <2>3. request.tag \in Tags /\ request.seen \in 0 .. Horizon
    BY <2>2 DEF Request, Tags
  <2>4. request.seen <= Len(snapshots) /\ Len(snapshots) \in Nat
    BY <1>2 DEF RequestOK, TypeOK
  <2> QED
    BY <2>2, <2>3, <2>4
<1>3. ASSUME cache.stored
      PROVE  cache \in Entry /\ cache.tag \in Tags /\ cache.seen \in 0 .. Len(snapshots)
  <2>1. cache # NoEntry
    BY <1>3 DEF NoEntry
  <2>2. cache \in Entry
    BY <2>1 DEF TypeOK
  <2>3. cache.tag \in Tags /\ cache.seen \in 0 .. Horizon
    BY <2>2 DEF Entry, Tags
  <2>4. cache.seen <= Len(snapshots) /\ Len(snapshots) \in Nat
    BY <1>3 DEF RequestOK, TypeOK
  <2> QED
    BY <2>2, <2>3, <2>4
<1> QED
  BY <1>1, <1>2, <1>3

-----------------------------------------------------------------------------
(* Steps of the clock and of the collector.                                *)

\* The parts of the invariant about what was read.
Kept == MapKept /\ RatesKept /\ SettledKept

\* A step that leaves the browser alone keeps what was read if each tag stays
\* with its answer or moves on.
LEMMA KeptIs ==
  ASSUME IInv, UNCHANGED <<url, cache, request>>,
         url.kind = "map" =>
           /\ Resolved(url.at) \in Nat /\ Resolved(url.at)' \in Nat
           /\ \/ Resolved(url.at)' > Resolved(url.at)
              \/ /\ Resolved(url.at)' = Resolved(url.at)
                 /\ StateRows(url.at)' = StateRows(url.at),
         url.kind = "traffic" /\ url.at # Live =>
           /\ Mark(url.at) \in Nat /\ Mark(url.at)' \in Nat
           /\ \/ Mark(url.at)' > Mark(url.at)
              \/ Mark(url.at)' = Mark(url.at) /\ RateOver(url.at)' = RateOver(url.at),
         url.kind \in {"map", "card"} /\ url.at # Live =>
           \A n \in 0 .. Len(snapshots) :
             SettledBy(n)' => /\ SettledBy(n)
                              /\ StateRows(url.at)' = StateRows(url.at)
                              /\ ErrorsUpTo(url.at)' = ErrorsUpTo(url.at)
  PROVE  Kept'
<1>1. /\ TypeOK /\ RequestOK /\ StampsOrdered /\ MapKept /\ RatesKept /\ SettledKept
  BY DEF IInv
<1>2. /\ request.open => /\ request.tag.snapshot \in Nat /\ request.tag.mark \in Nat
                         /\ request.seen \in 0 .. Len(snapshots)
      /\ cache.stored => /\ cache.tag.snapshot \in Nat /\ cache.tag.mark \in Nat
                         /\ cache.seen \in 0 .. Len(snapshots)
  BY <1>1, Parts
<1>3. MapKept'
  <2> SUFFICES ASSUME url.kind = "map" PROVE MapKept'
    BY DEF MapKept
  <2>1. (StateRows(url.at)' = StateRows(url.at)) => (UpToDate => UpToDate')
    <3>1. UpToDate <=> /\ cache.first = StateRows(url.at)
                       /\ cache.second = [state |-> StateRows(url.at)]
      BY UpToDateIs
    <3>2. UpToDate' <=> /\ cache.first = StateRows(url.at)'
                        /\ cache.second = [state |-> StateRows(url.at)']
      BY UpToDateWillBe
    <3> QED
      BY <3>1, <3>2
  <2> QED
    BY <1>1, <1>2, <2>1 DEF MapKept
<1>4. RatesKept'
  <2> SUFFICES ASSUME url.kind = "traffic", url.at # Live PROVE RatesKept'
    BY DEF RatesKept
  <2>1. (RateOver(url.at)' = RateOver(url.at)) => (UpToDate => UpToDate')
    <3>1. UpToDate <=> cache.first = {} /\ cache.second = [rate |-> RateOver(url.at)]
      BY UpToDateIs
    <3>2. UpToDate' <=> cache.first = {} /\ cache.second = [rate |-> RateOver(url.at)']
      BY UpToDateWillBe
    <3> QED
      BY <3>1, <3>2
  <2> QED
    BY <1>1, <1>2, <2>1 DEF RatesKept
<1>5. SettledKept'
  <2> SUFFICES ASSUME url.kind \in {"map", "card"}, url.at # Live PROVE SettledKept'
    BY DEF SettledKept
  <2>1. /\ StateRows(url.at)' = StateRows(url.at) /\ ErrorsUpTo(url.at)' = ErrorsUpTo(url.at)
        => (UpToDate => UpToDate')
    <3>1. /\ url.kind = "map" => (UpToDate <=> /\ cache.first = StateRows(url.at)
                                               /\ cache.second = [state |-> StateRows(url.at)])
          /\ url.kind = "card" =>
               (UpToDate <=> /\ cache.first = StateRows(url.at)
                             /\ cache.second = [errors |-> ErrorsUpTo(url.at)])
      BY UpToDateIs
    <3>2. /\ url.kind = "map" => (UpToDate' <=> /\ cache.first = StateRows(url.at)'
                                                /\ cache.second = [state |-> StateRows(url.at)'])
          /\ url.kind = "card" =>
               (UpToDate' <=> /\ cache.first = StateRows(url.at)'
                              /\ cache.second = [errors |-> ErrorsUpTo(url.at)'])
      BY UpToDateWillBe
    <3> QED
      BY <3>1, <3>2
  <2> QED
    BY <1>1, <1>2, <2>1 DEF SettledKept
<1> QED
  BY <1>3, <1>4, <1>5 DEF Kept

\* A step after which every answer would be the same keeps what was read.
LEMMA SameAnswers ==
  ASSUME IInv, now' \in Nat, now <= now',
         UNCHANGED <<snapshots, errorRows, trafficRows, url, cache, request>>
  PROVE  Kept'
<1>1. TypeOK /\ StampsOrdered
  BY DEF IInv
<1>2. /\ Resolved(url.at)' = Resolved(url.at) /\ StateRows(url.at)' = StateRows(url.at)
      /\ ErrorsUpTo(url.at)' = ErrorsUpTo(url.at)
      /\ RateOver(url.at)' = RateOver(url.at)
      /\ url.at # Live => Mark(url.at)' = Mark(url.at)
      /\ \A n : SettledBy(n)' = SettledBy(n)
  BY <1>1, ClockKeeps
<1>3. Resolved(url.at) \in Nat
  BY <1>1, ResolvedIs
<1>4. Mark(url.at) \in Nat
  BY <1>1, MarkIs
<1> QED
  BY <1>2, <1>3, <1>4, KeptIs

\* A sweep commits: the resolution moves to it, or what is in force stays, and no
\* instant settles that had not.
LEMMA TopologyMoves ==
  ASSUME IInv, CommitTopology
  PROVE  /\ UNCHANGED <<now, errorRows, trafficRows, url, cache, request>>
         /\ Resolved(url.at) \in Nat /\ Resolved(url.at)' \in Nat
         /\ \/ Resolved(url.at)' > Resolved(url.at)
            \/ Resolved(url.at)' = Resolved(url.at) /\ StateRows(url.at)' = StateRows(url.at)
         /\ \A i \in DOMAIN snapshots : i \in DOMAIN snapshots' /\ snapshots'[i] = snapshots[i]
         /\ url.at # Live => \A n \in 0 .. Len(snapshots) : SettledBy(n)' =>
              SettledBy(n) /\ StateRows(url.at)' = StateRows(url.at)
<1> DEFINE L == Len(snapshots)
           C == CompleteUpTo(Requested(url.at))
<1>1. TypeOK /\ StampsOrdered
  BY DEF IInv
<1>2. /\ UNCHANGED <<now, obs, errorRows, trafficRows, url, cache, request>>
      /\ phase = "topology" /\ snapshots' = Append(snapshots, obs)
  BY DEF CommitTopology, traffic, browser
<1>3. /\ L \in 0 .. Horizon /\ DOMAIN snapshots = 1 .. L /\ Horizon \in Nat /\ now \in 1 .. Horizon
      /\ \A i \in 1 .. L : snapshots[i].at \in 1 .. now
  BY <1>1, StampsAre
<1>4. /\ obs.at \in 1 .. now /\ (\A i \in 1 .. L : snapshots[i].at < obs.at)
      /\ obs.complete \in BOOLEAN
  BY <1>1, <1>2, <1>3 DEF StampsOrdered, TypeOK, Observation
<1>5. L + 1 \in 1 .. Horizon
  <2>1. CASE L = 0
    BY <1>3, <2>1
  <2>2. CASE L # 0
    <3>1. L \in DOMAIN snapshots
      BY <1>3, <2>2
    <3>2. L <= snapshots[L].at
      BY <1>1, <3>1 DEF StampsOrdered
    <3>3. snapshots[L].at < obs.at /\ snapshots[L].at \in 1 .. now
      BY <1>3, <1>4, <3>1
    <3> QED
      BY <1>3, <1>4, <3>2, <3>3
  <2> QED
    BY <2>1, <2>2
<1>6. /\ Len(snapshots') = L + 1 /\ DOMAIN snapshots' = 1 .. L + 1
      /\ snapshots'[L + 1] = obs /\ \A i \in 1 .. L : snapshots'[i] = snapshots[i]
  <2>1. snapshots \in Seq(Observation) /\ obs \in Observation
    BY <1>1 DEF TypeOK
  <2>2. Len(snapshots') = L + 1 /\ snapshots' \in Seq(Observation)
    BY <1>2, <2>1
  <2> QED
    BY <1>2, <2>1, <2>2
<1> HIDE DEF L
<1>7. /\ C \in SUBSET (1 .. Horizon) /\ Resolved(url.at) = Newest(C)
      /\ StateSweep(url.at) = Resolved(url.at) /\ C \subseteq 1 .. L
      /\ Resolved(url.at) \in 0 .. Horizon /\ (Resolved(url.at) # 0 => Resolved(url.at) \in 1 .. L)
  BY <1>1, <1>3, ResolvedIs DEF CompleteUpTo
<1>8. Requested(url.at) \in 1 .. Horizon /\ Requested(url.at)' = Requested(url.at)
  BY <1>1, <1>2, UrlIs DEF Requested
<1>9. /\ Resolved(url.at)' = Newest({i \in 1 .. L + 1 : /\ snapshots'[i].complete
                                                       /\ snapshots'[i].at <= Requested(url.at)})
      /\ StateSweep(url.at)' = Newest({i \in 1 .. L + 1 :
                                /\ snapshots'[i].complete
                                /\ url.at = Live \/ snapshots'[i].at <= url.at})
  BY <1>2, <1>6, <1>8 DEF Resolved, StateSweep
<1>10. /\ {i \in 1 .. L + 1 : snapshots'[i].complete /\ snapshots'[i].at <= Requested(url.at)}
            = IF obs.complete /\ obs.at <= Requested(url.at) THEN C \cup {L + 1} ELSE C
  BY <1>3, <1>6 DEF CompleteUpTo
<1>11. {i \in 1 .. L + 1 : snapshots'[i].complete /\ (url.at = Live \/ snapshots'[i].at <= url.at)}
        = {i \in 1 .. L + 1 : snapshots'[i].complete /\ snapshots'[i].at <= Requested(url.at)}
  <2>1. \A i \in 1 .. L + 1 : snapshots'[i].at \in 1 .. now
    BY <1>3, <1>4, <1>6
  <2> QED
    BY <1>3, <2>1 DEF Requested
<1> HIDE DEF C
<1>12. StateSweep(url.at)' = Resolved(url.at)'
  BY <1>9, <1>11
<1>13. CASE obs.complete /\ obs.at <= Requested(url.at)
  <2>1. \A i \in C : i < L + 1
    BY <1>3, <1>7
  <2>2. Newest(C \cup {L + 1}) = L + 1 /\ Newest(C) < L + 1
    BY <1>3, <1>5, <1>7, <2>1, NewestGrows
  <2>3. Resolved(url.at)' = L + 1 /\ Resolved(url.at) < L + 1
    BY <1>7, <1>9, <1>10, <1>13, <2>2
  <2>4. ASSUME url.at # Live, NEW n \in 0 .. L PROVE ~ SettledBy(n)'
    <3> SUFFICES ASSUME NEW i \in 1 .. n, snapshots'[i].at > url.at PROVE FALSE
      BY <1>2 DEF SettledBy
    <3>1. i \in 1 .. L /\ snapshots[i].at > url.at /\ obs.at <= url.at
      BY <1>3, <1>6, <1>13, <2>4 DEF Requested
    <3>2. url.at \in 1 .. Horizon
      BY <1>1, <2>4, UrlIs
    <3> QED
      BY <1>3, <1>4, <3>1, <3>2
  <2>5. /\ Resolved(url.at) \in Nat /\ Resolved(url.at)' \in Nat
        /\ Resolved(url.at)' > Resolved(url.at)
    BY <1>3, <1>5, <1>7, <2>3
  <2> QED
    BY <1>2, <1>3, <1>6, <2>4, <2>5 DEF L
<1>14. CASE ~ (obs.complete /\ obs.at <= Requested(url.at))
  <2>1. Resolved(url.at)' = Resolved(url.at)
    BY <1>7, <1>9, <1>10, <1>14
  <2>2. StateRows(url.at)' = StateRows(url.at)
    BY <1>2, <1>6, <1>7, <1>12, <2>1 DEF StateRows
  <2>3. ASSUME NEW n \in 0 .. L, SettledBy(n)' PROVE SettledBy(n)
    BY <1>2, <1>3, <1>6, <2>3 DEF SettledBy
  <2>4. Resolved(url.at) \in Nat
    BY <1>3, <1>7
  <2> QED
    BY <1>2, <1>3, <1>6, <2>1, <2>2, <2>3, <2>4 DEF L
<1> QED
  BY <1>13, <1>14

\* So what was read under the tags stays as it was.
LEMMA TopologyKeeps ==
  ASSUME IInv, CommitTopology
  PROVE  Kept'
<1>1. TypeOK
  BY DEF IInv
<1>2. /\ UNCHANGED <<now, errorRows, trafficRows, url, cache, request>>
      /\ Resolved(url.at) \in Nat /\ Resolved(url.at)' \in Nat
      /\ \/ Resolved(url.at)' > Resolved(url.at)
         \/ Resolved(url.at)' = Resolved(url.at) /\ StateRows(url.at)' = StateRows(url.at)
      /\ url.at # Live => \A n \in 0 .. Len(snapshots) : SettledBy(n)' =>
           SettledBy(n) /\ StateRows(url.at)' = StateRows(url.at)
  BY TopologyMoves
<1>3. ErrorsUpTo(url.at)' = ErrorsUpTo(url.at)
  BY <1>2 DEF ErrorsUpTo
<1>4. url.at # Live => /\ Mark(url.at) \in Nat /\ Mark(url.at)' = Mark(url.at)
                       /\ RateOver(url.at)' = RateOver(url.at)
  BY <1>1, <1>2, MarkIs DEF Mark, Requested, RateOver
<1> QED
  BY <1>2, <1>3, <1>4, KeptIs

\* The error rows of a cycle carry its sweep's stamp: none is of an instant that
\* has settled.
LEMMA ErrorsKeep ==
  ASSUME IInv, CommitErrors
  PROVE  Kept'
<1>1. TypeOK /\ StampsOrdered
  BY DEF IInv
<1>2. /\ UNCHANGED <<now, obs, snapshots, trafficRows, url, cache, request>>
      /\ phase = "errors" /\ errorRows' = errorRows \cup {obs.at}
  BY DEF CommitErrors, traffic, browser
<1>3. /\ Resolved(url.at)' = Resolved(url.at) /\ StateRows(url.at)' = StateRows(url.at)
      /\ Resolved(url.at) \in Nat
      /\ url.at # Live => Mark(url.at)' = Mark(url.at)
      /\ RateOver(url.at)' = RateOver(url.at) /\ Mark(url.at) \in Nat
  BY <1>1, <1>2, ResolvedIs, MarkIs
     DEF Resolved, Requested, StateRows, StateSweep, Mark, RateOver
<1>4. ASSUME NEW n \in 0 .. Len(snapshots), SettledBy(n)', url.at # Live
      PROVE  SettledBy(n) /\ ErrorsUpTo(url.at)' = ErrorsUpTo(url.at)
  <2>1. PICK i \in 1 .. n : snapshots[i].at > url.at
    BY <1>2, <1>4 DEF SettledBy
  <2>2. /\ i \in DOMAIN snapshots /\ snapshots[i].at \in Nat /\ url.at \in Nat
        /\ obs.at \in Nat /\ snapshots[i].at <= obs.at
    BY <1>1, <1>2, <1>4, StampsAre, UrlIs DEF StampsOrdered
  <2>3. ~ (obs.at <= url.at)
    BY <2>1, <2>2
  <2>4. {t \in errorRows' : t <= url.at} = {t \in errorRows : t <= url.at}
    BY <1>2, <2>3
  <2> QED
    BY <1>2, <2>1, <2>4 DEF SettledBy, ErrorsUpTo
<1> QED
  BY <1>2, <1>3, <1>4, KeptIs

\* A dump commits: the mark moves to it, or it is after the instant.
LEMMA TrafficKeeps ==
  ASSUME IInv, TrafficCommit
  PROVE  Kept'
<1>1. TypeOK /\ StampsOrdered
  BY DEF IInv
<1>2. /\ UNCHANGED <<now, snapshots, errorRows, url, cache, request>>
      /\ dump # 0 /\ trafficRows' = trafficRows \cup {dump}
  BY DEF TrafficCommit, collector, browser
<1>3. /\ dump \in 1 .. Horizon /\ (\A t \in trafficRows : t < dump) /\ Horizon \in Nat
      /\ trafficRows \subseteq 1 .. Horizon
  BY <1>1, <1>2, ReadPathAssumption DEF TypeOK, StampsOrdered
<1>4. /\ Resolved(url.at)' = Resolved(url.at) /\ StateRows(url.at)' = StateRows(url.at)
      /\ Resolved(url.at) \in Nat /\ ErrorsUpTo(url.at)' = ErrorsUpTo(url.at)
      /\ \A n : SettledBy(n)' = SettledBy(n)
  BY <1>1, <1>2, ResolvedIs
     DEF Resolved, Requested, StateRows, StateSweep, ErrorsUpTo, SettledBy
<1>5. ASSUME url.at # Live
      PROVE  /\ Mark(url.at) \in Nat /\ Mark(url.at)' \in Nat
             /\ \/ Mark(url.at)' > Mark(url.at)
                \/ Mark(url.at)' = Mark(url.at) /\ RateOver(url.at)' = RateOver(url.at)
  <2> DEFINE M == {t \in trafficRows : t <= url.at}
  <2>1. Mark(url.at) = Newest(M) /\ Mark(url.at)' = Newest({t \in trafficRows' : t <= url.at})
    BY <1>2, <1>5 DEF Mark, Requested
  <2>2. M \in SUBSET (1 .. Horizon) /\ Mark(url.at) \in Nat /\ url.at \in 1 .. Horizon
    BY <1>1, <1>3, <1>5, UrlIs, MarkIs
  <2>3. CASE dump <= url.at
    <3>1. {t \in trafficRows' : t <= url.at} = M \cup {dump}
      BY <1>2, <2>3
    <3>2. \A t \in M : t < dump
      BY <1>3
    <3> HIDE DEF M
    <3>3. Newest(M \cup {dump}) = dump /\ Newest(M) < dump
      BY <1>3, <2>2, <3>2, NewestGrows
    <3> QED
      BY <1>3, <2>1, <2>2, <3>1, <3>3
  <2>4. CASE ~ (dump <= url.at)
    <3>1. {t \in trafficRows' : t <= url.at} = M
      BY <1>2, <2>4
    <3>2. Mark(url.at)' = Mark(url.at)
      BY <2>1, <3>1
    <3>3. Window \in Nat
      BY ReadPathAssumption
    <3>4. \A x \in trafficRows' : x <= url.at \/ x <= url.at - Window => x \in trafficRows
      BY <1>2, <1>3, <2>2, <2>4, <3>3
    <3>5. /\ {x \in trafficRows' : url.at - Window - Lookback < x /\ x <= url.at - Window}
               = {x \in trafficRows : url.at - Window - Lookback < x /\ x <= url.at - Window}
          /\ {x \in trafficRows' : url.at - Window - Lookback < x /\ x <= url.at}
               = {x \in trafficRows : url.at - Window - Lookback < x /\ x <= url.at}
      BY <1>2, <3>4
    <3>6. RateOver(url.at)' = RateOver(url.at)
      BY <1>2, <3>5 DEF RateOver
    <3> QED
      BY <2>2, <3>2, <3>6
  <2> QED
    BY <2>3, <2>4
<1> QED
  BY <1>2, <1>4, <1>5, KeptIs

-----------------------------------------------------------------------------
(* Steps of the browser.                                                   *)

\* What is read has its type.
LEMMA ReadTypes ==
  ASSUME TypeOK, StampsOrdered, NEW n, NEW u
  PROVE  FirstRead(url) \in SUBSET Content /\ SecondRead(url, n, u) \in Reads
<1>1. StateRows(url.at) \in SUBSET Content
  BY StampsAre, ResolvedIs DEF StateRows
<1>2. Horizon \in Nat /\ errorRows \subseteq 1 .. Horizon /\ trafficRows \subseteq 1 .. Horizon
  BY ReadPathAssumption DEF TypeOK
<1>3. ASSUME NEW v PROVE ErrorsUpTo(v) \in 0 .. Horizon
  <2>1. {t \in errorRows : t <= v} \in SUBSET (1 .. Horizon)
    BY <1>2
  <2> QED
    BY <1>2, <2>1, NewestIs DEF ErrorsUpTo
<1>4. ASSUME NEW v PROVE RateOver(v) \in SUBSET ((1 .. Horizon) \X (1 .. Horizon))
  <2> DEFINE Up(t) == {x \in trafficRows : v - Window - Lookback < x /\ x <= t}
             base == Newest(Up(v - Window))
             last == Newest(Up(v))
  <2>1. Up(v - Window) \in SUBSET (1 .. Horizon) /\ Up(v) \in SUBSET (1 .. Horizon)
    BY <1>2
  <2>2. RateOver(v) = IF base # 0 /\ base < last THEN {<<base, last>>} ELSE {}
    BY DEF RateOver
  <2> HIDE DEF Up
  <2>3. base \in 0 .. Horizon /\ last \in 0 .. Horizon
    BY <1>2, <2>1, NewestIs
  <2> HIDE DEF base, last
  <2>4. base # 0 /\ base < last => base \in 1 .. Horizon /\ last \in 1 .. Horizon
    BY <1>2, <2>3
  <2> QED
    BY <2>2, <2>4
<1>5. url.kind \in {"map", "card", "card with traffic", "traffic"}
  BY UrlIs DEF Kind
<1>6. /\ url.kind = "map" => SecondRead(url, n, u) = [state |-> StateRows(url.at)]
      /\ url.kind = "card" => SecondRead(url, n, u) = [errors |-> ErrorsUpTo(CardUntil(url, n))]
      /\ url.kind = "card with traffic" =>
           SecondRead(url, n, u) = [rate |-> RateOver(CardUntil(url, n))]
      /\ url.kind = "traffic" => SecondRead(url, n, u) = [rate |-> RateOver(u)]
  BY DEF SecondRead
<1>7. /\ [state |-> StateRows(url.at)] \in Reads
      /\ \A v : [errors |-> ErrorsUpTo(v)] \in Reads /\ [rate |-> RateOver(v)] \in Reads
  BY <1>1, <1>3, <1>4 DEF Reads
<1>8. SecondRead(url, n, u) \in Reads
  BY <1>5, <1>6, <1>7
<1>9. FirstRead(url) \in SUBSET Content
  BY <1>1 DEF FirstRead
<1> QED
  BY <1>8, <1>9

\* The tag of a request is of the sweep and the mark it resolves to.
LEMMA TagIs ==
  ASSUME TypeOK, StampsOrdered
  PROVE  /\ Tag(url) \in [snapshot : 0 .. Horizon, mark : 0 .. Horizon]
         /\ url.kind # "traffic" => Tag(url).snapshot = Resolved(url.at)
         /\ url.kind \in {"card with traffic", "traffic"} => Tag(url).mark = Mark(url.at)
<1>1. Resolved(url.at) \in 0 .. Horizon /\ Mark(url.at) \in 0 .. Horizon /\ 0 \in 0 .. Horizon
  BY ResolvedIs, MarkIs, StampsAre
<1> QED
  BY <1>1 DEF Tag

\* What a step of the browser leaves as it is.
LEMMA BrowserReads ==
  ASSUME UNCHANGED <<now, collector, traffic, url>>
  PROVE  /\ Resolved(url.at)' = Resolved(url.at) /\ Mark(url.at)' = Mark(url.at)
         /\ StateRows(url.at)' = StateRows(url.at)
         /\ \A n : SettledBy(n)' = SettledBy(n)
         /\ cache'.first = cache.first /\ cache'.second = cache.second => UpToDate' = UpToDate
<1> USE DEF collector, traffic
<1>1. /\ Resolved(url.at)' = Resolved(url.at) /\ Mark(url.at)' = Mark(url.at)
      /\ StateRows(url.at)' = StateRows(url.at)
  BY DEF Resolved, Requested, Mark, StateRows, StateSweep
<1>2. \A n : SettledBy(n)' = SettledBy(n)
  BY DEF SettledBy
<1>3. FirstRead(url)' = FirstRead(url)
  BY <1>1 DEF FirstRead
<1>4. SecondRead(url, Resolved(url.at), Requested(url.at))'
        = SecondRead(url, Resolved(url.at), Requested(url.at))
  BY DEF SecondRead, CardUntil, RateOver, ErrorsUpTo, StateRows, StateSweep, Resolved, Requested
<1>5. cache'.first = cache.first /\ cache'.second = cache.second => UpToDate' = UpToDate
  BY <1>3, <1>4 DEF UpToDate
<1> QED
  BY <1>1, <1>2, <1>5

\* A 304 makes the stored answer no more and no less than it was.
LEMMA RevalidateKeeps ==
  ASSUME IInv, Revalidate
  PROVE  cache' \in Entry /\ RequestOK' /\ Kept'
<1>1. TypeOK /\ RequestOK /\ MapKept /\ RatesKept /\ SettledKept
  BY DEF IInv
<1>2. /\ UNCHANGED <<now, collector, traffic, url, request>> /\ cache.stored
      /\ cache' = [cache EXCEPT !.immutable = Immutable(url)]
  BY DEF Revalidate
<1>3. cache \in Entry
  BY <1>1, <1>2, Parts
<1>4. Immutable(url) \in BOOLEAN /\ (Immutable(url) => url.at # Live)
  BY DEF Immutable
<1>5. cache' \in Entry
  BY <1>2, <1>3, <1>4 DEF Entry
<1>6. /\ cache'.first = cache.first /\ cache'.second = cache.second /\ cache'.tag = cache.tag
      /\ cache'.seen = cache.seen /\ cache'.stored = cache.stored
      /\ cache'.immutable = Immutable(url)
  BY <1>2, <1>3 DEF Entry
<1>7. RequestOK'
  BY <1>1, <1>2, <1>4, <1>6 DEF RequestOK, collector
<1>8. Kept'
  BY <1>1, <1>2, <1>6, BrowserReads DEF Kept, MapKept, RatesKept, SettledKept
<1> QED
  BY <1>5, <1>7, <1>8

\* A request is tagged with what is in force when it comes in.
LEMMA AskKeeps ==
  ASSUME IInv, Ask
  PROVE  RequestOK' /\ request'.open \in BOOLEAN /\ Kept'
<1>1. TypeOK /\ RequestOK /\ StampsOrdered /\ MapKept /\ RatesKept /\ SettledKept
  BY DEF IInv
<1> DEFINE new == [open |-> TRUE, read |-> FALSE, first |-> {},
                   until |-> Requested(url.at), seen |-> Len(snapshots),
                   tag |-> Tag(url), immutable |-> Immutable(url),
                   snapshot |-> Resolved(url.at)]
<1>2. UNCHANGED <<now, collector, traffic, url, cache>> /\ request' = new
  BY DEF Ask
<1>3. Immutable(url) \in BOOLEAN /\ (Immutable(url) => url.at # Live)
  BY DEF Immutable
<1>4. /\ Requested(url.at) \in 1 .. Horizon /\ Len(snapshots) \in 0 .. Horizon
      /\ Tag(url) \in [snapshot : 0 .. Horizon, mark : 0 .. Horizon]
      /\ Resolved(url.at) \in 0 .. Horizon
  BY <1>1, UrlIs, StampsAre, TagIs, ResolvedIs
<1>5. new \in Request
  BY <1>3, <1>4 DEF Request
<1>6. /\ new.open /\ ~ new.read /\ new.until = Requested(url.at) /\ new.seen = Len(snapshots)
      /\ new.tag = Tag(url) /\ new.immutable = Immutable(url) /\ new.open \in BOOLEAN
  OBVIOUS
<1> HIDE DEF new
<1>7. Len(snapshots) <= Len(snapshots)
  BY <1>4
<1>8. RequestOK'
  BY <1>1, <1>2, <1>3, <1>5, <1>6, <1>7 DEF RequestOK, collector
<1>9. Resolved(url.at) <= Resolved(url.at) /\ Mark(url.at) <= Mark(url.at)
  BY <1>1, <1>4, MarkIs
<1>10. MapKept' /\ RatesKept' /\ SettledKept'
  <2>1. UpToDate' = UpToDate
    BY <1>2, BrowserReads
  <2>2. MapKept'
    BY <1>1, <1>2, <1>6, <1>9, <2>1, TagIs, BrowserReads DEF MapKept
  <2>3. RatesKept'
    BY <1>1, <1>2, <1>6, <1>9, <2>1, TagIs, UrlIs, BrowserReads DEF RatesKept
  <2>4. SettledKept'
    BY <1>1, <1>2, <1>6, <2>1, BrowserReads DEF SettledKept
  <2> QED
    BY <2>2, <2>3, <2>4
<1> QED
  BY <1>2, <1>6, <1>8, <1>10 DEF Kept

\* The first part is what is in force when it is read.
LEMMA ReadFirstKeeps ==
  ASSUME IInv, ReadFirst
  PROVE  RequestOK' /\ request'.open \in BOOLEAN /\ Kept'
<1>1. TypeOK /\ RequestOK /\ StampsOrdered /\ MapKept /\ RatesKept /\ SettledKept
  BY DEF IInv
<1>2. /\ UNCHANGED <<now, collector, traffic, url, cache>> /\ request.open
      /\ request' = [request EXCEPT !.read = TRUE, !.first = FirstRead(url)]
  BY DEF ReadFirst
<1>3. request \in Request
  BY <1>1, <1>2, Parts
<1>4. FirstRead(url) \in SUBSET Content
  BY <1>1, ReadTypes
<1>5. request' \in Request
  BY <1>2, <1>3, <1>4 DEF Request
<1>6. /\ request'.open = request.open /\ request'.first = FirstRead(url)
      /\ request'.tag = request.tag /\ request'.seen = request.seen
      /\ request'.until = request.until /\ request'.immutable = request.immutable
  BY <1>2, <1>3 DEF Request
<1>7. /\ url.kind \in {"map", "card"} => FirstRead(url) = StateRows(url.at)
      /\ url.kind = "traffic" => FirstRead(url) = {}
  BY DEF FirstRead
<1>8. RequestOK'
  BY <1>1, <1>2, <1>5, <1>6 DEF RequestOK, collector
<1>9. UpToDate' = UpToDate
  BY <1>2, BrowserReads
<1>10. MapKept' /\ RatesKept' /\ SettledKept'
  BY <1>1, <1>2, <1>6, <1>7, <1>9, BrowserReads DEF MapKept, RatesKept, SettledKept
<1>11. request'.open \in BOOLEAN
  BY <1>1, <1>6 DEF TypeOK
<1> QED
  BY <1>8, <1>10, <1>11 DEF Kept

\* The response stores what was read under the tag of the request.
LEMMA RespondKeeps ==
  ASSUME IInv, Respond
  PROVE  cache' \in Entry /\ RequestOK' /\ request'.open \in BOOLEAN /\ Kept'
<1>1. TypeOK /\ RequestOK /\ StampsOrdered /\ MapKept /\ RatesKept /\ SettledKept
  BY DEF IInv
<1> DEFINE second == SecondRead(url, request.snapshot, request.until)
           new == [stored |-> TRUE, tag |-> request.tag, immutable |-> request.immutable,
                   seen |-> request.seen, first |-> request.first, second |-> second]
<1>2. /\ UNCHANGED <<now, collector, traffic, url>> /\ request.open /\ request.read
      /\ cache' = new /\ request' = NoRequest
  BY DEF Respond, SentTag
<1>3. request \in Request /\ second \in Reads
  BY <1>1, <1>2, Parts, ReadTypes
<1>4. /\ url.kind = "map" => second = [state |-> StateRows(url.at)]
      /\ url.kind = "card" /\ url.at # Live => second = [errors |-> ErrorsUpTo(url.at)]
      /\ url.kind = "traffic" => second = [rate |-> RateOver(request.until)]
  BY SecondIs
<1> HIDE DEF second
<1>5. new \in Entry
  BY <1>3 DEF Entry, Request
<1>6. /\ new.stored /\ new.tag = request.tag /\ new.immutable = request.immutable
      /\ new.seen = request.seen /\ new.first = request.first /\ new.second = second
  OBVIOUS
<1> HIDE DEF new
<1>7. ~ NoRequest.open /\ NoRequest.open \in BOOLEAN
  BY DEF NoRequest
<1>8. RequestOK'
  BY <1>1, <1>2, <1>6, <1>7 DEF RequestOK, collector
<1>9. /\ url.kind = "map" =>
           (UpToDate' <=> /\ cache'.first = StateRows(url.at)
                          /\ cache'.second = [state |-> StateRows(url.at)])
      /\ url.kind = "card" /\ url.at # Live =>
           (UpToDate' <=> /\ cache'.first = StateRows(url.at)
                          /\ cache'.second = [errors |-> ErrorsUpTo(url.at)])
      /\ url.kind = "traffic" /\ url.at # Live =>
           (UpToDate' <=> cache'.first = {} /\ cache'.second = [rate |-> RateOver(url.at)])
  <2>1. (/\ url.kind = "map" =>
              (UpToDate <=> /\ cache.first = StateRows(url.at)
                            /\ cache.second = [state |-> StateRows(url.at)])
         /\ url.kind = "card" /\ url.at # Live =>
              (UpToDate <=> /\ cache.first = StateRows(url.at)
                            /\ cache.second = [errors |-> ErrorsUpTo(url.at)])
         /\ url.kind = "traffic" /\ url.at # Live =>
              (UpToDate <=> cache.first = {} /\ cache.second = [rate |-> RateOver(url.at)]))'
    BY UpToDateIs, PTL
  <2>2. /\ StateRows(url.at)' = StateRows(url.at) /\ url' = url
        /\ ErrorsUpTo(url.at)' = ErrorsUpTo(url.at) /\ RateOver(url.at)' = RateOver(url.at)
    BY <1>2, BrowserReads DEF collector, traffic, ErrorsUpTo, RateOver
  <2> QED
    BY <2>1, <2>2
<1>10. MapKept'
  BY <1>1, <1>2, <1>4, <1>6, <1>7, <1>9, BrowserReads DEF MapKept
<1>11. RatesKept'
  BY <1>1, <1>2, <1>4, <1>6, <1>7, <1>9, BrowserReads DEF RatesKept
<1>12. SettledKept'
  BY <1>1, <1>2, <1>4, <1>6, <1>7, <1>9, BrowserReads DEF SettledKept
<1> QED
  BY <1>2, <1>5, <1>7, <1>8, <1>10, <1>11, <1>12 DEF Kept

\* An aborted request leaves the stored answer.
LEMMA DropKeeps ==
  ASSUME IInv, Drop
  PROVE  RequestOK' /\ request'.open \in BOOLEAN /\ Kept'
<1>1. TypeOK /\ RequestOK /\ MapKept /\ RatesKept /\ SettledKept
  BY DEF IInv
<1>2. UNCHANGED <<now, collector, traffic, url, cache>> /\ request' = NoRequest
  BY DEF Drop
<1>3. ~ NoRequest.open /\ NoRequest.open \in BOOLEAN
  BY DEF NoRequest
<1>4. UpToDate' = UpToDate
  BY <1>2, BrowserReads
<1>5. RequestOK'
  BY <1>1, <1>2, <1>3 DEF RequestOK, collector
<1>6. Kept'
  BY <1>1, <1>2, <1>3, <1>4, BrowserReads DEF Kept, MapKept, RatesKept, SettledKept
<1> QED
  BY <1>2, <1>3, <1>5, <1>6

-----------------------------------------------------------------------------
(* The invariant and what follows from it.                                 *)

\* A step of the clock or of the collector keeps types, stamps and the request.
LEMMA CollectorTypes ==
  ASSUME IInv, Tick \/ CollectorStep
  PROVE  TypeOK' /\ StampsOrdered' /\ RequestOK'
<1>1. TypeOK /\ StampsOrdered /\ RequestOK
  BY DEF IInv
<1>2. /\ DOMAIN snapshots = 1 .. Len(snapshots) /\ Len(snapshots) \in 0 .. Horizon
      /\ \A i \in DOMAIN snapshots : snapshots[i].at \in 1 .. now
      /\ now \in 1 .. Horizon /\ Horizon \in Nat
  BY <1>1, StampsAre
<1> USE DEF collector, traffic, browser
<1>3. CASE Tick
  <2>1. now' \in 1 .. Horizon /\ now' = now + 1
    BY <1>2, <1>3 DEF Tick
  <2>2. TypeOK' /\ RequestOK'
    BY <1>1, <1>3, <2>1 DEF Tick, TypeOK, RequestOK
  <2>3. StampsOrdered'
    BY <1>1, <1>2, <1>3, <2>1 DEF Tick, StampsOrdered, TypeOK
  <2> QED
    BY <2>2, <2>3
<1>4. ASSUME NEW content \in Content, NEW complete \in BOOLEAN, Sweep(content, complete)
      PROVE  TypeOK' /\ StampsOrdered' /\ RequestOK'
  <2> DEFINE new == [at |-> now, content |-> content, complete |-> complete]
  <2>1. /\ UNCHANGED <<now, snapshots, errorRows, trafficRows, dump, url, cache, request>>
        /\ obs' = new /\ phase' = "topology" /\ now > LastSweep
    BY <1>4 DEF Sweep, Spaced
  <2>2. new \in Observation /\ new.at = now
    BY <1>2 DEF Observation
  <2> HIDE DEF new
  <2>3. TypeOK' /\ RequestOK'
    BY <1>1, <2>1, <2>2 DEF TypeOK, RequestOK
  <2>4. \A i \in DOMAIN snapshots : snapshots[i].at < now
    <3>1. CASE snapshots = <<>>
      BY <3>1
    <3>2. CASE snapshots # <<>>
      <4>1. LastSweep = snapshots[Len(snapshots)].at /\ Len(snapshots) \in DOMAIN snapshots
        BY <1>1, <1>2, <3>2 DEF LastSweep, TypeOK
      <4>2. \A i \in DOMAIN snapshots : snapshots[i].at <= snapshots[Len(snapshots)].at
        BY <1>1, <1>2, <4>1 DEF TypeOK
      <4> QED
        BY <1>2, <2>1, <4>1, <4>2
    <3> QED
      BY <3>1, <3>2
  <2>5. now \in 1 .. now
    BY <1>2
  <2>6. StampsOrdered'
    BY <1>1, <2>1, <2>2, <2>4, <2>5 DEF StampsOrdered
  <2> QED
    BY <2>3, <2>6
<1>5. CASE CommitTopology
  <2>1. /\ UNCHANGED <<now, obs, errorRows, trafficRows, dump, url, cache, request>>
        /\ phase = "topology" /\ phase' = "errors" /\ snapshots' = Append(snapshots, obs)
    BY <1>5 DEF CommitTopology
  <2>2. /\ obs \in Observation /\ snapshots \in Seq(Observation) /\ obs.at \in 1 .. now
        /\ \A i \in DOMAIN snapshots : snapshots[i].at < obs.at
    BY <1>1, <2>1 DEF TypeOK, StampsOrdered
  <2>3. /\ snapshots' \in Seq(Observation) /\ Len(snapshots') = Len(snapshots) + 1
        /\ DOMAIN snapshots' = 1 .. Len(snapshots) + 1
        /\ snapshots'[Len(snapshots) + 1] = obs
        /\ \A i \in DOMAIN snapshots : snapshots'[i] = snapshots[i]
    <3>1. snapshots' \in Seq(Observation) /\ Len(snapshots') = Len(snapshots) + 1
      BY <2>1, <2>2
    <3> QED
      BY <1>2, <2>1, <2>2, <3>1
  <2>4. \A i, j \in DOMAIN snapshots' : i < j => snapshots'[i].at < snapshots'[j].at
    <3> TAKE i, j \in DOMAIN snapshots'
    <3> HAVE i < j
    <3>1. i \in DOMAIN snapshots
      BY <1>2, <2>3
    <3>2. CASE j \in DOMAIN snapshots
      BY <1>1, <2>3, <3>1, <3>2 DEF TypeOK
    <3>3. CASE j = Len(snapshots) + 1
      BY <2>2, <2>3, <3>1, <3>3
    <3> QED
      BY <1>2, <2>3, <3>2, <3>3
  <2>5. TypeOK'
    BY <1>1, <2>1, <2>3, <2>4 DEF TypeOK
  <2>6. Len(snapshots) + 1 <= obs.at
    <3>1. CASE Len(snapshots) = 0
      BY <1>2, <2>2, <3>1
    <3>2. CASE Len(snapshots) # 0
      <4>1. Len(snapshots) \in DOMAIN snapshots
        BY <1>2, <3>2
      <4>2. Len(snapshots) <= snapshots[Len(snapshots)].at
            /\ snapshots[Len(snapshots)].at < obs.at
        BY <1>1, <2>2, <4>1 DEF StampsOrdered
      <4> QED
        BY <1>2, <2>2, <4>1, <4>2
    <3> QED
      BY <3>1, <3>2
  <2>7. \A i \in DOMAIN snapshots' : /\ i <= snapshots'[i].at /\ snapshots'[i].at <= now
                                     /\ snapshots'[i].at <= obs.at
    <3> TAKE i \in DOMAIN snapshots'
    <3>1. CASE i \in DOMAIN snapshots
      BY <1>1, <1>2, <2>2, <2>3, <3>1 DEF StampsOrdered
    <3>2. CASE i = Len(snapshots) + 1
      BY <1>2, <2>2, <2>3, <2>6, <3>2
    <3> QED
      BY <1>2, <2>3, <3>1, <3>2
  <2>8. StampsOrdered'
    BY <1>1, <2>1, <2>2, <2>7 DEF StampsOrdered
  <2>9. request.open => request.seen <= Len(snapshots')
    BY <1>1, <1>2, <2>3, Parts DEF RequestOK
  <2>10. cache.stored => cache.seen <= Len(snapshots')
    BY <1>1, <1>2, <2>3, Parts DEF RequestOK
  <2>11. RequestOK'
    BY <1>1, <2>1, <2>9, <2>10 DEF RequestOK
  <2> QED
    BY <2>5, <2>8, <2>11
<1>6. CASE CommitErrors
  <2>1. obs.at \in 1 .. Horizon
    BY <1>1, <1>2, <1>6 DEF CommitErrors, StampsOrdered
  <2> QED
    BY <1>1, <1>6, <2>1 DEF CommitErrors, TypeOK, StampsOrdered, RequestOK
<1>7. CASE CycleFails
  BY <1>1, <1>7 DEF CycleFails, TypeOK, StampsOrdered, RequestOK
<1>8. CASE TrafficDump
  <2>1. ASSUME NEW t \in trafficRows PROVE t < now
    <3>1. t \in 1 .. Horizon /\ t <= now
      BY <1>1 DEF StampsOrdered, TypeOK
    <3>2. t # now
      BY <1>8 DEF TrafficDump
    <3> QED
      BY <1>2, <3>1, <3>2
  <2>2. now \in 0 .. Horizon /\ now <= now
    BY <1>2
  <2> QED
    BY <1>1, <1>8, <2>1, <2>2 DEF TrafficDump, TypeOK, StampsOrdered, RequestOK
<1>9. CASE TrafficCommit
  <2>1. dump \in 1 .. Horizon /\ dump <= now
    BY <1>1, <1>9 DEF TrafficCommit, TypeOK, StampsOrdered
  <2>2. /\ trafficRows' \subseteq 1 .. Horizon /\ (\A t \in trafficRows' : t <= now)
        /\ dump' = 0 /\ dump' \in 0 .. Horizon
        /\ UNCHANGED <<now, phase, obs, snapshots, errorRows, url, cache, request>>
    BY <1>1, <1>2, <1>9, <2>1 DEF TrafficCommit, TypeOK, StampsOrdered
  <2>3. TypeOK' /\ RequestOK'
    BY <1>1, <2>2 DEF TypeOK, RequestOK
  <2>4. StampsOrdered'
    BY <1>1, <2>2 DEF StampsOrdered
  <2> QED
    BY <2>3, <2>4
<1> QED
  BY <1>3, <1>4, <1>5, <1>6, <1>7, <1>8, <1>9 DEF CollectorStep

\* The inductive invariant holds for ever.
LEMMA ReadPathInvariant == Spec => []IInv
<1>1. Init => IInv
  <2> SUFFICES ASSUME Init PROVE IInv
    OBVIOUS
  <2>1. 1 \in 1 .. Horizon /\ 0 \in 0 .. Horizon
    BY ReadPathAssumption
  <2>2. ~ NoRequest.open /\ ~ NoEntry.stored /\ NoRequest.open \in BOOLEAN
    BY DEF NoRequest, NoEntry
  <2>3. Len(snapshots) = 0 /\ DOMAIN snapshots = {} /\ snapshots \in Seq(Observation)
    BY DEF Init
  <2>4. obs \in Observation
    <3>1. PICK c \in Content : obs = [at |-> 0, content |-> c, complete |-> FALSE]
      BY DEF Init
    <3>2. [at |-> 0, content |-> c, complete |-> FALSE] \in Observation
      BY <2>1 DEF Observation
    <3> QED
      BY <3>1, <3>2
  <2>5. TypeOK
    BY <2>1, <2>2, <2>3, <2>4 DEF Init, TypeOK
  <2>6. RequestOK /\ MapKept /\ RatesKept /\ SettledKept
    BY <2>2 DEF Init, RequestOK, MapKept, RatesKept, SettledKept
  <2>7. StampsOrdered
    BY <2>3 DEF Init, StampsOrdered
  <2> QED
    BY <2>5, <2>6, <2>7 DEF IInv
<1>2. IInv /\ [Next]_vars => IInv'
  <2> SUFFICES ASSUME IInv, [Next]_vars PROVE IInv'
    OBVIOUS
  <2>1. TypeOK /\ StampsOrdered
    BY DEF IInv
  <2>2. now \in Nat
    BY <2>1, StampsAre
  <2>3. CASE Tick \/ CollectorStep
    <3>1. TypeOK' /\ StampsOrdered' /\ RequestOK'
      BY <2>3, CollectorTypes
    <3>2. CASE CommitTopology \/ CommitErrors \/ TrafficCommit
      BY <3>1, <3>2, TopologyKeeps, ErrorsKeep, TrafficKeeps DEF IInv, Kept
    <3>3. CASE ~ (CommitTopology \/ CommitErrors \/ TrafficCommit)
      <4>1. /\ UNCHANGED <<snapshots, errorRows, trafficRows, url, cache, request>>
            /\ now' = now \/ now' = now + 1
        BY <2>3, <3>3
           DEF CollectorStep, Tick, Sweep, CycleFails, TrafficDump, collector, traffic, browser
      <4>2. now' \in Nat /\ now <= now'
        BY <2>2, <4>1
      <4>3. Kept'
        BY <4>1, <4>2, SameAnswers
      <4> QED
        BY <3>1, <4>3 DEF IInv, Kept
    <3> QED
      BY <3>2, <3>3
  <2>4. CASE UNCHANGED vars
    <3>1. now <= now' /\ now' \in Nat
      BY <2>2, <2>4 DEF vars
    <3>2. Kept'
      BY <2>4, <3>1, SameAnswers DEF vars, collector, traffic, browser
    <3>3. TypeOK' /\ StampsOrdered' /\ RequestOK'
      BY <2>4 DEF IInv, vars, collector, traffic, browser, TypeOK, StampsOrdered, RequestOK
    <3> QED
      BY <3>2, <3>3 DEF IInv, Kept
  <2>5. CASE Ask \/ Revalidate \/ ReadFirst \/ Respond \/ Drop
    <3>1. UNCHANGED <<now, collector, traffic, url>>
      BY <2>5 DEF Ask, Revalidate, ReadFirst, Respond, Drop
    <3>2. StampsOrdered'
      BY <2>1, <3>1 DEF StampsOrdered, collector, traffic
    <3>3. RequestOK' /\ Kept'
      BY <2>5, AskKeeps, RevalidateKeeps, ReadFirstKeeps, RespondKeeps, DropKeeps
    <3>4. /\ cache' = cache \/ cache' \in Entry
          /\ request' = request \/ request'.open \in BOOLEAN
      <4>1. CASE Ask
        BY <4>1, AskKeeps DEF Ask
      <4>2. CASE Revalidate
        BY <4>2, RevalidateKeeps DEF Revalidate
      <4>3. CASE ReadFirst
        BY <4>3, ReadFirstKeeps DEF ReadFirst
      <4>4. CASE Respond
        BY <4>4, RespondKeeps
      <4>5. CASE Drop
        BY <4>5, DropKeeps DEF Drop
      <4> QED
        BY <2>5, <4>1, <4>2, <4>3, <4>4, <4>5
    <3>5. TypeOK'
      BY <2>1, <3>1, <3>4 DEF TypeOK, collector, traffic
    <3> QED
      BY <3>2, <3>3, <3>5 DEF IInv, Kept
  <2> QED
    BY <2>3, <2>4, <2>5 DEF Next, Poll, AtBound
<1> QED
  BY <1>1, <1>2, PTL DEF Spec

-----------------------------------------------------------------------------
(* The tags of cards and of live rates.                                    *)

\* Of a card: it was resolved to a sweep, its ports are of that sweep unless a
\* newer one is in, and it has the error rows of every sweep before.
CardKept ==
  url.kind = "card" =>
    /\ request.open =>
         /\ request.snapshot = request.tag.snapshot
         /\ request.snapshot \in DOMAIN snapshots /\ request.snapshot <= Resolved(url.at)
         /\ url.at # Live => snapshots[request.snapshot].at <= url.at
         /\ request.read /\ request.snapshot = Resolved(url.at)
              => request.first = StateRows(url.at)
    /\ cache.stored =>
         /\ cache.tag.snapshot \in DOMAIN snapshots /\ cache.tag.snapshot <= Resolved(url.at)
         /\ cache.tag.snapshot = Resolved(url.at) => cache.first = StateRows(url.at)
         /\ \A t \in errorRows :
              t < snapshots[cache.tag.snapshot].at => t <= cache.second.errors

\* What a card with traffic shows when it is resolved to sweep n.
RatesAt(n) == [rate |-> RateOver(CardUntil(url, n))]

\* The kind of a card that shows rates too.
WithTraffic == url.kind = "card with traffic"

\* Of a card with traffic: likewise, unless a newer sweep or a newer dump is in.
TrafficCardKept ==
  WithTraffic =>
    /\ request.open =>
         /\ request.snapshot = request.tag.snapshot
         /\ request.snapshot \in DOMAIN snapshots /\ request.snapshot <= Resolved(url.at)
         /\ request.tag.mark <= Mark(url.at)
         /\ request.read /\ request.snapshot = Resolved(url.at)
              => request.first = StateRows(url.at)
    /\ cache.stored =>
         /\ cache.tag.snapshot \in DOMAIN snapshots /\ cache.tag.snapshot <= Resolved(url.at)
         /\ cache.tag.mark <= Mark(url.at)
         /\ cache.tag.snapshot = Resolved(url.at) => cache.first = StateRows(url.at)
         /\ \A n \in Nat : n = cache.tag.snapshot /\ n = Resolved(url.at)
                           /\ cache.tag.mark = Mark(url.at) => cache.second = RatesAt(n)

\* Of live rates: they are up to the mark they were tagged with, or past it.
LiveRatesKept ==
  url.kind = "traffic" /\ url.at = Live =>
    /\ request.open => /\ request.tag.mark <= Mark(Live)
                       /\ request.tag.mark <= request.until
    /\ cache.stored =>
         /\ cache.tag.mark <= Mark(Live)
         /\ cache.tag.mark = Mark(Live) => \A pair \in cache.second.rate : pair[2] = Mark(Live)

TagsKept == CardKept /\ TrafficCardKept /\ LiveRatesKept

\* The mark is the newest dump that is in, up to the instant if there is one.
LEMMA MarkNewest ==
  ASSUME TypeOK, StampsOrdered
  PROVE  /\ Mark(url.at) \in {t \in trafficRows : t <= Requested(url.at)} \cup {0}
         /\ \A t \in trafficRows : t <= Requested(url.at) => t <= Mark(url.at)
         /\ url.at = Live => \A t \in trafficRows : t <= Mark(url.at)
<1> DEFINE M == {t \in trafficRows : t <= Requested(url.at)}
<1>1. Horizon \in Nat /\ M \in SUBSET (1 .. Horizon)
  BY ReadPathAssumption DEF TypeOK
<1>2. Mark(url.at) = Newest(M)
  BY DEF Mark
<1>3. url.at = Live => M = trafficRows
  BY DEF Requested, StampsOrdered
<1> HIDE DEF M
<1>4. Mark(url.at) \in M \cup {0} /\ \A t \in M : t <= Mark(url.at)
  BY <1>1, <1>2, NewestIs
<1> QED
  BY <1>3, <1>4 DEF M

\* Rates up to an instant by which the newest dump was in are taken to that dump.
LEMMA RateIsNewest ==
  ASSUME TypeOK, NEW v \in Nat, NEW m \in trafficRows \cup {0}, \A t \in trafficRows : t <= m,
         m <= v, NEW pair \in RateOver(v)
  PROVE  pair[2] = m
<1> DEFINE early == {x \in trafficRows : v - Window - Lookback < x /\ x <= v - Window}
           upto  == {x \in trafficRows : v - Window - Lookback < x /\ x <= v}
           base  == Newest(early)
           last  == Newest(upto)
<1>1. pair = <<base, last>> /\ base # 0 /\ base < last
  BY DEF RateOver
<1>2. Horizon \in Nat /\ trafficRows \subseteq 1 .. Horizon /\ Window \in Nat /\ Lookback \in Nat
  BY ReadPathAssumption DEF TypeOK
<1>3. early \in SUBSET (1 .. Horizon) /\ upto \in SUBSET (1 .. Horizon)
  BY <1>2
<1>4. \A x \in trafficRows : x \in upto <=> v - Window - Lookback < x /\ x <= v
  OBVIOUS
<1> HIDE DEF early, upto
<1>5. base \in 0 .. Horizon /\ last \in upto \cup {0} /\ \A x \in upto : x <= last
  BY <1>2, <1>3, NewestIs
<1> HIDE DEF base, last
<1>6. last \in upto /\ last \in Nat
  BY <1>1, <1>2, <1>3, <1>5
<1>7. last \in trafficRows /\ v - Window - Lookback < last
  <2>1. upto \subseteq trafficRows
    BY DEF upto
  <2> QED
    BY <1>4, <1>6, <2>1
<1>8. last <= m /\ m \in trafficRows /\ m \in Nat
  BY <1>2, <1>6, <1>7
<1>9. v - Window - Lookback < m
  BY <1>2, <1>6, <1>7, <1>8
<1>10. m \in upto
  BY <1>4, <1>8, <1>9
<1>11. m <= last
  BY <1>5, <1>10
<1> QED
  BY <1>1, <1>6, <1>8, <1>11

\* What a step of the clock or of the collector does to a tag: the sweep it is
\* resolved to moves on, or what is in force stays; the mark moves on, or all rates
\* up to the instant stay; and no error row is older than a sweep that is in.
LEMMA TagsMove ==
  ASSUME IInv, Tick \/ CollectorStep \/ UNCHANGED vars
  PROVE  /\ UNCHANGED <<url, cache, request>>
         /\ Resolved(url.at) \in Nat /\ Resolved(url.at)' \in Nat
         /\ \/ Resolved(url.at)' > Resolved(url.at)
            \/ Resolved(url.at)' = Resolved(url.at) /\ StateRows(url.at)' = StateRows(url.at)
         /\ \A i \in DOMAIN snapshots : i \in DOMAIN snapshots' /\ snapshots'[i] = snapshots[i]
         /\ Mark(url.at) \in Nat /\ Mark(url.at)' \in Nat
         /\ \/ Mark(url.at)' > Mark(url.at)
            \/ /\ Mark(url.at)' = Mark(url.at)
               /\ \A v \in 0 .. Requested(url.at) : RateOver(v)' = RateOver(v)
         /\ \A t \in errorRows' : t \notin errorRows =>
              t \in Nat /\ \A i \in DOMAIN snapshots : ~ (t < snapshots[i].at)
<1>1. TypeOK /\ StampsOrdered
  BY DEF IInv
<1>2. Resolved(url.at) \in Nat /\ Mark(url.at) \in Nat
  BY <1>1, ResolvedIs, MarkIs
<1>3. now \in 1 .. Horizon /\ Horizon \in Nat
      /\ \A i \in DOMAIN snapshots : snapshots[i].at \in 1 .. now
  BY <1>1, StampsAre
<1>4. \A t \in trafficRows : t \in Nat /\ t <= now
  BY <1>1 DEF TypeOK, StampsOrdered
<1>5. CASE CommitTopology
  <2>1. Mark(url.at)' = Mark(url.at) /\ \A v : RateOver(v)' = RateOver(v)
    BY <1>5, TopologyMoves DEF Mark, Requested, RateOver
  <2> QED
    BY <1>2, <1>5, <2>1, TopologyMoves
<1>6. CASE CommitErrors
  <2>1. /\ UNCHANGED <<now, obs, snapshots, trafficRows, url, cache, request>>
        /\ phase = "errors" /\ errorRows' = errorRows \cup {obs.at}
    BY <1>6 DEF CommitErrors, traffic, browser
  <2>2. obs.at \in Nat /\ \A i \in DOMAIN snapshots : ~ (obs.at < snapshots[i].at)
    BY <1>1, <1>3, <2>1 DEF StampsOrdered
  <2>3. /\ Resolved(url.at)' = Resolved(url.at) /\ StateRows(url.at)' = StateRows(url.at)
        /\ Mark(url.at)' = Mark(url.at) /\ \A v : RateOver(v)' = RateOver(v)
    BY <2>1 DEF Resolved, Requested, StateRows, StateSweep, Mark, RateOver
  <2> QED
    BY <1>2, <2>1, <2>2, <2>3
<1>7. CASE TrafficCommit
  <2>1. /\ UNCHANGED <<now, snapshots, errorRows, url, cache, request>>
        /\ dump # 0 /\ trafficRows' = trafficRows \cup {dump}
    BY <1>7 DEF TrafficCommit, collector, browser
  <2>2. /\ Resolved(url.at)' = Resolved(url.at) /\ StateRows(url.at)' = StateRows(url.at)
        /\ Requested(url.at)' = Requested(url.at)
    BY <2>1 DEF Resolved, Requested, StateRows, StateSweep
  <2>3. /\ dump \in 1 .. Horizon /\ dump <= now /\ \A t \in trafficRows : t < dump
        /\ trafficRows \subseteq 1 .. Horizon
    BY <1>1, <1>3, <2>1 DEF TypeOK, StampsOrdered
  <2> DEFINE M == {t \in trafficRows : t <= Requested(url.at)}
  <2>4. /\ Mark(url.at) = Newest(M)
        /\ Mark(url.at)' = Newest({t \in trafficRows' : t <= Requested(url.at)})
    BY <2>2 DEF Mark
  <2>5. M \in SUBSET (1 .. Horizon) /\ Requested(url.at) \in 1 .. Horizon
    BY <1>1, <2>3, UrlIs
  <2>6. CASE dump <= Requested(url.at)
    <3>1. {t \in trafficRows' : t <= Requested(url.at)} = M \cup {dump}
      BY <2>1, <2>6
    <3>2. \A t \in M : t < dump
      BY <2>3
    <3> HIDE DEF M
    <3>3. Newest(M \cup {dump}) = dump /\ Newest(M) < dump
      BY <1>3, <2>3, <2>5, <3>2, NewestGrows
    <3> QED
      BY <1>2, <2>1, <2>2, <2>3, <2>4, <3>1, <3>3
  <2>7. CASE ~ (dump <= Requested(url.at))
    <3>1. {t \in trafficRows' : t <= Requested(url.at)} = M
      BY <2>1, <2>7
    <3>2. Mark(url.at)' = Mark(url.at)
      BY <2>4, <3>1
    <3>3. ASSUME NEW v \in 0 .. Requested(url.at) PROVE RateOver(v)' = RateOver(v)
      <4>1. Window \in Nat
        BY ReadPathAssumption
      <4>2. \A x \in trafficRows' : x <= v \/ x <= v - Window => x \in trafficRows
        BY <2>1, <2>3, <2>5, <2>7, <4>1
      <4>3. /\ {x \in trafficRows' : v - Window - Lookback < x /\ x <= v - Window}
                 = {x \in trafficRows : v - Window - Lookback < x /\ x <= v - Window}
            /\ {x \in trafficRows' : v - Window - Lookback < x /\ x <= v}
                 = {x \in trafficRows : v - Window - Lookback < x /\ x <= v}
        BY <2>1, <4>2
      <4> QED
        BY <4>3 DEF RateOver
    <3> QED
      BY <1>2, <2>1, <2>2, <3>2, <3>3
  <2> QED
    BY <2>6, <2>7
<1>8. CASE ~ (CommitTopology \/ CommitErrors \/ TrafficCommit)
  <2>1. /\ UNCHANGED <<snapshots, errorRows, trafficRows, url, cache, request>>
        /\ now' = now \/ now' = now + 1
    BY <1>8
       DEF CollectorStep, Tick, Sweep, CycleFails, TrafficDump, collector, traffic, browser, vars
  <2>2. now' \in Nat /\ now <= now'
    BY <1>3, <2>1
  <2>3. Resolved(url.at)' = Resolved(url.at) /\ StateRows(url.at)' = StateRows(url.at)
    BY <1>1, <2>1, <2>2, ClockKeeps
  <2>4. \A v : RateOver(v)' = RateOver(v)
    BY <2>1 DEF RateOver
  <2>5. \A t \in trafficRows : t <= Requested(url.at)' <=> t <= Requested(url.at)
    BY <1>3, <1>4, <2>1, <2>2 DEF Requested
  <2>6. {t \in trafficRows : t <= Requested(url.at)'} = {t \in trafficRows : t <= Requested(url.at)}
    BY <2>5
  <2>7. Mark(url.at)' = Mark(url.at)
    BY <2>1, <2>6 DEF Mark
  <2> QED
    BY <1>2, <2>1, <2>3, <2>4, <2>7
<1> QED
  BY <1>5, <1>6, <1>7, <1>8

\* Where a card's counters and rates are read up to: an instant up to the one asked
\* for, and not before the sweep it is resolved to.
LEMMA CardUntilIs ==
  ASSUME TypeOK, StampsOrdered, NEW n \in DOMAIN snapshots,
         url.at # Live => snapshots[n].at <= url.at
  PROVE  /\ CardUntil(url, n) \in 0 .. Requested(url.at)
         /\ snapshots[n].at <= CardUntil(url, n) /\ snapshots[n].at \in Nat
<1>1. snapshots[n].at \in 1 .. now /\ now \in Nat
  BY StampsAre
<1>2. url.at # Live => url.at \in Nat /\ Requested(url.at) = url.at
  BY UrlIs
<1> QED
  BY <1>1, <1>2 DEF CardUntil, Requested

\* The sweep a request is resolved to was collected by the instant asked for.
LEMMA ResolvedBy ==
  ASSUME TypeOK, StampsOrdered, Resolved(url.at) # 0
  PROVE  /\ Resolved(url.at) \in DOMAIN snapshots
         /\ url.at # Live => snapshots[Resolved(url.at)].at <= url.at
<1>1. /\ Resolved(url.at) = Newest(CompleteUpTo(Requested(url.at)))
      /\ CompleteUpTo(Requested(url.at)) \in SUBSET (1 .. Horizon) /\ Horizon \in Nat
  BY ResolvedIs, StampsAre
<1>2. Resolved(url.at) \in CompleteUpTo(Requested(url.at))
  BY <1>1, NewestIs
<1> QED
  BY <1>2 DEF CompleteUpTo, Requested

\* While the mark stands, the rates of a card resolved to a sweep stay.
LEMMA RatesStay ==
  ASSUME IInv, Tick \/ CollectorStep \/ UNCHANGED vars, NEW n \in DOMAIN snapshots,
         n = Resolved(url.at), Mark(url.at)' = Mark(url.at)
  PROVE  RatesAt(n)' = RatesAt(n)
<1>1. TypeOK /\ StampsOrdered
  BY DEF IInv
<1>2. /\ UNCHANGED url /\ snapshots'[n] = snapshots[n]
      /\ Mark(url.at) \in Nat
      /\ \A v \in 0 .. Requested(url.at) : RateOver(v)' = RateOver(v)
  BY TagsMove
<1>3. url.at # Live => snapshots[n].at <= url.at
  <2>1. n # 0
    BY <1>1, StampsAre
  <2> QED
    BY <1>1, <2>1, ResolvedBy
<1>4. CardUntil(url, n) \in 0 .. Requested(url.at)
  BY <1>1, <1>3, CardUntilIs
<1>5. CardUntil(url, n)' = CardUntil(url, n)
  BY <1>2 DEF CardUntil
<1>6. PICK v \in 0 .. Requested(url.at) : v = CardUntil(url, n)
  BY <1>4
<1>7. RateOver(v)' = RateOver(v)
  BY <1>2
<1>8. RatesAt(n) = [rate |-> RateOver(v)] /\ RatesAt(n)' = [rate |-> RateOver(v)']
  BY <1>5, <1>6 DEF RatesAt
<1> QED
  BY <1>7, <1>8

\* A step of the clock or of the collector takes no tag past its answer.
LEMMA CollectorKeepsTags ==
  ASSUME IInv, TagsKept, Tick \/ CollectorStep \/ UNCHANGED vars
  PROVE  TagsKept'
<1>1. TypeOK /\ StampsOrdered /\ RequestOK
  BY DEF IInv
<1>2. /\ UNCHANGED <<url, cache, request>>
      /\ Resolved(url.at) \in Nat /\ Resolved(url.at)' \in Nat
      /\ \/ Resolved(url.at)' > Resolved(url.at)
         \/ Resolved(url.at)' = Resolved(url.at) /\ StateRows(url.at)' = StateRows(url.at)
      /\ \A i \in DOMAIN snapshots : i \in DOMAIN snapshots' /\ snapshots'[i] = snapshots[i]
      /\ Mark(url.at) \in Nat /\ Mark(url.at)' \in Nat
      /\ Mark(url.at)' > Mark(url.at) \/ Mark(url.at)' = Mark(url.at)
      /\ \A t \in errorRows' : t \notin errorRows =>
           t \in Nat /\ \A i \in DOMAIN snapshots : ~ (t < snapshots[i].at)
  BY TagsMove
<1>3. /\ request.open => request.tag.snapshot \in Nat /\ request.tag.mark \in Nat
      /\ cache.stored => cache.tag.snapshot \in Nat /\ cache.tag.mark \in Nat
  BY <1>1, Parts
<1>4. CardKept'
  <2> SUFFICES ASSUME url.kind = "card" PROVE CardKept'
    BY <1>2 DEF CardKept
  <2> QED
    BY <1>2, <1>3 DEF TagsKept, CardKept
<1>5. TrafficCardKept'
  <2> SUFFICES ASSUME WithTraffic PROVE TrafficCardKept'
    BY <1>2 DEF TrafficCardKept, WithTraffic
  <2>1. ASSUME NEW n \in Nat, cache.stored, n = cache.tag.snapshot,
               n = Resolved(url.at)', cache.tag.mark = Mark(url.at)'
        PROVE  cache.second = RatesAt(n)'
    <3>1. /\ n \in DOMAIN snapshots /\ n <= Resolved(url.at)
          /\ cache.tag.mark <= Mark(url.at)
          /\ n = Resolved(url.at) /\ cache.tag.mark = Mark(url.at) => cache.second = RatesAt(n)
      BY <2>1 DEF TagsKept, TrafficCardKept
    <3>2. n = Resolved(url.at)
      <4>1. Resolved(url.at) <= Resolved(url.at)'
        BY <1>2
      <4> QED
        BY <1>2, <2>1, <3>1, <4>1
    <3>4. Mark(url.at)' = Mark(url.at)
      <4>1. Mark(url.at) <= Mark(url.at)'
        BY <1>2
      <4> QED
        BY <1>2, <1>3, <2>1, <3>1, <4>1
    <3>3. RatesAt(n)' = RatesAt(n)
      BY <3>1, <3>2, <3>4, RatesStay
    <3> QED
      BY <2>1, <3>1, <3>2, <3>3, <3>4
  <2>2. ASSUME cache.stored
        PROVE  \A n \in Nat : n = cache.tag.snapshot /\ n = Resolved(url.at)'
                              /\ cache.tag.mark = Mark(url.at)' => cache.second = RatesAt(n)'
    BY <2>1, <2>2
  <2>3. TrafficCardKept
    BY DEF TagsKept
  <2>4. WithTraffic' <=> WithTraffic
    BY <1>2 DEF WithTraffic
  <2> QED
    BY <1>2, <1>3, <2>2, <2>3, <2>4 DEF TrafficCardKept
<1>6. LiveRatesKept'
  <2> SUFFICES ASSUME url.kind = "traffic", url.at = Live PROVE LiveRatesKept'
    BY <1>2 DEF LiveRatesKept
  <2>1. Mark(Live)' = Mark(url.at)' /\ Mark(Live) = Mark(url.at)
    BY <1>2 DEF Mark, Requested
  <2>2. request.open => request.until \in Nat
    BY <1>1, Parts DEF Request
  <2> QED
    BY <1>2, <1>3, <2>1, <2>2 DEF TagsKept, LiveRatesKept
<1> QED
  BY <1>4, <1>5, <1>6 DEF TagsKept

\* Neither does a step of the browser.
LEMMA BrowserKeepsTags ==
  ASSUME IInv, TagsKept, Ask \/ Revalidate \/ ReadFirst \/ Respond \/ Drop
  PROVE  TagsKept'
<1>1. TypeOK /\ StampsOrdered /\ RequestOK /\ CardKept /\ TrafficCardKept /\ LiveRatesKept
  BY DEF IInv, TagsKept
<1>2. UNCHANGED <<now, collector, traffic, url>>
  BY DEF Ask, Revalidate, ReadFirst, Respond, Drop
<1>3. /\ Resolved(url.at)' = Resolved(url.at) /\ Mark(url.at)' = Mark(url.at)
      /\ StateRows(url.at)' = StateRows(url.at)
      /\ UNCHANGED <<snapshots, errorRows, url>>
      /\ Mark(Live)' = Mark(Live)
      /\ \A n : RatesAt(n)' = RatesAt(n)
  BY <1>2, BrowserReads
     DEF collector, traffic, Mark, Requested, RatesAt, RateOver, CardUntil
<1>4. ASSUME cache.stored = cache'.stored, cache.tag = cache'.tag,
             cache.first = cache'.first, cache.second = cache'.second,
             ~ request'.open \/ request' = request
      PROVE  TagsKept'
  <2>1. CardKept'
    BY <1>1, <1>3, <1>4 DEF CardKept
  <2>2. TrafficCardKept'
    BY <1>1, <1>3, <1>4 DEF TrafficCardKept, WithTraffic
  <2>3. LiveRatesKept'
    BY <1>1, <1>3, <1>4 DEF LiveRatesKept
  <2> QED
    BY <2>1, <2>2, <2>3 DEF TagsKept
<1>5. ~ NoRequest.open
  BY DEF NoRequest
<1>6. CASE Drop
  BY <1>4, <1>5, <1>6 DEF Drop
<1>7. CASE Revalidate
  <2>1. cache \in Entry /\ cache' = [cache EXCEPT !.immutable = Immutable(url)]
    BY <1>1, <1>7, Parts DEF Revalidate
  <2> QED
    BY <1>4, <1>7, <2>1 DEF Revalidate, Entry
<1>8. CASE Ask
  <2>1. /\ request'.open /\ ~ request'.read /\ request'.until = Requested(url.at)
        /\ request'.tag = Tag(url) /\ request'.snapshot = Resolved(url.at)
        /\ cache' = cache
    BY <1>8 DEF Ask
  <2>2. /\ url.kind # "traffic" => Tag(url).snapshot = Resolved(url.at)
        /\ url.kind \in {"card with traffic", "traffic"} => Tag(url).mark = Mark(url.at)
    BY <1>1, TagIs
  <2>3. url.kind # "traffic" => /\ Resolved(url.at) \in DOMAIN snapshots
                                /\ url.at # Live => snapshots[Resolved(url.at)].at <= url.at
    BY <1>1, <1>8, ResolvedBy DEF Ask, MayAsk
  <2>4. /\ Resolved(url.at) \in Nat /\ Resolved(url.at) <= Resolved(url.at)
        /\ Mark(url.at) <= Mark(url.at)
    BY <1>1, ResolvedIs, MarkIs
  <2>5. Mark(url.at) <= Requested(url.at)
    BY <1>1, MarkNewest, UrlIs
  <2>6. CardKept'
    BY <1>1, <1>3, <2>1, <2>2, <2>3, <2>4 DEF CardKept
  <2>7. TrafficCardKept'
    BY <1>1, <1>3, <2>1, <2>2, <2>3, <2>4 DEF TrafficCardKept, WithTraffic
  <2>8. LiveRatesKept'
    BY <1>1, <1>3, <2>1, <2>2, <2>4, <2>5 DEF LiveRatesKept
  <2> QED
    BY <2>6, <2>7, <2>8 DEF TagsKept
<1>9. CASE ReadFirst
  <2>1. request.open /\ request' = [request EXCEPT !.read = TRUE, !.first = FirstRead(url)]
        /\ cache' = cache
    BY <1>9 DEF ReadFirst
  <2>2. /\ request'.first = FirstRead(url) /\ request'.tag = request.tag
        /\ request'.until = request.until /\ request'.snapshot = request.snapshot
    BY <1>1, <2>1, Parts DEF Request
  <2>3. url.kind # "traffic" => FirstRead(url) = StateRows(url.at)
    BY DEF FirstRead
  <2>4. CardKept'
    BY <1>1, <1>3, <2>1, <2>2, <2>3 DEF CardKept
  <2>5. TrafficCardKept'
    BY <1>1, <1>3, <2>1, <2>2, <2>3 DEF TrafficCardKept, WithTraffic
  <2>6. LiveRatesKept'
    BY <1>1, <1>3, <2>1, <2>2 DEF LiveRatesKept
  <2> QED
    BY <2>4, <2>5, <2>6 DEF TagsKept
<1>10. CASE Respond
  <2> DEFINE second == SecondRead(url, request.snapshot, request.until)
             u == CardUntil(url, request.snapshot)
  <2>1. /\ request.open /\ request.read /\ ~ request'.open
        /\ cache'.stored /\ cache'.tag = request.tag /\ cache'.first = request.first
        /\ cache'.second = second
    BY <1>5, <1>10 DEF Respond, SentTag
  <2>2. /\ url.kind = "card" => second.errors = ErrorsUpTo(u)
        /\ url.kind = "card with traffic" => second = RatesAt(request.snapshot)
        /\ url.kind = "traffic" => second.rate = RateOver(request.until)
    BY DEF SecondRead, RatesAt
  <2> HIDE DEF second
  <2>3. CardKept'
    <3> SUFFICES ASSUME url.kind = "card"
                 PROVE  \A t \in errorRows : t < snapshots[request.snapshot].at
                                               => t <= ErrorsUpTo(u)
      BY <1>1, <1>3, <2>1, <2>2 DEF CardKept
    <3>1. u \in 0 .. Requested(url.at) /\ snapshots[request.snapshot].at <= u
          /\ snapshots[request.snapshot].at \in Nat
      BY <1>1, <2>1, CardUntilIs DEF CardKept
    <3>2. Requested(url.at) \in Nat /\ Horizon \in Nat /\ errorRows \subseteq 1 .. Horizon
      BY <1>1, UrlIs, ReadPathAssumption DEF TypeOK
    <3> HIDE DEF u
    <3> TAKE t \in errorRows
    <3> HAVE t < snapshots[request.snapshot].at
    <3>3. t \in {x \in errorRows : x <= u}
      BY <3>1, <3>2
    <3>4. {x \in errorRows : x <= u} \in SUBSET (1 .. Horizon)
      BY <3>2
    <3> QED
      BY <3>2, <3>3, <3>4, NewestIs DEF ErrorsUpTo
  <2>4. TrafficCardKept'
    BY <1>1, <1>3, <2>1, <2>2 DEF TrafficCardKept, WithTraffic
  <2>5. LiveRatesKept'
    <3> SUFFICES ASSUME url.kind = "traffic", url.at = Live, request.tag.mark = Mark(Live),
                        NEW pair \in RateOver(request.until)
                 PROVE  pair[2] = Mark(Live)
      BY <1>1, <1>3, <2>1, <2>2 DEF LiveRatesKept
    <3>1. request.until \in Nat
      BY <1>1, <2>1, Parts DEF Request
    <3>2. /\ Mark(Live) \in trafficRows \cup {0} /\ \A t \in trafficRows : t <= Mark(Live)
          /\ Mark(Live) <= request.until
      BY <1>1, <2>1, MarkNewest DEF LiveRatesKept
    <3> QED
      BY <1>1, <3>1, <3>2, RateIsNewest
  <2> QED
    BY <2>3, <2>4, <2>5 DEF TagsKept
<1> QED
  BY <1>6, <1>7, <1>8, <1>9, <1>10

\* Both invariants hold for ever.
LEMMA TagsInvariant == Spec => [](IInv /\ TagsKept)
<1>1. Init => TagsKept
  <2>1. ~ NoRequest.open /\ ~ NoEntry.stored
    BY DEF NoRequest, NoEntry
  <2> QED
    BY <2>1 DEF Init, TagsKept, CardKept, TrafficCardKept, LiveRatesKept
<1>2. IInv /\ TagsKept /\ [Next]_vars => TagsKept'
  <2> SUFFICES ASSUME IInv, TagsKept, [Next]_vars PROVE TagsKept'
    OBVIOUS
  <2>1. Ask \/ Revalidate \/ ReadFirst \/ Respond \/ Drop
        \/ Tick \/ CollectorStep \/ UNCHANGED vars
    BY DEF Next, Poll, AtBound
  <2> QED
    BY <2>1, CollectorKeepsTags, BrowserKeepsTags
<1> QED
  BY <1>1, <1>2, ReadPathInvariant, PTL DEF Spec

\* A validator that still matches vouches for what it is said to, wherever commits
\* fell between the tag and the two reads: for the map and for rates at an instant
\* whole, for a card's ports and the errors of earlier sweeps, for a card's rates,
\* and for the newest dump of live rates.
THEOREM TagsVouch == Spec => []ValidatorsHold
<1>1. ASSUME IInv PROVE MapValidatorHolds
  <2> SUFFICES ASSUME url.kind = "map", WouldRevalidate PROVE UpToDate
    BY DEF MapValidatorHolds
  <2>1. cache.stored /\ cache.tag = Tag(url)
    BY DEF WouldRevalidate
  <2>2. cache.tag.snapshot = Resolved(url.at)
    BY <1>1, <2>1, TagIs DEF IInv
  <2> QED
    BY <1>1, <2>1, <2>2 DEF IInv, MapKept
<1>2. ASSUME IInv PROVE PinnedRatesValidatorHolds
  <2> SUFFICES ASSUME url.kind = "traffic", url.at # Live, WouldRevalidate PROVE UpToDate
    BY DEF PinnedRatesValidatorHolds
  <2>1. cache.stored /\ cache.tag = Tag(url)
    BY DEF WouldRevalidate
  <2>2. cache.tag.mark = Mark(url.at)
    BY <1>2, <2>1, TagIs DEF IInv
  <2> QED
    BY <1>2, <2>1, <2>2 DEF IInv, RatesKept
<1>3. ASSUME IInv, TagsKept
      PROVE  CardValidatorHolds /\ TrafficCardValidatorHolds /\ LiveRatesValidatorHolds
  <2>1. /\ url.kind # "traffic" => Tag(url).snapshot = Resolved(url.at)
        /\ url.kind \in {"card with traffic", "traffic"} => Tag(url).mark = Mark(url.at)
    BY <1>3, TagIs DEF IInv
  <2>2. WouldRevalidate => cache.stored /\ cache.tag = Tag(url)
    BY DEF WouldRevalidate
  <2>3. url.kind \in {"card", "card with traffic"} => FirstRead(url) = StateRows(url.at)
    BY DEF FirstRead
  <2>4. CardValidatorHolds
    BY <1>3, <2>1, <2>2, <2>3 DEF CardValidatorHolds, TagsKept, CardKept
  <2>5. TrafficCardValidatorHolds
    <3>1. url.kind = "card with traffic" =>
            SecondRead(url, Resolved(url.at), Requested(url.at)) = RatesAt(Resolved(url.at))
      BY DEF SecondRead, RatesAt
    <3>2. Resolved(url.at) \in Nat
      BY <1>3, ResolvedIs DEF IInv
    <3> QED
      BY <1>3, <2>1, <2>2, <2>3, <3>1, <3>2
         DEF TrafficCardValidatorHolds, TagsKept, TrafficCardKept, WithTraffic, UpToDate
  <2>6. LiveRatesValidatorHolds
    BY <1>3, <2>1, <2>2 DEF LiveRatesValidatorHolds, TagsKept, LiveRatesKept
  <2> QED
    BY <2>4, <2>5, <2>6
<1>4. IInv /\ TagsKept => ValidatorsHold
  BY <1>1, <1>2, <1>3 DEF IInv, ValidatorsHold
<1> QED
  BY <1>4, TagsInvariant, PTL

\* What a browser keeps for ever of a map or a card is the answer for ever, if a
\* sweep collected after the instant was in when it was asked for.
THEOREM SettledHistoryStays == Spec => []SettledHistoryIsFixed
<1>1. ASSUME IInv PROVE SettledHistoryIsFixed
  <2> SUFFICES ASSUME url.kind \in {"map", "card"}, cache.stored, cache.immutable,
                      \E i \in 1 .. cache.seen : snapshots[i].at > url.at
               PROVE  UpToDate
    BY DEF SettledHistoryIsFixed
  <2>1. url.at # Live
    BY <1>1 DEF IInv, RequestOK
  <2>2. SettledBy(cache.seen)
    BY DEF SettledBy
  <2> QED
    BY <1>1, <2>1, <2>2 DEF IInv, SettledKept
<1>2. IInv => SettledHistoryIsFixed
  BY <1>1
<1> QED
  BY <1>2, ReadPathInvariant, PTL
=============================================================================
