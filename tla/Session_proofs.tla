--------------------------- MODULE Session_proofs ---------------------------
(***************************************************************************)
(* Theorems about a tab of the browser, for any fabrics, sweeps, failures  *)
(* and addresses it is opened with: what is on screen is of the fabric it  *)
(* names, its address leads back to it, and a poll never takes it away.    *)
(***************************************************************************)
EXTENDS Session, SequenceTheorems, TLAPS

\* What is kept under a fabric is of that fabric.
OfFabric(k, f) == k \in DOMAIN log /\ log[k].fabric = f

DataIsOfKey == \A k \in Keys : data[k] # None => OfFabric(data[k], k[1])

HeldIsOfFabric ==
  held # None => held.fabric \in Fabrics /\ held.model \in Nat
                 /\ OfFabric(held.model, held.fabric)

\* The core is mounted with the map, and holds the fabric on it.
CoreIsDrawn ==
  /\ (core # None) <=> (Screen = "map")
  /\ core # None => core.fabric = Fabric

\* The list is asked for only while it names nothing, so no answer changes it
\* under a fabric looked at.
ListStands == listFetch => Rows = {}

AddressNames == Fabric # None => url.fabric = Named(Fabric, Rows)

IInv == /\ TypeOK /\ DataIsOfKey /\ HeldIsOfFabric
        /\ CoreIsDrawn /\ ListStands /\ AddressNames

-----------------------------------------------------------------------------
(* What the hooks derive. *)

\* A fabric looked at is one that is listed.
Looked ==
  /\ Rows \subseteq Fabrics
  /\ Fabric = None \/ Fabric \in Rows
  /\ Fabric # None => Key \in Keys /\ Key[1] = Fabric
  /\ Rows # {} => Fabric # None

\* Whatever was chosen, the fabric looked at is resolved against the list.
LEMMA FabricIsListed == TypeOK => Looked
<1> SUFFICES ASSUME TypeOK
             PROVE  Looked
  OBVIOUS
<1>1. Rows \subseteq Fabrics
  BY DEF TypeOK, Rows
<1>2. Fabric = None \/ Fabric \in Rows
  BY <1>1, SessionAssumption DEF Fabric, Resolve
<1>3. Rows # {} => Fabric # None
  BY <1>1, SessionAssumption DEF Fabric, Resolve
<1>4. Fabric # None => Key \in Keys /\ Key[1] = Fabric
  BY <1>1, <1>2 DEF Key, Keys, TypeOK
<1> QED
  BY <1>1, <1>2, <1>3, <1>4 DEF Looked

\* What there is to draw is of the fabric looked at.
ModelIsOfFabric == Model # None => Fabric \in Fabrics /\ OfFabric(Model, Fabric)

\* Of the answer and of the model held, each is of the fabric it stands for.
LEMMA WhatIsDrawn == TypeOK /\ DataIsOfKey /\ HeldIsOfFabric => ModelIsOfFabric
<1> SUFFICES ASSUME TypeOK, DataIsOfKey, HeldIsOfFabric, Model # None
             PROVE  Fabric \in Fabrics /\ OfFabric(Model, Fabric)
  BY DEF ModelIsOfFabric
<1>1. CASE Data # None
  <2>1. Fabric # None /\ Data = data[Key] /\ Model = Data
    BY <1>1 DEF Data, Model
  <2> QED
    BY <1>1, <2>1, FabricIsListed DEF DataIsOfKey, Looked
<1>2. CASE Data = None
  <2>1. Model = HeldModel
    BY <1>2 DEF Model
  <2>2. held # None /\ held.fabric = Fabric /\ Model = held.model
    BY <2>1 DEF HeldModel
  <2> QED
    BY <2>2 DEF HeldIsOfFabric
<1> QED
  BY <1>1, <1>2

\* So is what has just been answered.
DataIsOfFabric == Data # None => Fabric \in Fabrics /\ OfFabric(Data, Fabric)

\* An answer on hand is one to the question of the fabric looked at.
LEMMA AnswerIsOfFabric == TypeOK /\ DataIsOfKey => DataIsOfFabric
<1> SUFFICES ASSUME TypeOK, DataIsOfKey, Data # None
             PROVE  Fabric \in Fabrics /\ OfFabric(Data, Fabric)
  BY DEF DataIsOfFabric
<1>1. Fabric # None /\ Data = data[Key]
  BY DEF Data
<1> QED
  BY <1>1, FabricIsListed DEF DataIsOfKey, Looked

\* The three facts above, of the state after a step.
LEMMA AfterStep ==
  /\ TypeOK' => Looked'
  /\ TypeOK' /\ DataIsOfKey' => DataIsOfFabric'
  /\ TypeOK' /\ DataIsOfKey' /\ HeldIsOfFabric' => ModelIsOfFabric'
BY FabricIsListed, AnswerIsOfFabric, WhatIsDrawn, PTL

\* A map has a model, of a fabric that is listed.
LEMMA MapHasModel == Screen = "map" => Model # None /\ loaded
BY DEF Screen

-----------------------------------------------------------------------------
(* The invariant. *)

\* A commit keeps it, whatever the step made of the queries and the page.
LEMMA CommitKeeps ==
  ASSUME IInv, TypeOK', DataIsOfKey', ListStands', log' = log,
         list' = list \/ Rows = {},
         NEW answered, NEW failed, NEW zoned, Commit(answered, failed, zoned)
  PROVE  IInv'
<1>1. HeldIsOfFabric'
  <2>1. CASE Data' # None
    <3>1. held' = [fabric |-> Fabric', model |-> Data']
      BY <2>1 DEF Commit
    <3>2. Fabric' \in Fabrics /\ OfFabric(Data, Fabric)'
      BY <2>1, AfterStep DEF DataIsOfFabric
    <3>3. Data' \in Nat
      BY <3>2 DEF OfFabric, TypeOK
    <3> QED
      BY <3>1, <3>2, <3>3 DEF HeldIsOfFabric, OfFabric
  <2>2. CASE Data' = None
    <3>1. held' = held
      BY <2>2 DEF Commit
    <3> QED
      BY <3>1 DEF IInv, HeldIsOfFabric, OfFabric
  <2> QED
    BY <2>1, <2>2
<1>2. CoreIsDrawn'
  <2>1. CASE Screen' # "map"
    BY <2>1 DEF Commit, Draw, CoreIsDrawn
  <2>2. CASE Screen' = "map"
    <3>1. Model' # None
      BY <2>2 DEF Screen
    <3>2. Fabric' \in Fabrics
      BY <1>1, <3>1, AfterStep DEF ModelIsOfFabric
    <3>3. \/ core # None /\ core.fabric = Fabric' /\ core' = core
          \/ core' = [fabric |-> Fabric', placed |-> layoutsOf']
      BY <2>2 DEF Commit, Draw
    <3>4. layoutsOf' \in Fabrics \cup {None}
      BY DEF TypeOK
    <3>5. [fabric |-> Fabric', placed |-> layoutsOf'] # None
      BY <3>2, <3>4, SessionAssumption
    <3> QED
      BY <2>2, <3>3, <3>5 DEF CoreIsDrawn
  <2> QED
    BY <2>1, <2>2
<1>3. AddressNames'
  <2> SUFFICES ASSUME Fabric' # None
               PROVE  url'.fabric = Named(Fabric', Rows')
    BY DEF AddressNames
  <2>1. CASE Fabric' # Fabric \/ Cardinality(Rows') # Cardinality(Rows)
    BY <2>1 DEF Commit, WriteAddress
  <2>2. CASE Fabric' = Fabric /\ Cardinality(Rows') = Cardinality(Rows)
    <3>1. Rows # {}
      BY <2>2, FabricIsListed DEF IInv, Looked
    <3>2. Rows' = Rows
      BY <3>1 DEF Rows
    <3>3. url'.fabric = url.fabric
      BY <2>2 DEF Commit, WriteAddress
    <3> QED
      BY <2>2, <3>2, <3>3 DEF IInv, AddressNames, Named
  <2> QED
    BY <2>1, <2>2
<1> QED
  BY <1>1, <1>2, <1>3 DEF IInv

\* A tab that opens holds nothing of any fabric.
LEMMA InitKeeps == Init => IInv
<1> SUFFICES ASSUME Init
             PROVE  IInv
  OBVIOUS
<1>1. TypeOK
  BY SessionAssumption DEF Init, TypeOK, Nothing
<1>2. Fabric = None /\ Rows = {}
  BY DEF Init, Fabric, Rows, Resolve
<1>3. DataIsOfKey /\ HeldIsOfFabric /\ ListStands
  BY DEF Init, DataIsOfKey, HeldIsOfFabric, ListStands, Nothing
<1>4. Screen # "map"
  <2>1. Model = None
    BY <1>2 DEF Init, Model, Data, HeldModel
  <2> QED
    BY <2>1 DEF Screen
<1> QED
  BY <1>1, <1>2, <1>3, <1>4 DEF Init, IInv, CoreIsDrawn, AddressNames

\* A page loaded again knows nothing.
LEMMA ReloadKeeps == IInv /\ Reload => IInv'
<1> SUFFICES ASSUME IInv, Reload
             PROVE  IInv'
  OBVIOUS
<1>1. TypeOK'
  BY DEF Reload, IInv, TypeOK, Nothing, server
<1>2. Fabric' = None /\ Rows' = {}
  BY DEF Reload, Fabric, Rows, Resolve
<1>3. DataIsOfKey' /\ HeldIsOfFabric' /\ ListStands'
  BY DEF Reload, DataIsOfKey, HeldIsOfFabric, ListStands, Nothing
<1>4. Screen' # "map"
  <2>1. Model' = None
    BY <1>2 DEF Reload, Model, Data, HeldModel
  <2> QED
    BY <2>1 DEF Screen
<1> QED
  BY <1>1, <1>2, <1>3, <1>4 DEF Reload, IInv, CoreIsDrawn, AddressNames

\* Nothing in the tab changes with what happens elsewhere, and no sweep recorded
\* is ever another.
LEMMA ElsewhereKeeps ==
  ASSUME IInv, Elsewhere, log' \in Seq(SweepRow), Len(log) <= Len(log'),
         \A i \in DOMAIN log : log'[i] = log[i]
  PROVE  IInv'
<1>1. TypeOK'
  BY DEF Elsewhere, Page, Queries, IInv, TypeOK
<1>2. \A k, f : OfFabric(k, f) => OfFabric(k, f)'
  BY DEF OfFabric, IInv, TypeOK
<1>3. UNCHANGED <<Rows, Fabric, Screen, Key, Model>>
  BY DEF Elsewhere, Page, Queries, Rows, Fabric, Resolve, Key, Screen, ListError, Error,
         Model, Data, HeldModel
<1>4. DataIsOfKey'
  BY <1>2 DEF Elsewhere, Queries, IInv, DataIsOfKey
<1>5. HeldIsOfFabric'
  BY <1>2 DEF Elsewhere, IInv, HeldIsOfFabric
<1> QED
  BY <1>1, <1>3, <1>4, <1>5
     DEF Elsewhere, Queries, IInv, CoreIsDrawn, ListStands, AddressNames

\* A step that leaves log, queries and addressed time typed, and commits.
LEMMA Committed ==
  ASSUME IInv, UNCHANGED server,
         NEW answered, NEW failed, NEW zoned, Commit(answered, failed, zoned),
         time' \in Times, layoutsOf' \in Fabrics \cup {None},
         list' = list \/ (Rows = {} /\ list' \subseteq Fabrics),
         data' \in [Keys -> Nat \cup {None}], DataIsOfKey',
         listFetch' => list' = list /\ Rows = {}
  PROVE  IInv'
<1>1. TypeOK'
  BY DEF IInv, TypeOK, Commit, WriteAddress, server
<1>2. ListStands'
  BY DEF ListStands, Rows
<1> QED
  BY <1>1, <1>2, CommitKeeps DEF server

\* Each step ends in a render, and a render keeps the invariant.
LEMMA StepKeeps == IInv /\ [Next]_vars => IInv'
<1> SUFFICES ASSUME IInv, [Next]_vars
             PROVE  IInv'
  OBVIOUS
<1>0. /\ time \in Times /\ layoutsOf \in Fabrics \cup {None}
      /\ data \in [Keys -> Nat \cup {None}] /\ log \in Seq(SweepRow)
  BY DEF IInv, TypeOK
<1>u. ASSUME UNCHANGED <<data, log>>
      PROVE  DataIsOfKey'
  BY <1>u DEF IInv, DataIsOfKey, OfFabric
<1>1. CASE BeginLayouts
  BY <1>1, <1>0, <1>u, Committed
     DEF BeginLayouts, Render, Queries, server, IInv, ListStands
<1>2. CASE EndLayouts
  <2>1. Fabric \in Fabrics \cup {None}
    BY FabricIsListed DEF IInv, Looked
  <2> QED
    BY <1>2, <2>1, <1>0, <1>u, Committed
       DEF EndLayouts, Render, Queries, server, IInv, ListStands
<1>3. ASSUME NEW because, because => Rows = {}, AskList(because)
      PROVE  IInv'
  BY <1>3, <1>0, <1>u, Committed DEF AskList, Render, Page, server
<1>4. CASE ListAnswers
  <2>1. list' = list \/ (Rows = {} /\ list' \subseteq Fabrics)
    BY <1>4 DEF ListAnswers, Answered, IInv, ListStands
  <2> QED
    BY <1>4, <2>1, <1>0, <1>u, Committed DEF ListAnswers, Render, Page, server
<1>5. ASSUME NEW because, AskGraph(because)
      PROVE  IInv'
  BY <1>5, <1>0, <1>u, Committed
     DEF AskGraph, Render, Page, server, IInv, ListStands
<1>6. CASE GraphAnswers
  <2>1. CASE UNCHANGED data
    <3>1. PICK a, f, z : Commit(a, f, z)
      BY <1>6 DEF GraphAnswers
    <3> QED
      BY <1>6, <2>1, <3>1, <1>0, <1>u, Committed
         DEF GraphAnswers, Page, server, IInv, ListStands
  <2>2. ASSUME NEW is \in Resolved(Fabric, time),
               data' = [data EXCEPT ![Key] = is], Commit(TRUE, FALSE, FALSE)
        PROVE  IInv'
    <3>1. OfFabric(is, Fabric) /\ is \in Nat
      BY <2>2, <1>0 DEF Resolved, Latest, OfFabric
    <3>2. data' \in [Keys -> Nat \cup {None}]
      BY <2>2, <3>1, <1>0
    <3>3. DataIsOfKey'
      BY <1>6, <2>2, <3>1, <1>0 DEF GraphAnswers, server, IInv, DataIsOfKey, OfFabric, Key, Keys
    <3> QED
      BY <1>6, <2>2, <3>2, <3>3, <1>0, Committed
         DEF GraphAnswers, Page, server, IInv, ListStands
  <2> QED
    BY <1>6, <2>1, <2>2 DEF GraphAnswers
<1>7. ASSUME NEW k \in Keys, Forget(k)
      PROVE  IInv'
  <2>1. data' \in [Keys -> Nat \cup {None}]
    BY <1>7, <1>0 DEF Forget
  <2>2. DataIsOfKey'
    BY <1>7, <1>0 DEF Forget, server, IInv, DataIsOfKey, OfFabric
  <2> QED
    BY <1>7, <2>1, <2>2, <1>0, Committed DEF Forget, Render, Page, server, IInv, ListStands
<1>8. ASSUME NEW f \in Fabrics, Select(f)
      PROVE  IInv'
  BY <1>8, <1>0, <1>u, Committed DEF Select, Render, server, IInv, ListStands
<1>9. ASSUME NEW t \in Times, SetTime(t)
      PROVE  IInv'
  BY <1>9, <1>0, <1>u, Committed DEF SetTime, Render, server, IInv, ListStands
<1>10. CASE SetZone
  BY <1>10, <1>0, <1>u, Committed DEF SetZone, Page, Queries, server, IInv, ListStands
<1>11. ASSUME NEW f \in Fabrics, NEW hash \in 1 .. MaxSweeps, Sweep(f, hash)
       PROVE  IInv'
  <2>1. [fabric |-> f, hash |-> hash] \in SweepRow
    BY SessionAssumption DEF SweepRow
  <2>2. /\ log' \in Seq(SweepRow) /\ Len(log) <= Len(log')
        /\ \A i \in DOMAIN log : log'[i] = log[i]
    BY <1>11, <2>1, <1>0, AppendProperties DEF Sweep
  <2> QED
    BY <1>11, <2>2, ElsewhereKeeps DEF Sweep
<1>12. CASE Down \/ Up
  BY <1>12, <1>0, ElsewhereKeeps DEF Down, Up
<1>13. CASE UNCHANGED vars
  BY <1>13 DEF vars, IInv, TypeOK, DataIsOfKey, HeldIsOfFabric, CoreIsDrawn, ListStands,
     AddressNames, OfFabric, Screen, ListError, Error, Model, Data, HeldModel, Key, Fabric,
     Rows, Resolve, Named
<1>14. CASE LoadList \/ PollList \/ Focus
  <2>1. /\ ListLoad => Rows = {}
        /\ ListPolls => Rows = {}
        /\ ListStale => Rows = {}
    BY DEF ListLoad, ListPolls, ListStale, Rows
  <2> QED
    BY <1>14, <2>1, <1>3, <1>5 DEF LoadList, PollList, Focus
<1>15. CASE LoadGraph \/ PollGraph
  BY <1>15, <1>5 DEF LoadGraph, PollGraph
<1> QED
  BY <1>1, <1>2, <1>4, <1>6, <1>7, <1>8, <1>9, <1>10, <1>11, <1>12, <1>13, <1>14, <1>15,
     ReloadKeeps DEF Next

-----------------------------------------------------------------------------
(* Theorems. *)

\* The invariant holds throughout.
THEOREM Inductive == Spec => []IInv
BY InitKeeps, StepKeeps, PTL DEF Spec

\* Whatever fabric is switched to, whatever is cached, asked or failed: the map
\* on screen and the elements in the core are of the fabric named (App.tsx
\* 127-132).
THEOREM MapIsOfItsFabric == Spec => []NeverTheOtherFabric
<1>1. IInv => NeverTheOtherFabric
  <2> SUFFICES ASSUME IInv, Screen = "map"
               PROVE  log[Model].fabric = Fabric /\ core.fabric = Fabric
    BY DEF NeverTheOtherFabric, IInv, CoreIsDrawn
  <2>1. Model # None
    BY MapHasModel
  <2>2. OfFabric(Model, Fabric)
    BY <2>1, WhatIsDrawn DEF IInv, ModelIsOfFabric
  <2> QED
    BY <2>2 DEF OfFabric, IInv, CoreIsDrawn
<1> QED
  BY <1>1, Inductive, PTL

\* The address names the fabric exactly when the list leaves a choice, so that
\* it leads any browser to what is on screen, whatever that one looked at last
\* (useFabric.ts 35-44).
THEOREM AddressLeadsHere == Spec => []LinkLeadsHere
<1>1. IInv => LinkLeadsHere
  <2> SUFFICES ASSUME IInv, Fabric # None, NEW other \in Fabrics \cup {None}
               PROVE  Resolve(IF url.fabric # None THEN url.fabric ELSE other, Rows) = Fabric
    BY DEF LinkLeadsHere
  <2>1. Fabric \in Rows /\ Rows \subseteq Fabrics
    BY FabricIsListed DEF IInv, Looked
  <2>2. url.fabric = IF Rows # {Fabric} THEN Fabric ELSE None
    BY DEF IInv, AddressNames, Named
  <2>3. CASE Rows # {Fabric}
    BY <2>1, <2>2, <2>3 DEF Resolve
  <2>4. CASE Rows = {Fabric}
    <3>1. First[Rows] = Fabric
      BY <2>1, <2>4, SessionAssumption
    <3> QED
      BY <2>2, <2>4, <3>1 DEF Resolve
  <2> QED
    BY <2>3, <2>4
<1> QED
  BY <1>1, Inductive, PTL

\* While the data of what is looked at stands, no failure, question, answer or
\* change elsewhere takes the core off the screen or draws another model in it
\* (App.tsx 215-218).
THEOREM PollsLeaveTheGraph == Spec => GraphSurvivesBadPolls
<1>1. ASSUME IInv, IInv', [Next]_vars, core # None, data' = data, Key' = Key, list' = list,
             layoutsOf' = layoutsOf, loaded' = loaded
      PROVE  core' = core /\ Model' = Model
  <2>1. Screen = "map" /\ core.fabric = Fabric
    BY <1>1 DEF IInv, CoreIsDrawn
  <2>2. Model # None /\ loaded
    BY <2>1, MapHasModel
  <2>3. Fabric # None
    BY <1>1, <2>2, WhatIsDrawn, SessionAssumption DEF IInv, ModelIsOfFabric
  <2>4. Fabric' = Fabric /\ Rows' = Rows /\ Data' = Data
    BY <1>1 DEF Key, Rows, Data
  <2>5. CASE \E a, f, z : Commit(a, f, z)
    <3>1. Data' = None => held' = held
      BY <2>5 DEF Commit
    <3>2. Model' = Model
      BY <2>4, <3>1 DEF Model, HeldModel
    <3>3. list' # {}
      BY <1>1, <2>3, FabricIsListed DEF IInv, Looked, Rows
    <3>4. Screen' = "map"
      BY <1>1, <2>2, <2>3, <2>4, <3>2, <3>3 DEF Screen
    <3>5. Draw
      BY <2>5 DEF Commit
    <3>6. core' = core
      BY <1>1, <2>1, <2>4, <3>4, <3>5 DEF Draw
    <3> QED
      BY <3>2, <3>6
  <2>6. CASE UNCHANGED <<core, held>>
    BY <2>4, <2>6 DEF Model, HeldModel
  <2>7. ~Reload
    BY <1>1, <2>3, FabricIsListed DEF Reload, IInv, Looked, Rows
  <2>8. Next => Reload \/ (\E a, f, z : Commit(a, f, z)) \/ UNCHANGED <<core, held>>
    <3>1. BeginLayouts \/ EndLayouts \/ SetZone \/ ListAnswers \/ GraphAnswers
            => \E a, f, z : Commit(a, f, z)
      BY DEF BeginLayouts, EndLayouts, SetZone, ListAnswers, GraphAnswers, Render
    <3>2. \A because : AskList(because) \/ AskGraph(because) => \E a, f, z : Commit(a, f, z)
      BY DEF AskList, AskGraph, Render
    <3>3. /\ \A k \in Keys : Forget(k) => \E a, f, z : Commit(a, f, z)
          /\ \A f \in Fabrics : Select(f) => \E a, b, z : Commit(a, b, z)
          /\ \A t \in Times : SetTime(t) => \E a, f, z : Commit(a, f, z)
      BY DEF Forget, Select, SetTime, Render
    <3>4. /\ Down \/ Up => UNCHANGED <<core, held>>
          /\ \A f \in Fabrics, h \in 1 .. MaxSweeps : Sweep(f, h) => UNCHANGED <<core, held>>
      BY DEF Down, Up, Sweep, Elsewhere
    <3> QED
      BY <3>1, <3>2, <3>3, <3>4 DEF Next, LoadList, PollList, LoadGraph, PollGraph, Focus
  <2>9. UNCHANGED vars => UNCHANGED <<core, held>>
    BY DEF vars
  <2> QED
    BY <1>1, <2>5, <2>6, <2>7, <2>8, <2>9
<1> QED
  BY <1>1, Inductive, PTL DEF Spec, GraphSurvivesBadPolls

-----------------------------------------------------------------------------
(* The notices. *)

\* While the live map is looked at, the answer compared last is the one drawn.
SeenIsDrawn == OnAir /\ Data # None => seen = Data

\* The data of what is looked at changes with an answer to it, and then with the
\* newest sweep of the fabric.
Unanswered(answered) == ~answered /\ (Key' = Key => Data' = Data)
Answering(answered)  == /\ answered /\ UNCHANGED <<log, chosen, time, list>>
                        /\ \E is \in Resolved(Fabric, time) : data' = [data EXCEPT ![Key] = is]

Committing ==
  \E a \in BOOLEAN : \E f, z : Commit(a, f, z) /\ (Unanswered(a) \/ Answering(a))
Away       == UNCHANGED <<Key, OnAir, Data, seen>> /\ notice' = {}

\* A step reloads, is away from the map looked at, or renders with an answer or
\* without one.
LEMMA StepsAnswer ==
  ASSUME IInv, Next
  PROVE  Reload \/ Away \/ Committing
<1>1. ASSUME NEW f, NEW z, Commit(FALSE, f, z), data' = data
      PROVE  Committing
  <2>1. Key' = Key => Data' = Data
    BY <1>1 DEF Key, Data
  <2> QED
    BY <1>1, <2>1 DEF Unanswered, Committing
<1>2. BeginLayouts \/ EndLayouts \/ SetZone \/ ListAnswers => Committing
  BY <1>1 DEF BeginLayouts, EndLayouts, SetZone, ListAnswers, Render, Queries
<1>3. \A because : AskList(because) \/ AskGraph(because) => Committing
  BY <1>1 DEF AskList, AskGraph, Render
<1>4. /\ \A f \in Fabrics : Select(f) => Committing
      /\ \A t \in Times : SetTime(t) => Committing
  BY <1>1 DEF Select, SetTime, Render
<1>5. ASSUME NEW k \in Keys, Forget(k)
      PROVE  Committing
  <2>1. UNCHANGED <<Key, Fabric>>
    BY <1>5 DEF Forget, Page, Key, Fabric, Rows, Resolve
  <2>2. Fabric # None => data'[Key] = data[Key]
    BY <1>5, FabricIsListed DEF Forget, IInv, TypeOK, Looked
  <2>3. Data' = Data
    BY <2>1, <2>2 DEF Data
  <2>4. Commit(FALSE, FALSE, FALSE)
    BY <1>5 DEF Forget, Render
  <2> QED
    BY <2>3, <2>4 DEF Unanswered, Committing
<1>6. CASE GraphAnswers
  <2>1. UNCHANGED <<log, chosen, time, list>>
    BY <1>6 DEF GraphAnswers, server, Page
  <2>2. CASE Commit(FALSE, TRUE, FALSE) /\ data' = data
    BY <2>2, <1>1
  <2>3. CASE /\ Commit(TRUE, FALSE, FALSE)
             /\ \E is \in Resolved(Fabric, time) : data' = [data EXCEPT ![Key] = is]
    BY <2>1, <2>3 DEF Answering, Committing
  <2> QED
    BY <1>6, <2>2, <2>3 DEF GraphAnswers
<1>7. Elsewhere => Away
  BY DEF Away, Elsewhere, Page, Queries, Key, OnAir, Data, Fabric, Rows, Resolve
<1>8. /\ Down \/ Up => Elsewhere
      /\ \A f \in Fabrics, h \in 1 .. MaxSweeps : Sweep(f, h) => Elsewhere
  BY DEF Down, Up, Sweep
<1> QED
  BY <1>2, <1>3, <1>4, <1>5, <1>6, <1>7, <1>8
     DEF Next, LoadList, PollList, LoadGraph, PollGraph, Focus

\* The effect of a notice leaves it on the answer that the render drew.
LEMMA SeenKept == IInv /\ SeenIsDrawn /\ [Next]_vars => SeenIsDrawn'
<1> SUFFICES ASSUME IInv, SeenIsDrawn, [Next]_vars, OnAir', Data' # None
             PROVE  seen' = Data'
  BY DEF SeenIsDrawn
<1>1. CASE Reload
  BY <1>1 DEF Reload, Data, Fabric, Rows, Resolve
<1>2. CASE Away
  BY <1>2 DEF Away, SeenIsDrawn
<1>3. ASSUME NEW a \in BOOLEAN, NEW f, NEW z, Commit(a, f, z), Unanswered(a) \/ Answering(a)
      PROVE  seen' = Data'
  <2>1. CASE a \/ z \/ Key' # Key \/ OnAir' # OnAir
    BY <1>3, <2>1 DEF Commit, Notify, Compared
  <2>2. CASE ~a /\ ~z /\ Key' = Key /\ OnAir' = OnAir
    <3>1. Data' = Data
      BY <1>3, <2>2 DEF Unanswered, Answering
    <3>2. seen' = seen
      BY <1>3, <2>2 DEF Commit, Notify
    <3> QED
      BY <2>2, <3>1, <3>2 DEF SeenIsDrawn
  <2> QED
    BY <2>1, <2>2
<1>4. CASE UNCHANGED vars
  BY <1>4 DEF vars, SeenIsDrawn, OnAir, Data, Key, Fabric, Rows, Resolve
<1> QED
  BY <1>1, <1>2, <1>3, <1>4, StepsAnswer DEF Committing

\* What a notice compares with is the answer drawn, in every reachable state.
LEMMA SeenThroughout == Spec => []SeenIsDrawn
<1>1. Init => SeenIsDrawn
  BY DEF Init, SeenIsDrawn, OnAir, Fabric, Rows, Resolve
<1> QED
  BY <1>1, SeenKept, Inductive, PTL DEF Spec

\* An answer to a live question is no older than the one drawn.
LEMMA AnswersAdvance ==
  ASSUME IInv, Answering(TRUE), OnAir, Data # None, Key' = Key
  PROVE  Data \in Nat /\ Data' \in Nat /\ Data <= Data'
<1>1. Key \in Keys /\ Fabric # None /\ Data = data[Key]
  BY FabricIsListed DEF IInv, Looked, Data
<1>2. OfFabric(Data, Fabric) /\ Data \in Nat
  BY AnswerIsOfFabric, <1>1 DEF IInv, DataIsOfFabric, TypeOK, OfFabric
<1>3. PICK is \in Resolved(Fabric, time) : data' = [data EXCEPT ![Key] = is]
  BY DEF Answering
<1>4. is \in Latest(Fabric, Len(log)) /\ Len(log) \in Nat /\ DOMAIN log = 1 .. Len(log)
  BY <1>3 DEF Resolved, OnAir, IInv, TypeOK
<1>5. Data <= is /\ is \in Nat
  BY <1>2, <1>4 DEF Latest, OfFabric
<1>6. Fabric' = Fabric
  BY DEF Answering, Fabric, Rows
<1>7. Data' = is
  BY <1>1, <1>3, <1>6 DEF Data, IInv, TypeOK
<1> QED
  BY <1>2, <1>5, <1>7

\* A notice says what happened between the two answers it compares, in whatever
\* order fabrics, times, zones, answers and failures come (usePollNotice.ts 3-7).
THEOREM NoticesTell == Spec => NoticeTells
<1>1. ASSUME IInv, SeenIsDrawn, Next, Key' = Key, Data # None, Data' # None
      PROVE  /\ "changed" \in notice' => log[Data'] # log[Data]
             /\ "quiet" \in notice'   => log[Data'] = log[Data] /\ Data' > Data
             /\ "same" \in notice'    => Data' = Data
  <2>1. ~Reload
    BY <1>1 DEF Reload, Data, Fabric, Rows, Resolve
  <2>2. CASE Away
    BY <2>2 DEF Away
  <2>3. CASE ~ \E v \in {"changed", "quiet", "same"} : v \in notice'
    BY <2>3
  <2>4. ASSUME NEW a \in BOOLEAN, NEW f, NEW z, Commit(a, f, z), Unanswered(a) \/ Answering(a),
               \E v \in {"changed", "quiet", "same"} : v \in notice'
        PROVE  /\ "changed" \in notice' => log[Data'] # log[Data]
               /\ "quiet" \in notice'   => log[Data'] = log[Data] /\ Data' > Data
               /\ "same" \in notice'    => Data' = Data
    <3>1. Notify(a, f, z)
      BY <2>4 DEF Commit
    <3>2. /\ OnAir' /\ OnAir' = OnAir /\ seen # None
          /\ notice' \subseteq {Verdict(seen, Data'), "failed"}
      BY <2>4, <3>1 DEF Notify
    <3>3. seen = Data
      BY <1>1, <3>2 DEF SeenIsDrawn
    <3>4. Data \in Nat /\ Data' \in Nat /\ Data <= Data'
      <4>1. CASE Unanswered(a)
        <5>1. Data' = Data
          BY <1>1, <4>1 DEF Unanswered
        <5>2. Data \in Nat
          BY <1>1, AnswerIsOfFabric DEF IInv, DataIsOfFabric, OfFabric, TypeOK
        <5> QED
          BY <5>1, <5>2
      <4>2. CASE Answering(a)
        BY <1>1, <3>2, <4>2, AnswersAdvance DEF Answering
      <4> QED
        BY <2>4, <4>1, <4>2
    <3> QED
      BY <3>2, <3>3, <3>4 DEF Verdict
  <2> QED
    BY <1>1, <2>1, <2>2, <2>3, <2>4, StepsAnswer DEF Committing
<1> QED
  BY <1>1, Inductive, SeenThroughout, PTL DEF Spec, NoticeTells
=============================================================================
