------------------------------- MODULE Session -------------------------------
(***************************************************************************)
(* A tab of the browser from its start: which fabric it looks at, which    *)
(* screen it shows while the list of fabrics, the graph and the saved      *)
(* layouts load and polls fail, and what it says of its polls.             *)
(*                                                                         *)
(* Every step ends in a commit (Render): what the hooks derive, then their *)
(* effects.  The effect that reloads the layouts and the promise it makes  *)
(* run before the next event; whether the tab is drawn between the two is  *)
(* React's choice.  The query library is external: one request at a time   *)
(* for what is looked at, dropped when something else is.  Compare mode    *)
(* asks another query in the same way, and is left out.                    *)
(***************************************************************************)
EXTENDS Integers, Sequences, FiniteSets

CONSTANTS
  Fabrics,
  First,     \* of some fabrics, the one the API lists first
  Links,     \* the addresses the tab is opened with: fabric and time
  Times,     \* TimeStates the user goes to: live, or a point at an instant
  None,
  MaxSweeps, \* bound: sweeps recorded
  MaxDowns   \* bound: times the API goes away

ASSUME SessionAssumption ==
  /\ MaxSweeps \in Nat /\ MaxDowns \in Nat
  /\ None \notin Fabrics \cup Nat
  /\ None \notin [fabric : Fabrics, placed : Fabrics \cup {None}]
  /\ \A some \in (SUBSET Fabrics) \ {{}} : First[some] \in some
  /\ \A l \in Links : l.time \in Times

VARIABLES
  log,       \* the sweeps recorded: fabric and topology_hash of each
  up,        \* the API answers
  downs,
  url,       \* the parameters fabric and time of the address
  last,      \* the fabric this browser looked at last, in localStorage
  chosen,
  time,      \* TimeState
  list,      \* the fabrics query: its data, its error, the request under way
  listErr,
  listFetch,
  data,      \* the graph queries, by fabric and time: resolved sweep, error
  err,
  fetch,     \* the request under way for the graph looked at
  held,      \* lastModel
  layoutsOf, \* the fabric of the layouts in state
  loaded,
  core,      \* the Cytoscape core: the fabric in it, whose layout placed it
  seen,      \* usePollNotice: the last answer compared
  notice     \* the toasts of the last commit

server == <<log, up, downs>>
vars == <<log, up, downs, url, last, chosen, time, list, listErr, listFetch,
          data, err, fetch, held, layoutsOf, loaded, core, seen, notice>>

Keys    == Fabrics \X Times
Nothing == [k \in Keys |-> None]

-----------------------------------------------------------------------------
(* The server.                                                             *)

Recorded(f) == \E k \in DOMAIN log : log[k].fabric = f

\* The fabrics with a completed sweep.
Answered == {f \in Fabrics : Recorded(f)}

\* The newest sweep of f at or before k, if there is one.
Latest(f, k) ==
  {j \in DOMAIN log : /\ j <= k /\ log[j].fabric = f
                      /\ \A i \in DOMAIN log : j < i /\ i <= k => log[i].fabric # f}

\* The sweep an answer is resolved to; none for 404.
Resolved(f, t) == Latest(f, IF t.mode = "point" THEN t.at ELSE Len(log))

-----------------------------------------------------------------------------
(* What the hooks derive.                                                  *)

\* "Resolve against the list rather than trusting the name."
Resolve(name, names) ==
  IF name \in names THEN name ELSE IF names # {} THEN First[names] ELSE None

Rows   == IF list = None THEN {} ELSE list
Fabric == Resolve(chosen, Rows)
Key    == <<Fabric, time>>
Data   == IF Fabric = None THEN None ELSE data[Key]

\* A request for what has no data yet clears the error of the one before it.
ListError == IF list = None /\ listFetch THEN None ELSE listErr
Error     == IF Fabric = None \/ (Data = None /\ fetch) THEN None ELSE err[Key]

\* Mutant: the last model is drawn whatever it is of.
MutHeldModel == IF held # None THEN held.model ELSE None

\* The model of this fabric drawn last.
HeldModel == IF held # None /\ held.fabric = Fabric THEN held.model ELSE None

Model == IF Data # None THEN Data ELSE HeldModel

\* Mutant: a failed poll is shown whatever is drawn.
MutScreen ==
  IF (ListError # None /\ Fabric = None) \/ Error # None THEN "failed"
  ELSE IF list = {} /\ ListError = None THEN "empty"
  ELSE IF Model = None \/ ~loaded THEN "loading"
  ELSE "map"

Screen ==
  IF (ListError # None /\ Fabric = None) \/ (Error # None /\ Model = None) THEN "failed"
  ELSE IF list = {} /\ ListError = None THEN "empty"
  ELSE IF Model = None \/ ~loaded THEN "loading"
  ELSE "map"

\* The live topology is what is looked at.
OnAir == Fabric # None /\ time.mode = "live"

\* Mutant: the first fabric goes without saying.
MutNamed(f, names) == IF f # First[names] THEN f ELSE None

\* The fabric is named in the address when there is a choice to record.
Named(f, names) == IF names # {f} THEN f ELSE None

Verdict(was, is) ==
  IF log[was] # log[is] THEN "changed" ELSE IF was # is THEN "quiet" ELSE "same"

-----------------------------------------------------------------------------
(* Effects of a commit.                                                    *)

\* useFabric and TimeProvider each write the parameter they own.
WriteAddress ==
  LET moved == Fabric' # None /\ (Fabric' # Fabric \/ Cardinality(Rows') # Cardinality(Rows))
  IN  /\ last' = IF moved THEN Fabric' ELSE last
      /\ url' = [fabric |-> IF moved THEN Named(Fabric', Rows') ELSE url.fabric,
                 time   |-> time']

\* GraphView is mounted with the map; the elements of another fabric are all
\* newcomers, put where the layout in state has them.
Draw ==
  core' = IF Screen' # "map" THEN None
          ELSE IF core # None /\ core.fabric = Fabric' THEN core
          ELSE [fabric |-> Fabric', placed |-> layoutsOf']

\* Mutant: what a poll that brought nothing new answered is not remembered.
MutCompared(was, is) == IF was = None \/ log[was] # log[is] THEN is ELSE was

\* seen.current, after an answer was compared.
Compared(was, is) == is

\* usePollNotice: `answered` and `failed` say what became of a request for what
\* is looked at, `zoned` that the display zone changed.
Notify(answered, failed, zoned) ==
  LET turned == OnAir' # OnAir
      before == IF turned THEN None ELSE seen
      runs   == turned \/ answered \/ zoned \/ Key' # Key
      read   == OnAir' /\ runs /\ Data' # None
  IN  /\ seen' = IF read THEN Compared(before, Data') ELSE before
      /\ notice' = (IF read /\ before # None THEN {Verdict(before, Data')} ELSE {})
                   \cup (IF OnAir' /\ Error' # None /\ (turned \/ failed \/ Key' # Key)
                           THEN {"failed"} ELSE {})

Commit(answered, failed, zoned) ==
  /\ held' = IF Data' # None THEN [fabric |-> Fabric', model |-> Data'] ELSE held
  /\ WriteAddress
  /\ Draw
  /\ Notify(answered, failed, zoned)

Render == Commit(FALSE, FALSE, FALSE)

-----------------------------------------------------------------------------
(* Events.  The layouts of a new fabric are read before the next one.      *)

Settled == Fabric = None \/ layoutsOf = Fabric

Queries == <<list, listErr, listFetch, data, err, fetch>>
Page    == <<chosen, time, layoutsOf, loaded>>

BeginLayouts ==
  /\ ~Settled /\ loaded
  /\ loaded' = FALSE
  /\ UNCHANGED <<server, Queries, chosen, time, layoutsOf>>
  /\ Render

EndLayouts ==
  /\ ~Settled
  /\ layoutsOf' = Fabric /\ loaded' = TRUE
  /\ UNCHANGED <<server, Queries, chosen, time>>
  /\ Render

\* The list of fabrics is asked for once, and while it is empty.
ListLoad == list = None /\ listErr = None

ListPolls == list = {}

\* Coming back to the tab asks again for what is stale.
ListStale == list = None

AskList(because) ==
  /\ Settled /\ ~listFetch /\ because
  /\ listFetch' = TRUE
  /\ UNCHANGED <<server, Page, list, listErr, data, err, fetch>>
  /\ Render

ListAnswers ==
  /\ Settled /\ listFetch
  /\ listFetch' = FALSE
  /\ IF up THEN list' = Answered /\ listErr' = None
           ELSE UNCHANGED list /\ listErr' = "down"
  /\ UNCHANGED <<server, Page, data, err, fetch>>
  /\ Render

GraphLoad == Data = None /\ err[Key] = None

\* Mutant: a historical answer and a live one are kept alike.
MutPolls(t) == FALSE

\* refetchInterval: a pinned answer never changes.
Polls(t) == t.mode # "point"

GraphStale == Data = None \/ Polls(time)

AskGraph(because) ==
  /\ Settled /\ Fabric # None /\ ~fetch /\ because
  /\ fetch' = TRUE
  /\ UNCHANGED <<server, Page, list, listErr, listFetch, data, err>>
  /\ Render

\* A request that fails is tried twice more, which shows nowhere; a 404 is an
\* answer and is not.
GraphAnswers ==
  /\ Settled /\ fetch
  /\ fetch' = FALSE
  /\ UNCHANGED <<server, Page, list, listErr, listFetch>>
  /\ \/ \E is \in Resolved(Fabric, time) :
           /\ up
           /\ data' = [data EXCEPT ![Key] = is]
           /\ err' = [err EXCEPT ![Key] = None]
           /\ Commit(TRUE, FALSE, FALSE)
     \/ /\ ~up \/ Resolved(Fabric, time) = {}
        /\ err' = [err EXCEPT ![Key] = IF up THEN "404" ELSE "down"]
        /\ UNCHANGED data
        /\ Commit(FALSE, TRUE, FALSE)

\* An answer nobody looks at is dropped in the end.
Forget(k) ==
  /\ Settled /\ k # Key /\ (data[k] # None \/ err[k] # None)
  /\ data' = [data EXCEPT ![k] = None]
  /\ err' = [err EXCEPT ![k] = None]
  /\ UNCHANGED <<server, Page, list, listErr, listFetch, fetch>>
  /\ Render

\* The controls are on the map.
Select(f) ==
  /\ Settled /\ Screen = "map" /\ f # Fabric
  /\ f \in Rows
  /\ chosen' = f /\ fetch' = FALSE
  /\ UNCHANGED <<server, time, layoutsOf, loaded, list, listErr, listFetch, data, err>>
  /\ Render

SetTime(t) ==
  /\ Settled /\ Screen = "map" /\ t # time
  /\ time' = t /\ fetch' = FALSE
  /\ UNCHANGED <<server, chosen, layoutsOf, loaded, list, listErr, listFetch, data, err>>
  /\ Render

SetZone ==
  /\ Settled /\ Screen = "map"
  /\ UNCHANGED <<server, Page, Queries>>
  /\ Commit(FALSE, FALSE, TRUE)

\* The page is loaded again from its address; another tab may have looked at
\* another fabric meanwhile.
Reload ==
  /\ Settled
  /\ last' \in {last} \cup {f \in Fabrics : Recorded(f)}
  /\ chosen' = IF url.fabric # None THEN url.fabric ELSE last'
  /\ time' = url.time
  /\ list' = None /\ listErr' = None /\ listFetch' = FALSE
  /\ data' = Nothing /\ err' = Nothing /\ fetch' = FALSE
  /\ held' = None /\ layoutsOf' = None /\ loaded' = FALSE
  /\ core' = None /\ seen' = None /\ notice' = {}
  /\ UNCHANGED <<server, url>>

-----------------------------------------------------------------------------
(* What happens elsewhere.                                                 *)

Elsewhere == UNCHANGED <<Page, Queries, held, core, seen, url>> /\ notice' = {}

\* The first topology is called 1: only which sweeps share one matters.
Sweep(f, hash) ==
  /\ Len(log) < MaxSweeps /\ hash <= Len(log) + 1
  /\ log' = Append(log, [fabric |-> f, hash |-> hash])
  /\ UNCHANGED <<up, downs, last>>
  /\ Elsewhere

Down ==
  /\ up /\ downs < MaxDowns
  /\ up' = FALSE /\ downs' = downs + 1
  /\ UNCHANGED <<log, last>>
  /\ Elsewhere

Up ==
  /\ ~up
  /\ up' = TRUE
  /\ UNCHANGED <<log, downs, last>>
  /\ Elsewhere

-----------------------------------------------------------------------------
Init ==
  /\ log = <<>> /\ up = TRUE /\ downs = 0
  /\ url \in Links
  /\ last \in Fabrics \cup {None}
  /\ chosen = IF url.fabric # None THEN url.fabric ELSE last
  /\ time = url.time
  /\ list = None /\ listErr = None /\ listFetch = FALSE
  /\ data = Nothing /\ err = Nothing /\ fetch = FALSE
  /\ held = None /\ layoutsOf = None /\ loaded = FALSE
  /\ core = None /\ seen = None /\ notice = {}

LoadList  == AskList(ListLoad)
PollList  == AskList(ListPolls)
LoadGraph == AskGraph(GraphLoad)
PollGraph == AskGraph(Polls(time))
Focus     == AskList(ListStale) \/ AskGraph(GraphStale)

Next ==
  \/ BeginLayouts \/ EndLayouts
  \/ LoadList \/ PollList \/ ListAnswers
  \/ LoadGraph \/ PollGraph \/ GraphAnswers
  \/ Focus
  \/ \E k \in Keys : Forget(k)
  \/ \E f \in Fabrics : Select(f)
  \/ \E t \in Times : SetTime(t)
  \/ SetZone
  \/ Reload
  \/ \E f \in Fabrics, hash \in 1 .. MaxSweeps : Sweep(f, hash)
  \/ Down \/ Up

\* The layouts are read, the first question and the polls are asked, requests
\* end, and the API comes back; nobody need come back to the tab.
Fairness ==
  /\ WF_vars(EndLayouts)
  /\ WF_vars(LoadList \/ PollList \/ ListAnswers)
  /\ WF_vars(LoadGraph \/ PollGraph \/ GraphAnswers)
  /\ WF_vars(Up)

Spec == Init /\ [][Next]_vars /\ Fairness
-----------------------------------------------------------------------------
(* Properties.                                                             *)

SweepRow == [fabric : Fabrics, hash : Nat]

\* Type invariant: sweeps, instants, the list and what is kept are of their
\* kinds (types.ts, queries.ts).
TypeOK ==
  /\ log \in Seq(SweepRow)
  /\ time \in Times /\ url.time \in Times
  /\ list = None \/ list \subseteq Fabrics
  /\ layoutsOf \in Fabrics \cup {None}
  /\ data \in [Keys -> Nat \cup {None}]

\* A core lives exactly as long as the map is on screen (App.tsx 215-229), and
\* "carrying one fabric's graph across a switch would draw it under the other
\* fabric's name" (App.tsx 127-132): the model on screen and the core are of the
\* fabric named.
NeverTheOtherFabric ==
  /\ TypeOK
  /\ core # None <=> Screen = "map"
  /\ Screen = "map" => log[Model].fabric = Fabric /\ core.fabric = Fabric

\* "A single bad poll would blank the graph and throw away every position,
\* selection and collapsed group" (App.tsx 215-218): whatever fails or is asked,
\* the core on screen is the one that was, and so is what is drawn.
GraphSurvivesBadPolls ==
  [][core # None /\ data' = data /\ Key' = Key /\ list' = list
     /\ layoutsOf' = layoutsOf /\ loaded' = loaded
       => core' = core /\ Model' = Model]_vars

\* A link opened in any browser, whatever it looked at last, leads to the fabric
\* and the time on screen, as long as the list of fabrics has not grown
\* (useFabric.ts 35-44, fabric/url.ts 3-5).
LinkLeadsHere ==
  Fabric # None =>
    \A other \in Fabrics \cup {None} :
      Resolve(IF url.fabric # None THEN url.fabric ELSE other, Rows) = Fabric

\* What a notice says of a poll of a fabric already drawn is what happened
\* between the two answers (usePollNotice.ts 3-7).
NoticeTells ==
  [][Key' = Key /\ Data # None /\ Data' # None =>
       /\ "changed" \in notice' => log[Data'] # log[Data]
       /\ "quiet" \in notice'   => log[Data'] = log[Data] /\ Data' > Data
       /\ "same" \in notice'    => Data' = Data]_vars

\* "This screen replaces itself with the map once the first sweep lands"
\* (App.tsx 329-332); a list that was read, and a fabric in it, end in a map.
LiveGetsItsMap ==
  (list # None /\ log # <<>> /\ time.mode = "live")
    ~> (Screen = "map" \/ list = None \/ time.mode # "live")

\* The live map does not stay behind: whatever polls failed, it comes to show
\* the newest sweep of its fabric (queries.ts live, refetchInterval).
LiveCatchesUp ==
  \A f \in Fabrics :
    (OnAir /\ Fabric = f) ~> (~OnAir \/ Fabric # f \/ Data \in Latest(f, Len(log)))

\* Live means live: the first map comes, and the newest after it.
LiveIsLive == LiveGetsItsMap /\ LiveCatchesUp

\* "So the graph builds with the active one already resolved instead of
\* flashing an fcose pass first" (App.tsx 223-224): the elements of a fabric are
\* placed by the layouts of that fabric.
BuildsOnItsLayout == core # None => core.placed = core.fabric
=============================================================================
