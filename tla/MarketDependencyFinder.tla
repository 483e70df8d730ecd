----------------------- MODULE MarketDependencyFinder -----------------------
(***************************************************************************)
(* containers/source/market_dependency_finder.cpp: collects who depends on *)
(* whose price, turns that into a graph of price and demand calculations,  *)
(* sorts the graph into one global ordering, breaks cycles by creating     *)
(* trial price and demand markets, and answers which calculations a solver *)
(* has to repeat when the price of one market changes.                     *)
(*                                                                         *)
(* A vertex is the number mUID.  An item stands for one DependencyItem,    *)
(* that is for a name in a region.  mOutEdges of all the vertices together *)
(* are the set edges; "kind" tells apart the edges the code would hold     *)
(* twice in one mOutEdges vector.                                          *)
(***************************************************************************)
EXTENDS Integers, Sequences, FiniteSets

CONSTANTS
    Item,            \* <<name, region>> pairs
    Activity,        \* records [item, priced]: what the regions may register
    Declaration,     \* records [dependent, dependency, canBreak] completeInit may add
    Required,        \* declarations the objects make whatever their input says
    LandAllocator,   \* the items named "land-allocator"
    FixedOutput,     \* the items named "...-fixed-output"
    Market,          \* market numbers
    NoMarket,        \* MarketLocator::MARKET_NOT_FOUND
    MarketOf,        \* item -> the market the locator finds for it
    Solved,          \* markets some period >= 1 of which is solvable
    Normal           \* markets of type NORMAL, period 1 not solvable, simulActive

ASSUME ConstantsAssumption ==
    /\ IsFiniteSet(Activity) /\ IsFiniteSet(Item)
    /\ \A a \in Activity : a.item \in Item /\ a.priced \in BOOLEAN
    /\ \A d \in Declaration : /\ d.dependent \in Item /\ d.dependency \in Item
                              /\ d.canBreak \in BOOLEAN
    /\ Required \subseteq Declaration
    /\ \A l \in LandAllocator : \E a \in Activity : a.item = l
    /\ LandAllocator \subseteq Item /\ FixedOutput \subseteq Item
    /\ NoMarket \notin Market /\ MarketOf \in [Item -> Market \cup {NoMarket}]
    /\ Solved \subseteq Market /\ Normal \subseteq Market

Priced(i) == \E a \in Activity : a.item = i /\ a.priced

\* What the objects keep to: land allocators and fixed outputs have no price, a
\* NORMAL market is solved in all periods after the first or in none, and an
\* item without a price (a resource, a final demand) does not both depend on
\* something and have dependents, unless the solver sets the price.
ASSUME ConfigurationAssumption ==
    /\ \A l \in LandAllocator \cup FixedOutput : ~Priced(l)
    /\ Solved \cap Normal = {}
    /\ \A c, d \in Declaration :
          LET i == c.dependent
              j == d.dependency
          IN  /\ i # c.dependency /\ j # d.dependent
              /\ i = j \/ (MarketOf[i] = MarketOf[j] /\ MarketOf[i] # NoMarket)
              /\ ~Priced(i) /\ \E a \in Activity : a.item = i
              => /\ MarketOf[i] \in Solved
                 /\ \A e \in Declaration : e.dependency = i => e.canBreak

VARIABLES
    phase,             \* where createOrdering is, or how the program ended
    registered,        \* activities handed over so far
    mDependencyItems,  \* items mentioned so far
    mDependentList,    \* item -> items to recalculate after it
    mCanBreakCycle,    \* item -> may trial markets cut it loose
    mHasSelfDependence,\* items that asked for trial markets themselves
    mDemandVertices,   \* item -> sequence of vertices, in registration order
    mPriceVertices,
    mCalcVertexUIDCount,
    edges,             \* [from, to, kind]
    numDependencies,   \* uncleared vertex -> open dependencies
    toSplit,           \* self dependent items still without trial markets
    trials,            \* markets that were reset to price markets
    justRemoved,       \* vertices the current pass cleared and has not listed
    mGlobalOrdering,
    totalVisits,       \* vertices known to lie on cycles
    mIndexed,          \* vertices Tarjan's search has numbered (mIndex # -1)
    mImpliedVertices,  \* market entry -> entry points into the graph
    mCalcList          \* market entry -> cached partial ordering

registration == <<registered, mDependencyItems, mDependentList, mCanBreakCycle,
                  mHasSelfDependence, mDemandVertices, mPriceVertices,
                  mCalcVertexUIDCount>>
sorting == <<numDependencies, justRemoved, mGlobalOrdering>>
breaking == <<toSplit, trials, totalVisits, mIndexed>>
vars == <<phase, registration, edges, sorting, breaking, mImpliedVertices, mCalcList>>

Vertices == 0..(mCalcVertexUIDCount - 1)
Listed == {mGlobalOrdering[j] : j \in DOMAIN mGlobalOrdering}
Uncleared == DOMAIN numDependencies
Edge(u, v, k) == [from |-> u, to |-> v, kind |-> k]

\* A market keeps its number when it becomes the price market; the demand
\* market created beside it has an entry of its own.
Entry(m, side) == <<m, side>>

-----------------------------------------------------------------------------
(* Collecting dependencies and activities                                  *)

Init ==
    /\ phase = "collect"
    /\ registered = {} /\ mDependencyItems = {}
    /\ mDependentList = [i \in Item |-> {}]
    /\ mCanBreakCycle = [i \in Item |-> TRUE]
    /\ mHasSelfDependence = {}
    /\ mDemandVertices = [i \in Item |-> <<>>]
    /\ mPriceVertices = [i \in Item |-> <<>>]
    /\ mCalcVertexUIDCount = 0
    /\ edges = {} /\ numDependencies = <<>>
    /\ toSplit = {} /\ trials = {}
    /\ justRemoved = {} /\ mGlobalOrdering = <<>>
    /\ totalVisits = {} /\ mIndexed = {}
    /\ mImpliedVertices = <<>> /\ mCalcList = <<>>

AddDependency(d) ==
    /\ phase = "collect"
    /\ mDependencyItems' = mDependencyItems \cup {d.dependent, d.dependency}
    /\ IF d.dependent = d.dependency
       THEN /\ mHasSelfDependence' = mHasSelfDependence \cup {d.dependent}
            /\ UNCHANGED <<mDependentList, mCanBreakCycle>>
       ELSE /\ mCanBreakCycle' = [mCanBreakCycle EXCEPT ![d.dependency] = @ /\ d.canBreak]
            /\ mDependentList' = [mDependentList EXCEPT ![d.dependency] = @ \cup {d.dependent}]
            /\ UNCHANGED mHasSelfDependence
    /\ UNCHANGED <<phase, registered, mDemandVertices, mPriceVertices, mCalcVertexUIDCount,
                   edges, sorting, breaking, mImpliedVertices, mCalcList>>

\* Mutant: the counter is read for the price vertex but not advanced.
CountAfterDemand(a) == mCalcVertexUIDCount + 1

\* Every CalcVertex takes a number of its own.
CountAfter(a) == mCalcVertexUIDCount + IF a.priced THEN 2 ELSE 1

\* The demand vertex takes the first number, the price vertex the next one.  A
\* region registers its sectors before the final demands of the same name.
ResolveActivityToDependency(a) ==
    /\ phase = "collect" /\ a \notin registered
    /\ ~a.priced => \A b \in Activity \ registered : b.item = a.item => ~b.priced
    /\ registered' = registered \cup {a}
    /\ mDependencyItems' = mDependencyItems \cup {a.item}
    /\ mDemandVertices' = [mDemandVertices EXCEPT ![a.item] = Append(@, mCalcVertexUIDCount)]
    /\ mPriceVertices' = IF a.priced
                         THEN [mPriceVertices EXCEPT ![a.item] = Append(@, mCalcVertexUIDCount + 1)]
                         ELSE mPriceVertices
    /\ mCalcVertexUIDCount' = CountAfter(a)
    /\ UNCHANGED <<phase, mDependentList, mCanBreakCycle, mHasSelfDependence,
                   edges, sorting, breaking, mImpliedVertices, mCalcList>>

-----------------------------------------------------------------------------
(* createOrdering: markets, dependents and edges                           *)

HasPrice(i) == mPriceVertices[i] # <<>>
HasDemand(i) == mDemandVertices[i] # <<>>
FirstPrice(i) == mPriceVertices[i][1]
LastPrice(i) == mPriceVertices[i][Len(mPriceVertices[i])]
FirstDemand(i) == mDemandVertices[i][Len(mDemandVertices[i])]
LastDemand(i) == mDemandVertices[i][1]

IsSolved(i) == MarketOf[i] \in Solved
Linked == {MarketOf[i] : i \in mDependencyItems} \ {NoMarket}

\* The items that share i's market and keep their dependencies.
Grouped(i) == {j \in mDependencyItems : /\ MarketOf[j] = MarketOf[i] /\ MarketOf[i] # NoMarket
                                        /\ ~IsSolved(j) \/ ~mCanBreakCycle[j]}

\* Mutant: a dependency on one region of a market stays with that region.
OwnDependents == mDependentList

\* Dependents of an item, once a dependency on one region of a market counts
\* for every region of it.
SharedDependents ==
    [i \in Item |-> mDependentList[i] \cup
                    IF i \in Grouped(i) THEN UNION {mDependentList[j] : j \in Grouped(i)} ELSE {}]

\* Several activities of one name form a chain: prices in order, demands backwards.
ChainEdges(i) ==
    {Edge(mPriceVertices[i][n], mPriceVertices[i][n + 1], "chain") :
        n \in 1..(Len(mPriceVertices[i]) - 1)} \cup
    {Edge(mDemandVertices[i][n + 1], mDemandVertices[i][n], "chain") :
        n \in 1..(Len(mDemandVertices[i]) - 1)}

\* A solved sector that sets supplies together with the land allocator.
LandEdges(i, dependents) ==
    IF ~IsSolved(i) \/ ~HasPrice(i) THEN {}
    ELSE UNION {{Edge(LastPrice(i), FirstDemand(l), "land"),
                 Edge(LastDemand(l), FirstDemand(i), "land")} : l \in dependents \cap LandAllocator}

PriceEdges(i, dependents) ==
    IF ~HasPrice(i) THEN {}
    ELSE {Edge(LastPrice(i), FirstPrice(d), "depend") : d \in {x \in dependents : HasPrice(x)}}
         \cup {Edge(LastPrice(i), FirstDemand(d), "depend") :
                  d \in {x \in dependents : ~HasPrice(x) /\ HasDemand(x)}}

DemandEdges(i, dependents) ==
    {Edge(LastDemand(d), FirstDemand(i), "depend") : d \in {x \in dependents : HasDemand(x)}}

\* A solved item is cut loose from its dependents, a tax has nothing to
\* calculate, and a final demand folds its price back on its own demand.
DependEdges(i, dependents) ==
    IF (IsSolved(i) /\ mCanBreakCycle[i]) \/ ~HasDemand(i) THEN {}
    ELSE IF dependents = {} /\ HasPrice(i)
         THEN {Edge(LastPrice(i), FirstDemand(i), "depend")}
         ELSE PriceEdges(i, dependents) \cup DemandEdges(i, dependents)

\* What the solver has to recalculate first when it changes a solved price.
EntryPoints(i, dependents) ==
    (IF HasPrice(i) THEN {FirstPrice(i)} ELSE {}) \cup
    (IF HasDemand(i) THEN {FirstDemand(i)} ELSE {}) \cup
    {FirstDemand(l) : l \in {x \in dependents \cap LandAllocator : ~HasPrice(i)}} \cup
    {IF HasPrice(d) THEN FirstPrice(d) ELSE FirstDemand(d) :
        d \in {x \in dependents \ LandAllocator : HasDemand(x)}}

Declared(d) == IF d.dependent = d.dependency THEN d.dependent \in mHasSelfDependence
               ELSE d.dependent \in mDependentList[d.dependency]

InDegree(E, v) == Cardinality({e \in E : e.to = v})

ConnectGraph ==
    /\ phase = "collect" /\ registered = Activity
    /\ \A d \in Required : Declared(d)
    /\ LET dependents == SharedDependents
           connected == UNION {ChainEdges(i) \cup LandEdges(i, dependents[i])
                                 \cup DependEdges(i, dependents[i]) : i \in mDependencyItems}
       IN  /\ mDependentList' = dependents
           /\ edges' = connected
           /\ numDependencies' = [v \in Vertices |-> InDegree(connected, v)]
           /\ mImpliedVertices' =
                 [k \in {Entry(m, "price") : m \in Linked} |->
                    UNION {EntryPoints(i, dependents[i]) :
                             i \in {j \in mDependencyItems : MarketOf[j] = k[1] /\ IsSolved(j)}}]
    /\ phase' = "split"
    /\ toSplit' = mHasSelfDependence
    /\ UNCHANGED <<registered, mDependencyItems, mCanBreakCycle, mHasSelfDependence,
                   mDemandVertices, mPriceVertices, mCalcVertexUIDCount, justRemoved,
                   mGlobalOrdering, trials, totalVisits, mIndexed, mCalcList>>

-----------------------------------------------------------------------------
(* createTrialsForItem                                                     *)

\* resetToPriceMarket succeeds for NORMAL markets, and only once.
CanReset(i) == MarketOf[i] \in Normal \ trials

DemandVertex(v) == \E i \in Item : \E n \in DOMAIN mDemandVertices[i] : mDemandVertices[i][n] = v
\* Mutant: the price vertex of the dependency item is looked at.
FixedPriceVertex(v) == \E i \in FixedOutput :
                          \E n \in DOMAIN mPriceVertices[i] : mPriceVertices[i][n] = v

FixedVertex(v) == \E i \in FixedOutput :
                     \E n \in DOMAIN mDemandVertices[i] : mDemandVertices[i][n] = v

\* Demand vertices the first demand vertex of i waits for.
Feeding(i) == {e \in edges : e.to = FirstDemand(i) /\ DemandVertex(e.from)}
KeptFixed(i) == {e.from : e \in {f \in Feeding(i) : FixedVertex(f.from)}}

\* Mutant: the fixed outputs are erased instead of the rest.
CutFixed(i) == {e \in Feeding(i) : FixedVertex(e.from)}

\* One edge out of each of them is erased, the one that was pushed first.
Cut(i) == {e \in Feeding(i) :
             /\ ~FixedVertex(e.from)
             /\ e.kind = "depend" => \A f \in Feeding(i) : f.from = e.from => f.kind = "depend"}
Released(i) == {e \in edges \ Cut(i) : e.from = LastPrice(i)}

\* Mutant: the count of the demand vertex is not reset.
CountsNotReset(i) ==
    LET d == FirstDemand(i)
        kept == [v \in Uncleared \cup {d} |->
                    IF v \in Uncleared THEN numDependencies[v] ELSE Cardinality(KeptFixed(i))]
    IN  [v \in DOMAIN kept |->
            kept[v] - Cardinality({e \in Released(i) : e.to = v})
              + IF v = d /\ FirstPrice(i) \in DOMAIN kept THEN 1 ELSE 0]

\* Mutant: the demand vertex does not wait for the trial price.
CountsWithoutPrice(i) ==
    [v \in Uncleared \cup {FirstDemand(i)} |->
        (IF v = FirstDemand(i) THEN Cardinality(KeptFixed(i)) ELSE numDependencies[v])
          - Cardinality({e \in Released(i) : e.to = v})]

\* The counts after the reset: the demand waits for the fixed outputs and, if
\* the price is still to come, for the price; whatever waited for the price
\* waits for one thing less.
SplitCounts(i) ==
    LET d == FirstDemand(i)
        reset == [v \in Uncleared \cup {d} |->
                    IF v = d THEN Cardinality(KeptFixed(i)) ELSE numDependencies[v]]
    IN  [v \in DOMAIN reset |->
            reset[v] - Cardinality({e \in Released(i) : e.to = v})
              + IF v = d /\ FirstPrice(i) \in DOMAIN reset THEN 1 ELSE 0]

\* Mutant: the trial price does not take over the edges out of the old one.
SplitImpliedAlone(i) ==
    LET old(k) == IF k \in DOMAIN mImpliedVertices THEN mImpliedVertices[k] ELSE {}
    IN  [k \in DOMAIN mImpliedVertices \cup {Entry(MarketOf[i], "demand")} |->
            old(k) \cup
            (IF k = Entry(MarketOf[i], "price") THEN {FirstPrice(i)}
             ELSE IF k = Entry(MarketOf[i], "demand") THEN {FirstDemand(i)} \cup KeptFixed(i)
             ELSE {})]

\* What the solver has to recalculate first for each of the two trial markets.
SplitImplied(i) ==
    LET price == Entry(MarketOf[i], "price")
        demand == Entry(MarketOf[i], "demand")
        old(k) == IF k \in DOMAIN mImpliedVertices THEN mImpliedVertices[k] ELSE {}
    IN  [k \in DOMAIN mImpliedVertices \cup {demand} |->
            old(k) \cup
            (IF k = price THEN {FirstPrice(i)} \cup {e.to : e \in Released(i)}
             ELSE IF k = demand THEN {FirstDemand(i)} \cup KeptFixed(i) ELSE {})]

CreateTrialsForItem(i) ==
    /\ CanReset(i) /\ HasPrice(i) /\ HasDemand(i)
    /\ trials' = trials \cup {MarketOf[i]}
    /\ edges' = (edges \ (Cut(i) \cup Released(i)))
                    \cup {Edge(LastPrice(i), FirstDemand(i), "trial")}
    /\ numDependencies' = SplitCounts(i)
    /\ mImpliedVertices' = SplitImplied(i)

\* abort() if the marketplace refuses; a market without a price calculation
\* has no first price vertex to read.
TrialsFail(i) ==
    /\ ~(CanReset(i) /\ HasPrice(i) /\ HasDemand(i))
    /\ phase' = IF CanReset(i) THEN "noVertex" ELSE "noTrial"
    /\ UNCHANGED <<registration, edges, sorting, breaking, mImpliedVertices, mCalcList>>

SplitSelfDependent(i) ==
    /\ phase = "split" /\ i \in toSplit
    /\ \/ /\ CreateTrialsForItem(i)
          /\ toSplit' = toSplit \ {i}
          /\ UNCHANGED <<phase, registration, justRemoved, mGlobalOrdering, totalVisits,
                         mIndexed, mCalcList>>
       \/ TrialsFail(i)

StartSort ==
    /\ phase = "split" /\ toSplit = {}
    /\ phase' = "sort"
    /\ UNCHANGED <<registration, edges, sorting, breaking, mImpliedVertices, mCalcList>>

-----------------------------------------------------------------------------
(* createOrdering: the topological sort                                    *)

Ready == {v \in Uncleared : numDependencies[v] = 0}

\* A pass takes every vertex without open dependencies out of the count map.
StartPass ==
    /\ phase = "sort" /\ justRemoved = {} /\ Ready # {}
    /\ justRemoved' = Ready
    /\ numDependencies' = [v \in Uncleared \ Ready |-> numDependencies[v]]
    /\ UNCHANGED <<phase, registration, edges, mGlobalOrdering, breaking,
                   mImpliedVertices, mCalcList>>

\* Mutant: a dependent is cleared without being listed once its count is zero.
ListRemovedClearing(v) ==
    /\ phase = "sort" /\ v \in justRemoved
    /\ \A w \in justRemoved : v <= w
    /\ justRemoved' = justRemoved \ {v}
    /\ mGlobalOrdering' = Append(mGlobalOrdering, v)
    /\ LET told(w) == Cardinality({e \in edges : e.from = v /\ e.to = w}) IN
       numDependencies' = [w \in {u \in Uncleared : told(u) = 0 \/ numDependencies[u] > told(u)}
                              |-> numDependencies[w] - told(w)]
    /\ UNCHANGED <<phase, registration, edges, breaking, mImpliedVertices, mCalcList>>

\* Then it lists them in the order of their numbers and tells their dependents.
ListRemoved(v) ==
    /\ phase = "sort" /\ v \in justRemoved
    /\ \A w \in justRemoved : v <= w
    /\ justRemoved' = justRemoved \ {v}
    /\ mGlobalOrdering' = Append(mGlobalOrdering, v)
    /\ numDependencies' = [w \in Uncleared |->
          numDependencies[w] - Cardinality({e \in edges : e.from = v /\ e.to = w})]
    /\ UNCHANGED <<phase, registration, edges, breaking, mImpliedVertices, mCalcList>>

Finish ==
    /\ phase = "sort" /\ justRemoved = {} /\ Uncleared = {}
    /\ phase' = "ordered"
    /\ UNCHANGED <<registration, edges, sorting, breaking, mImpliedVertices, mCalcList>>

-----------------------------------------------------------------------------
(* createOrdering: breaking a cycle                                        *)

\* Everything reachable from S along E, S included.
Reach(E, S) ==
    LET within[n \in Nat] ==
            IF n = 0 THEN S
            ELSE UNION {{v} \cup {e.to : e \in {f \in E : f.from = v}} : v \in within[n - 1]}
    IN  Vertices \cap within[Cardinality(Vertices)]
Inside(E, S) == {e \in E : e.from \in S /\ e.to \in S}
OnCycle(E, v) == \E e \in E : e.from = v /\ v \in Reach(E, {e.to})

\* findStronglyConnected: vertices that share a component with another vertex,
\* found from the uncleared vertices the search has not numbered before.
Searched == Reach(Inside(edges, Vertices \ mIndexed), Uncleared \ mIndexed)
StronglyConnected ==
    LET E == Inside(edges, Searched)
    IN  {v \in Searched : \E w \in Searched \ {v} : w \in Reach(E, {v}) /\ v \in Reach(E, {w})}

\* Nothing is ready: find the vertices on cycles, or keep those of an earlier
\* search that are still waiting.
FindCycles ==
    /\ phase = "sort" /\ justRemoved = {} /\ Uncleared # {} /\ Ready = {}
    /\ phase' = "break"
    /\ totalVisits' = IF totalVisits = {} THEN StronglyConnected ELSE totalVisits \cap Uncleared
    /\ mIndexed' = IF totalVisits = {} THEN mIndexed \cup Searched ELSE mIndexed
    /\ UNCHANGED <<registration, edges, sorting, toSplit, trials, mImpliedVertices, mCalcList>>

\* markCycles counts a visit for the vertices of "marked" from which a cycle
\* inside "marked" can be reached.
Visited(marked) ==
    LET E == Inside(edges, marked)
    IN  {v \in marked : \E w \in Reach(E, {v}) : OnCycle(E, w)}

Owns(i, v) == \/ \E n \in DOMAIN mPriceVertices[i] : mPriceVertices[i][n] = v
              \/ \E n \in DOMAIN mDemandVertices[i] : mDemandVertices[i][n] = v
Breakable(v) == \E i \in Item : Owns(i, v) /\ mCanBreakCycle[i]

\* Mutant: any marked vertex will do, however often it was visited.
BreakersUnvisited(marked) == {v \in marked : Breakable(v)}

\* Mutant: one visited vertex that may not be broken settles the search.
BreakersAllOrNone(marked) ==
    {v \in Visited(marked) : \A w \in Visited(marked) : Breakable(w)}

\* Every path through a vertex that is on no cycle also visits the cycles it
\* leads to, so it has fewer visits than a vertex on one of them.
Breakers(marked) ==
    LET E == Inside(edges, marked)
        candidates == {v \in Visited(marked) : Breakable(v)}
    IN  {v \in candidates : OnCycle(E, v) \/
            \A w \in candidates \cap Reach(E, {v}) : ~OnCycle(E, w)}

\* Which of these breakers has the most visits is left open.
BreakCycle ==
    /\ phase = "break"
    /\ \E v \in Breakers(totalVisits), i \in Item :
          /\ Owns(i, v)
          /\ \/ /\ CreateTrialsForItem(i)
                /\ phase' = "sort"
                /\ totalVisits' = totalVisits \ {FirstDemand(i), FirstPrice(i)}
                /\ UNCHANGED <<registration, justRemoved, mGlobalOrdering, toSplit, mIndexed,
                               mCalcList>>
             \/ TrialsFail(i)

\* Mutant: not finding a breakable vertex among those on cycles goes unnoticed.
GiveUpWithoutCycle ==
    /\ phase = "break" /\ Visited(totalVisits) = {}
    /\ phase' = "unbreakable"
    /\ UNCHANGED <<registration, edges, sorting, breaking, mImpliedVertices, mCalcList>>

\* exit( 1 ): no item on a cycle may be broken.
GiveUp ==
    /\ phase = "break" /\ Breakers(totalVisits) = {}
    /\ phase' = "unbreakable"
    /\ UNCHANGED <<registration, edges, sorting, breaking, mImpliedVertices, mCalcList>>

-----------------------------------------------------------------------------
(* getOrdering( market )                                                   *)

\* What the search from the entry points finds.  The list holds them in the
\* order of mGlobalOrdering.
PartialOrdering(k) == Listed \cap Reach(edges, mImpliedVertices[k])

\* The list is cached; an empty one is made again, with the same result.  A
\* market that no item is linked to ends the program.
GetOrdering(k) ==
    /\ phase = "ordered"
    /\ IF k \notin DOMAIN mImpliedVertices
       THEN phase' = "noMarket" /\ UNCHANGED mCalcList
       ELSE /\ mCalcList' = IF k \in DOMAIN mCalcList THEN mCalcList
                            ELSE [j \in DOMAIN mCalcList \cup {k} |->
                                    IF j = k THEN PartialOrdering(k) ELSE mCalcList[j]]
            /\ UNCHANGED phase
    /\ UNCHANGED <<registration, edges, sorting, breaking, mImpliedVertices>>

\* The markets a solver asks about: solved ones and the trial markets.
Asked == {Entry(m, "price") : m \in Solved \cup trials} \cup {Entry(m, "demand") : m \in trials}

-----------------------------------------------------------------------------
Ended == phase \in {"ordered", "unbreakable", "noTrial", "noVertex", "noMarket"}
Stop == Ended /\ UNCHANGED vars

Next ==
    \/ \E d \in Declaration : AddDependency(d)
    \/ \E a \in Activity : ResolveActivityToDependency(a)
    \/ ConnectGraph
    \/ \E i \in Item : SplitSelfDependent(i)
    \/ StartSort
    \/ StartPass
    \/ \E v \in Vertices : ListRemoved(v)
    \/ Finish
    \/ FindCycles
    \/ BreakCycle
    \/ GiveUp
    \/ \E k \in Asked : GetOrdering(k)
    \/ Stop

Spec == Init /\ [][Next]_vars

\* createOrdering is one uninterrupted call: once it has begun it keeps going.
Ordering == \/ \E i \in Item : SplitSelfDependent(i)
            \/ StartSort \/ StartPass \/ Finish \/ FindCycles \/ BreakCycle \/ GiveUp
            \/ \E v \in Vertices : ListRemoved(v)

FairSpec == Spec /\ WF_vars(Ordering)

-----------------------------------------------------------------------------
(* Properties                                                              *)

Phases == {"collect", "split", "sort", "break", "ordered",
           "unbreakable", "noTrial", "noVertex", "noMarket"}

\* The type of every variable; the uncleared, the just removed and the listed
\* vertices are all vertices.
TypeOK ==
    /\ phase \in Phases
    /\ registered \subseteq Activity
    /\ mDependencyItems \subseteq Item /\ mHasSelfDependence \subseteq Item
    /\ mDependentList \in [Item -> SUBSET Item]
    /\ mCanBreakCycle \in [Item -> BOOLEAN]
    /\ mCalcVertexUIDCount \in Nat
    /\ mDemandVertices \in [Item -> Seq(Vertices)] /\ mPriceVertices \in [Item -> Seq(Vertices)]
    /\ edges \subseteq [from : Vertices, to : Vertices, kind : {"chain", "land", "depend", "trial"}]
    /\ Uncleared \subseteq Vertices /\ numDependencies \in [Uncleared -> Int]
    /\ justRemoved \subseteq Vertices /\ mGlobalOrdering \in Seq(Vertices)
    /\ toSplit \subseteq Item /\ trials \subseteq Market
    /\ totalVisits \subseteq Vertices /\ mIndexed \subseteq Vertices
    /\ DOMAIN mImpliedVertices \subseteq Market \X {"price", "demand"}
    /\ mImpliedVertices \in [DOMAIN mImpliedVertices -> SUBSET Vertices]
    /\ DOMAIN mCalcList \subseteq DOMAIN mImpliedVertices
    /\ mCalcList \in [DOMAIN mCalcList -> SUBSET Vertices]

\* A sector nothing depends on asked for trial markets.  createTrialsForItem
\* loses count of its fold back edge (see the run self_dependent_end_use), so
\* the properties of the sort are stated for the other configurations.
EndUseSplit == \E i \in mHasSelfDependence : mDependentList[i] = {}

\* Through every restructuring by createTrialsForItem the count kept for an
\* uncleared vertex stays the number of its dependencies not yet listed.
CountsExact ==
    phase \in {"split", "sort", "break"} /\ ~EndUseSplit =>
        \A v \in Uncleared :
            numDependencies[v] = Cardinality({e \in edges : e.to = v /\ e.from \notin Listed})

\* A vertex is waiting, just removed, or listed, and only one of them: a
\* restructuring never puts a cleared demand back among the waiting ones.
ClearedOnce ==
    /\ Uncleared \cap (justRemoved \cup Listed) = {} /\ justRemoved \cap Listed = {}
    /\ Cardinality(Listed) = Len(mGlobalOrdering)
    /\ phase \in {"split", "sort", "break", "ordered"} =>
          Vertices = Uncleared \cup justRemoved \cup Listed

Before(u, v) == \A j \in DOMAIN mGlobalOrdering :
                    mGlobalOrdering[j] = v => \E i \in 1..(j - 1) : mGlobalOrdering[i] = u

\* In the global ordering every calculation comes after those it depends on.
DependenciesFirst == ~EndUseSplit => \A e \in edges : Before(e.from, e.to)

\* The comment in createTrialsForItem: "The price vertex still must be
\* calculated before the demand vertex".
TrialPriceFirst == \A e \in edges : e.kind = "trial" => Before(e.from, e.to)

\* The program only gives up on a cycle when no remaining cycle goes through an
\* item whose dependencies may be broken.
GivesUpOnlyOnUnbreakable ==
    phase = "unbreakable" /\ ~EndUseSplit =>
        LET E == Inside(edges, Uncleared)
        IN  /\ \E v \in Uncleared : OnCycle(E, v)
            /\ \A v \in Uncleared : OnCycle(E, v) => ~Breakable(v)

\* Sorting and splitting never reads the first vertex of an empty list and
\* never asks the marketplace for the trial markets of a market it cannot reset.
TrialsSucceed == phase \notin {"noVertex", "noTrial"}

\* Whoever declared a dependency on the price of an item recalculates its own
\* price and all of its demands when the solver changes that price, after as
\* many splits as there may be.
PriceChangeReachesDependents ==
    \A k \in DOMAIN mCalcList : \A i \in mDependencyItems :
        k = Entry(MarketOf[i], "price") =>
            \A d \in mDependentList[i] :
                /\ \A n \in DOMAIN mPriceVertices[d] : mPriceVertices[d][n] \in mCalcList[k]
                /\ \A n \in DOMAIN mDemandVertices[d] : mDemandVertices[d][n] \in mCalcList[k]

\* Items whose price the solver sets.
CutLoose(i) == MarketOf[i] \in trials \/ (IsSolved(i) /\ mCanBreakCycle[i])

\* A declared dependency on an item holds for every region of its market: unless
\* the solver sets that price, the price of each region comes before the price
\* of the dependent, and its supply after the demand of the dependent.
DeclaredDependenciesRespected ==
    phase = "ordered" =>
        \A i \in mDependencyItems : \A d \in mDependentList[i] :
            \A j \in {i} \cup {x \in mDependencyItems : /\ MarketOf[x] = MarketOf[i]
                                                        /\ MarketOf[x] # NoMarket} :
                ~CutLoose(j) =>
                    /\ HasPrice(j) /\ HasPrice(d) => Before(LastPrice(j), FirstPrice(d))
                    /\ HasDemand(j) /\ HasDemand(d) => Before(LastDemand(d), FirstDemand(j))

\* The fixed outputs of a pass through sector are gathered before the demand of
\* the sectors that use them, also when these were given trial markets.
FixedOutputBeforeDemand ==
    phase = "ordered" =>
        \A f \in FixedOutput, i \in mDependencyItems :
            f \in mDependentList[i] /\ HasDemand(i) /\ HasDemand(f) =>
                Before(LastDemand(f), FirstDemand(i))

\* Trial markets are created while sorting only for an item on a cycle.
TrialsOnlyOnCycles ==
    [][phase = "break" /\ trials' # trials =>
          \E v \in Uncleared, i \in Item : /\ Owns(i, v) /\ MarketOf[i] \in trials' \ trials
                                           /\ OnCycle(Inside(edges, Uncleared), v)]_vars

\* createOrdering always comes to an end.
OrderingEnds == phase = "split" ~> Ended

\* The finder implements the abstract ordering.
Abstract == INSTANCE CalcOrdering WITH
    Vertex <- 0..(2 * Cardinality(Activity) - 1),
    graph <- {<<e.from, e.to>> : e \in edges},
    order <- mGlobalOrdering
ImplementsCalcOrdering == Abstract!Spec

=============================================================================
