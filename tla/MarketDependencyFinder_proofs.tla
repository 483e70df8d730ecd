----------------------- MODULE MarketDependencyFinder_proofs -----------------------
(***************************************************************************)
(* For every set of items, activities and declarations that keeps to the   *)
(* assumptions of the finder: its types, and that createOrdering keeps     *)
(* exact counts, clears no vertex twice and lists every calculation after  *)
(* those it depends on, whatever cycles it breaks on the way; that it      *)
(* gives up on a cycle, splits an item and creates a trial market only     *)
(* where it should.                                                        *)
(*                                                                         *)
(* The invariant is IInv.  Its parts say how vertices are numbered and     *)
(* owned (RInv), which edges the graph has after any number of splits      *)
(* (GraphInv, SplitInv), and how far the sort has come (Places, Stages,    *)
(* OrderInv, Counts, Visits).  The step that is hard to justify is         *)
(* BreakCycle: createTrialsForItem resets the count of a demand and        *)
(* decrements the count of whatever waits for a price, which is right only *)
(* if neither has been listed.  ChosenWaits shows this of every item the   *)
(* search of a cycle may choose.                                           *)
(*                                                                         *)
(* What is marked as lying on cycles is told by MarkedInv: once marked, a  *)
(* vertex on a cycle stays marked until it is cleared or split (OffCycles).*)
(* TrialsInv says which items have trial markets, EntryInv where a change  *)
(* of a price enters the graph.                                            *)
(***************************************************************************)
EXTENDS MarketDependencyFinder, FiniteSetTheorems, FunctionTheorems, WellFoundedInduction, TLAPS

Kind == {"chain", "land", "depend", "trial"}
EdgeType == [from : Vertices, to : Vertices, kind : Kind]

\* What type correctness of the graph rests on: whoever registered an activity
\* has a demand vertex, so the land allocators have one when they are connected,
\* no item has a price vertex without a demand vertex, and nothing is cached
\* before there are entry points.
TInv == /\ TypeOK
        /\ \A a \in registered : HasDemand(a.item)
        /\ \A i \in Item : HasPrice(i) => HasDemand(i)
        /\ phase = "collect" => DOMAIN mCalcList = {}

-----------------------------------------------------------------------------
(* Vertices and edges                                                      *)

\* A graph has finitely many edges, and so does every part of it.
LEMMA FiniteEdges ==
    ASSUME NEW n \in Nat, NEW E, E \subseteq [from : 0..(n - 1), to : 0..(n - 1), kind : Kind]
    PROVE  IsFiniteSet(E)
<1> DEFINE V == 0..(n - 1)
           T == [from : V, to : V, kind : Kind]
           f == [e \in T |-> <<<<e.from, e.to>>, e.kind>>]
<1>1. IsFiniteSet(V)
  BY FS_Interval
<1>2. IsFiniteSet(Kind)
  <2>1. IsFiniteSet({"chain"})
    BY FS_Singleton
  <2>2. IsFiniteSet({"chain"} \cup {"land"})
    BY <2>1, FS_AddElement
  <2>3. IsFiniteSet(({"chain"} \cup {"land"}) \cup {"depend"})
    BY <2>2, FS_AddElement
  <2>4. IsFiniteSet((({"chain"} \cup {"land"}) \cup {"depend"}) \cup {"trial"})
    BY <2>3, FS_AddElement
  <2>5. Kind = (({"chain"} \cup {"land"}) \cup {"depend"}) \cup {"trial"}
    BY DEF Kind
  <2> QED BY <2>4, <2>5
<1>3. IsFiniteSet((V \X V) \X Kind)
  BY <1>1, <1>2, FS_Product
<1>4. f \in Injection(T, (V \X V) \X Kind)
  BY DEF Injection, IsInjective
<1>5. IsFiniteSet(T)
  BY <1>3, <1>4, FS_Injection
<1> QED
  BY <1>5, FS_Subset

\* The count of a set of edges is a natural number.
LEMMA CountEdges ==
    ASSUME NEW n \in Nat, NEW E, E \subseteq [from : 0..(n - 1), to : 0..(n - 1), kind : Kind]
    PROVE  Cardinality(E) \in Nat
BY FiniteEdges, FS_CardinalityType

\* The first and last vertices of an item that has some are vertices.
LEMMA EndVertices ==
    ASSUME TypeOK, NEW i \in Item
    PROVE  /\ HasPrice(i) => FirstPrice(i) \in Vertices /\ LastPrice(i) \in Vertices
           /\ HasDemand(i) => FirstDemand(i) \in Vertices /\ LastDemand(i) \in Vertices
BY DEF TypeOK, HasPrice, HasDemand, FirstPrice, LastPrice, FirstDemand, LastDemand

\* Every edge createOrdering adds joins two vertices.
LEMMA ConnectedType ==
    ASSUME ConstantsAssumption, TInv, registered = Activity,
           NEW i \in Item, NEW dependents \in SUBSET Item
    PROVE  ChainEdges(i) \cup LandEdges(i, dependents) \cup DependEdges(i, dependents) \subseteq EdgeType
<1>1. /\ mPriceVertices[i] \in Seq(Vertices) /\ mDemandVertices[i] \in Seq(Vertices)
  BY DEF TInv, TypeOK
<1>2. ChainEdges(i) \subseteq EdgeType
  BY <1>1 DEF ChainEdges, Edge, EdgeType, Kind
<1>3. \A l \in LandAllocator : l \in Item /\ HasDemand(l)
  BY DEF TInv, ConstantsAssumption
<1>4. \A x \in Item : /\ HasPrice(x) => FirstPrice(x) \in Vertices /\ LastPrice(x) \in Vertices
                      /\ HasDemand(x) => FirstDemand(x) \in Vertices /\ LastDemand(x) \in Vertices
  BY EndVertices DEF TInv
<1>5. LandEdges(i, dependents) \subseteq EdgeType
  BY <1>3, <1>4 DEF LandEdges, Edge, EdgeType, Kind, TInv
<1>6. PriceEdges(i, dependents) \subseteq EdgeType
  BY <1>4 DEF PriceEdges, Edge, EdgeType, Kind
<1>7. HasDemand(i) => DemandEdges(i, dependents) \subseteq EdgeType
  BY <1>4 DEF DemandEdges, Edge, EdgeType, Kind
<1>8. DependEdges(i, dependents) \subseteq EdgeType
  BY <1>4, <1>6, <1>7 DEF DependEdges, Edge, EdgeType, Kind
<1> QED
  BY <1>2, <1>5, <1>8

\* The entry points of a market are vertices.
LEMMA EntryPointsType ==
    ASSUME ConstantsAssumption, TInv, registered = Activity,
           NEW i \in Item, NEW dependents \in SUBSET Item
    PROVE  EntryPoints(i, dependents) \subseteq Vertices
<1>1. \A l \in LandAllocator : l \in Item /\ HasDemand(l)
  BY DEF TInv, ConstantsAssumption
<1>2. \A x \in Item : /\ HasPrice(x) => FirstPrice(x) \in Vertices
                      /\ HasDemand(x) => FirstDemand(x) \in Vertices
  BY EndVertices DEF TInv
<1> QED
  BY <1>1, <1>2 DEF EntryPoints

\* Sharing dependents within a market keeps their type.
LEMMA SharedDependentsType == TypeOK => SharedDependents \in [Item -> SUBSET Item]
BY DEF TypeOK, SharedDependents, Grouped

-----------------------------------------------------------------------------
(* Type correctness, action by action                                      *)

\* Type correctness of the graph, action by action.
LEMMA TInvInit == Init => TInv
<1> SUFFICES ASSUME Init PROVE TInv
  OBVIOUS
<1>1. Uncleared = {} /\ DOMAIN mImpliedVertices = {} /\ DOMAIN mCalcList = {}
  BY DEF Init, Uncleared
<1>2. /\ mDemandVertices \in [Item -> Seq(Vertices)] /\ mPriceVertices \in [Item -> Seq(Vertices)]
      /\ mGlobalOrdering \in Seq(Vertices)
  BY DEF Init
<1>3. /\ numDependencies \in [Uncleared -> Int] /\ mImpliedVertices \in [{} -> SUBSET Vertices]
      /\ mCalcList \in [{} -> SUBSET Vertices]
  BY <1>1 DEF Init, Uncleared
<1>4. TypeOK
  BY <1>1, <1>2, <1>3 DEF Init, TypeOK, Phases
<1> QED
  BY <1>4 DEF Init, TInv, HasPrice

LEMMA TInvAddDependency ==
    ASSUME ConstantsAssumption, TInv, NEW d \in Declaration, AddDependency(d)
    PROVE  TInv'
<1>1. d.dependent \in Item /\ d.dependency \in Item /\ d.canBreak \in BOOLEAN
  BY DEF ConstantsAssumption
<1>2. /\ mDependencyItems' \subseteq Item /\ mHasSelfDependence' \subseteq Item
  BY <1>1 DEF AddDependency, TInv, TypeOK
<1>3. mDependentList' \in [Item -> SUBSET Item]
  <2>1. mDependentList \in [Item -> SUBSET Item]
    BY DEF TInv, TypeOK
  <2>2. \/ mDependentList' = mDependentList
        \/ mDependentList' = [mDependentList EXCEPT ![d.dependency] = @ \cup {d.dependent}]
    BY DEF AddDependency
  <2>3. mDependentList[d.dependency] \cup {d.dependent} \in SUBSET Item
    BY <1>1, <2>1
  <2> QED BY <2>1, <2>2, <2>3
<1>4. mCanBreakCycle' \in [Item -> BOOLEAN]
  BY <1>1 DEF AddDependency, TInv, TypeOK
<1>5. Vertices' = Vertices /\ Uncleared' = Uncleared
  BY DEF AddDependency, Vertices, Uncleared, sorting
<1>6. TypeOK'
  BY <1>2, <1>3, <1>4, <1>5 DEF AddDependency, TInv, TypeOK, sorting, breaking
<1> QED
  BY <1>6 DEF AddDependency, TInv, HasPrice, HasDemand

LEMMA TInvResolve ==
    ASSUME ConstantsAssumption, TInv, NEW a \in Activity, ResolveActivityToDependency(a)
    PROVE  TInv'
<1>1. a.item \in Item /\ mCalcVertexUIDCount \in Nat
  BY DEF ConstantsAssumption, TInv, TypeOK
<1>2. mCalcVertexUIDCount' \in Nat /\ Vertices \subseteq Vertices' /\ Uncleared' = Uncleared
  BY <1>1 DEF ResolveActivityToDependency, CountAfter, Vertices, Uncleared, sorting
<1>3. mCalcVertexUIDCount \in Vertices'
  BY <1>1 DEF ResolveActivityToDependency, CountAfter, Vertices
<1>4. a.priced => mCalcVertexUIDCount + 1 \in Vertices'
  BY <1>1 DEF ResolveActivityToDependency, CountAfter, Vertices
<1>5. \A i \in Item : /\ mDemandVertices[i] \in Seq(Vertices') /\ mPriceVertices[i] \in Seq(Vertices')
  BY <1>2 DEF TInv, TypeOK
<1>6. Append(mDemandVertices[a.item], mCalcVertexUIDCount) \in Seq(Vertices')
  BY <1>1, <1>3, <1>5
<1>7. mDemandVertices' \in [Item -> Seq(Vertices')]
  BY <1>5, <1>6 DEF ResolveActivityToDependency, TInv, TypeOK
<1>8. mPriceVertices' \in [Item -> Seq(Vertices')]
  <2>1. CASE a.priced
    <3>1. Append(mPriceVertices[a.item], mCalcVertexUIDCount + 1) \in Seq(Vertices')
      BY <1>1, <1>4, <1>5, <2>1
    <3> QED BY <1>5, <2>1, <3>1 DEF ResolveActivityToDependency, TInv, TypeOK
  <2>2. CASE ~a.priced
    BY <1>5, <2>2 DEF ResolveActivityToDependency, TInv, TypeOK
  <2> QED BY <2>1, <2>2
<1>9. edges' \subseteq [from : Vertices', to : Vertices', kind : Kind]
  BY <1>2 DEF ResolveActivityToDependency, TInv, TypeOK, Kind
<1>10. mGlobalOrdering' \in Seq(Vertices')
  BY <1>2 DEF ResolveActivityToDependency, sorting, TInv, TypeOK
<1>11. mImpliedVertices' \in [DOMAIN mImpliedVertices' -> SUBSET Vertices']
  BY <1>2 DEF ResolveActivityToDependency, TInv, TypeOK
<1>12. mCalcList' \in [DOMAIN mCalcList' -> SUBSET Vertices']
  BY <1>2 DEF ResolveActivityToDependency, TInv, TypeOK
<1>13. TypeOK'
  BY <1>1, <1>2, <1>7, <1>8, <1>9, <1>10, <1>11, <1>12
     DEF ResolveActivityToDependency, TInv, TypeOK, sorting, breaking, Kind
<1>14. \A i \in Item : /\ mDemandVertices'[i] # <<>> \/ mDemandVertices'[i] = mDemandVertices[i]
                       /\ i # a.item => mPriceVertices'[i] = mPriceVertices[i]
                       /\ i = a.item => mDemandVertices'[i] # <<>>
  <2>1. Append(mDemandVertices[a.item], mCalcVertexUIDCount) # <<>>
    BY <1>1, <1>3, <1>5
  <2>2. mDemandVertices' = [mDemandVertices EXCEPT ![a.item] =
                               Append(mDemandVertices[a.item], mCalcVertexUIDCount)]
    BY DEF ResolveActivityToDependency
  <2>3. \A i \in Item : i # a.item => mPriceVertices'[i] = mPriceVertices[i]
    BY DEF ResolveActivityToDependency, TInv, TypeOK
  <2>4. mDemandVertices \in [Item -> Seq(Vertices)]
    BY DEF TInv, TypeOK
  <2> QED BY <1>1, <2>1, <2>2, <2>3, <2>4
<1>15. \A b \in registered' : b.item \in Item /\ (b \in registered \/ b.item = a.item)
  BY DEF ResolveActivityToDependency, TInv, TypeOK, ConstantsAssumption
<1>16. \A i \in Item : mDemandVertices[i] # <<>> => mDemandVertices'[i] # <<>>
  BY <1>14
<1>17. \A b \in registered' : mDemandVertices'[b.item] # <<>>
  BY <1>14, <1>15, <1>16 DEF TInv, HasDemand
<1>18. \A i \in Item : mPriceVertices'[i] # <<>> => mDemandVertices'[i] # <<>>
  BY <1>14, <1>16 DEF TInv, HasPrice, HasDemand
<1>19. phase' = phase /\ mCalcList' = mCalcList
  BY DEF ResolveActivityToDependency
<1> QED
  BY <1>13, <1>17, <1>18, <1>19 DEF TInv, HasPrice, HasDemand

LEMMA TInvConnectGraph ==
    ASSUME ConstantsAssumption, TInv, ConnectGraph
    PROVE  TInv'
<1> DEFINE dependents == SharedDependents
           Connect(i) == ChainEdges(i) \cup LandEdges(i, dependents[i]) \cup DependEdges(i, dependents[i])
           connected == UNION {Connect(i) : i \in mDependencyItems}
<1>1. /\ registered = Activity /\ mDependencyItems \subseteq Item
      /\ dependents \in [Item -> SUBSET Item] /\ mCalcVertexUIDCount \in Nat
  BY SharedDependentsType DEF ConnectGraph, TInv, TypeOK
<1>2. /\ mDependentList' = dependents /\ edges' = connected
      /\ numDependencies' = [v \in Vertices |-> InDegree(connected, v)]
  BY DEF ConnectGraph
<1>3. Vertices' = Vertices /\ Uncleared' = Vertices
  BY <1>2 DEF ConnectGraph, Vertices, Uncleared
<1>4. connected \subseteq EdgeType
  <2>1. \A i \in mDependencyItems : Connect(i) \subseteq EdgeType
    BY <1>1, ConnectedType
  <2> QED BY <2>1
<1>5. \A v \in Vertices : InDegree(connected, v) \in Nat
  <2> TAKE v \in Vertices
  <2>1. {e \in connected : e.to = v} \subseteq [from : 0..(mCalcVertexUIDCount - 1),
                                                to : 0..(mCalcVertexUIDCount - 1), kind : Kind]
    BY <1>4 DEF EdgeType, Vertices
  <2> HIDE DEF connected
  <2> QED BY <1>1, <2>1, CountEdges DEF InDegree
<1>6. /\ DOMAIN mImpliedVertices' \subseteq Market \X {"price", "demand"}
      /\ mImpliedVertices' \in [DOMAIN mImpliedVertices' -> SUBSET Vertices]
  <2>1. \A i \in mDependencyItems : EntryPoints(i, dependents[i]) \subseteq Vertices
    BY <1>1, EntryPointsType
  <2>2. Linked \subseteq Market
    BY <1>1 DEF Linked, ConstantsAssumption
  <2>3. \A m \in Linked : Entry(m, "price") \in Market \X {"price", "demand"}
    BY <2>2 DEF Entry
  <2> HIDE DEF dependents
  <2>4. mImpliedVertices' =
          [k \in {Entry(m, "price") : m \in Linked} |->
              UNION {EntryPoints(i, dependents[i]) :
                       i \in {j \in mDependencyItems : MarketOf[j] = k[1] /\ IsSolved(j)}}]
    BY DEF ConnectGraph, dependents
  <2> QED BY <2>1, <2>3, <2>4
<1>7. numDependencies' \in [Uncleared' -> Int]
  <2> HIDE DEF connected
  <2> QED BY <1>2, <1>3, <1>5
<1>8. edges' \subseteq [from : Vertices', to : Vertices', kind : Kind]
  BY <1>2, <1>3, <1>4 DEF EdgeType
<1>9. DOMAIN mCalcList' = {} /\ mCalcList' = mCalcList
  BY DEF ConnectGraph, TInv
<1>10. TypeOK'
  BY <1>1, <1>2, <1>3, <1>6, <1>7, <1>8, <1>9
     DEF ConnectGraph, TInv, TypeOK, Phases, Kind
<1> QED
  BY <1>10 DEF ConnectGraph, TInv, HasPrice, HasDemand

\* createTrialsForItem keeps the types of all it touches.
LEMMA CreateTrialsType ==
    ASSUME ConstantsAssumption, TInv, NEW i \in Item, CreateTrialsForItem(i),
           UNCHANGED registration
    PROVE  /\ trials' \subseteq Market
           /\ edges' \subseteq [from : Vertices', to : Vertices', kind : Kind]
           /\ Uncleared' \subseteq Vertices' /\ numDependencies' \in [Uncleared' -> Int]
           /\ DOMAIN mImpliedVertices \subseteq DOMAIN mImpliedVertices'
           /\ DOMAIN mImpliedVertices' \subseteq Market \X {"price", "demand"}
           /\ mImpliedVertices' \in [DOMAIN mImpliedVertices' -> SUBSET Vertices']
<1>1. Vertices' = Vertices
  BY DEF registration, Vertices
<1>2. /\ FirstPrice(i) \in Vertices /\ LastPrice(i) \in Vertices /\ FirstDemand(i) \in Vertices
      /\ MarketOf[i] \in Market /\ mCalcVertexUIDCount \in Nat
  BY EndVertices DEF CreateTrialsForItem, CanReset, TInv, TypeOK, ConstantsAssumption
<1>3. edges \subseteq [from : 0..(mCalcVertexUIDCount - 1), to : 0..(mCalcVertexUIDCount - 1), kind : Kind]
  BY DEF TInv, TypeOK, Vertices, Kind
<1>4. edges' \subseteq [from : Vertices', to : Vertices', kind : Kind]
  <2>1. Edge(LastPrice(i), FirstDemand(i), "trial") \in [from : Vertices, to : Vertices, kind : Kind]
    BY <1>2 DEF Edge, Kind
  <2>2. edges' \subseteq edges \cup {Edge(LastPrice(i), FirstDemand(i), "trial")}
    BY DEF CreateTrialsForItem
  <2> QED BY <1>1, <1>3, <2>1, <2>2 DEF Vertices
<1>5. /\ KeptFixed(i) \subseteq Vertices /\ Cardinality(KeptFixed(i)) \in Nat
      /\ \A e \in Released(i) : e.to \in Vertices
  <2>1. KeptFixed(i) \subseteq Vertices /\ \A e \in Released(i) : e.to \in Vertices
    BY <1>3 DEF KeptFixed, Feeding, Released, Vertices
  <2>2. 0 \in Int /\ mCalcVertexUIDCount - 1 \in Int
    BY <1>2
  <2>3. IsFiniteSet(Vertices)
    BY <2>2, FS_Interval DEF Vertices
  <2>4. IsFiniteSet(KeptFixed(i))
    BY <2>1, <2>3, FS_Subset
  <2> QED BY <2>1, <2>4, FS_CardinalityType
<1>6. \A v : Cardinality({e \in Released(i) : e.to = v}) \in Nat
  <2> TAKE v
  <2>1. {e \in Released(i) : e.to = v} \subseteq
            [from : 0..(mCalcVertexUIDCount - 1), to : 0..(mCalcVertexUIDCount - 1), kind : Kind]
    BY <1>3 DEF Released
  <2> QED BY <1>2, <2>1, CountEdges
<1>7. Uncleared' = Uncleared \cup {FirstDemand(i)} /\ numDependencies' \in [Uncleared' -> Int]
  <2> DEFINE d == FirstDemand(i)
             reset == [v \in Uncleared \cup {d} |->
                          IF v = d THEN Cardinality(KeptFixed(i)) ELSE numDependencies[v]]
             count(v) == reset[v] - Cardinality({e \in Released(i) : e.to = v})
                           + IF v = d /\ FirstPrice(i) \in DOMAIN reset THEN 1 ELSE 0
  <2>1. DOMAIN reset = Uncleared \cup {d} /\ \A v \in Uncleared \cup {d} : reset[v] \in Int
    BY <1>5 DEF TInv, TypeOK
  <2>2. numDependencies' = [v \in DOMAIN reset |-> count(v)]
    BY DEF CreateTrialsForItem, SplitCounts
  <2>3. \A v \in Uncleared \cup {d} : count(v) \in Int
    <3> TAKE v \in Uncleared \cup {d}
    <3>1. reset[v] \in Int /\ Cardinality({e \in Released(i) : e.to = v}) \in Nat
      BY <1>6, <2>1
    <3> HIDE DEF reset
    <3> QED BY <3>1
  <2> HIDE DEF reset, count
  <2> QED BY <2>1, <2>2, <2>3 DEF Uncleared
<1>8. Uncleared' \subseteq Vertices'
  BY <1>1, <1>2, <1>7 DEF TInv, TypeOK
<1>9. /\ DOMAIN mImpliedVertices' = DOMAIN mImpliedVertices \cup {Entry(MarketOf[i], "demand")}
      /\ mImpliedVertices' \in [DOMAIN mImpliedVertices' -> SUBSET Vertices']
  <2> DEFINE price == Entry(MarketOf[i], "price")
             demand == Entry(MarketOf[i], "demand")
             old(k) == IF k \in DOMAIN mImpliedVertices THEN mImpliedVertices[k] ELSE {}
             implied(k) == old(k) \cup
                 (IF k = price THEN {FirstPrice(i)} \cup {e.to : e \in Released(i)}
                  ELSE IF k = demand THEN {FirstDemand(i)} \cup KeptFixed(i) ELSE {})
  <2>1. \A k : old(k) \subseteq Vertices
    BY DEF TInv, TypeOK
  <2>2. \A k : implied(k) \subseteq Vertices
    <3> TAKE k
    <3>1. {FirstPrice(i)} \cup {e.to : e \in Released(i)} \subseteq Vertices
      BY <1>2, <1>5
    <3>2. {FirstDemand(i)} \cup KeptFixed(i) \subseteq Vertices
      BY <1>2, <1>5
    <3> HIDE DEF old, price, demand
    <3> QED BY <2>1, <3>1, <3>2
  <2>3. mImpliedVertices' = [k \in DOMAIN mImpliedVertices \cup {demand} |-> implied(k)]
    BY DEF CreateTrialsForItem, SplitImplied
  <2> HIDE DEF implied
  <2> QED BY <1>1, <2>2, <2>3
<1>10. DOMAIN mImpliedVertices' \subseteq Market \X {"price", "demand"}
  BY <1>2, <1>9 DEF Entry, TInv, TypeOK
<1>11. trials' \subseteq Market
  BY <1>2 DEF CreateTrialsForItem, TInv, TypeOK
<1> QED
  BY <1>4, <1>7, <1>8, <1>9, <1>10, <1>11

\* The two callers of createTrialsForItem keep the rest.
LEMMA TrialsKeepTInv ==
    ASSUME ConstantsAssumption, TInv, NEW i \in Item, CreateTrialsForItem(i),
           UNCHANGED <<registration, justRemoved, mGlobalOrdering, mIndexed, mCalcList>>,
           phase' \in {"split", "sort"}, toSplit' \subseteq toSplit, totalVisits' \subseteq totalVisits
    PROVE  TInv'
<1>1. UNCHANGED registration /\ Vertices' = Vertices
  BY DEF registration, Vertices
<1>2. /\ trials' \subseteq Market
      /\ edges' \subseteq [from : Vertices', to : Vertices', kind : Kind]
      /\ Uncleared' \subseteq Vertices' /\ numDependencies' \in [Uncleared' -> Int]
      /\ DOMAIN mImpliedVertices \subseteq DOMAIN mImpliedVertices'
      /\ DOMAIN mImpliedVertices' \subseteq Market \X {"price", "demand"}
      /\ mImpliedVertices' \in [DOMAIN mImpliedVertices' -> SUBSET Vertices']
  BY <1>1, CreateTrialsType
<1>3. TypeOK'
  BY <1>1, <1>2 DEF TInv, TypeOK, Phases, Kind, registration
<1> QED
  BY <1>1, <1>3 DEF TInv, HasPrice, HasDemand, registration

\* Ending the program, or a step that changes only the phase.
LEMMA PhaseKeepsTInv ==
    ASSUME TInv, phase' \in Phases \ {"collect"},
           UNCHANGED <<registration, edges, sorting, breaking, mImpliedVertices, mCalcList>>
    PROVE  TInv'
<1>1. UNCHANGED registration /\ Vertices' = Vertices /\ Uncleared' = Uncleared
  BY DEF registration, Vertices, Uncleared, sorting
<1>2. TypeOK'
  BY <1>1 DEF TInv, TypeOK, registration, sorting, breaking
<1> QED
  BY <1>1, <1>2 DEF TInv, HasPrice, HasDemand, registration

LEMMA TInvSplit ==
    ASSUME ConstantsAssumption, TInv, NEW i \in Item, SplitSelfDependent(i)
    PROVE  TInv'
<1>1. CASE CreateTrialsForItem(i) /\ toSplit' = toSplit \ {i}
           /\ UNCHANGED <<phase, registration, justRemoved, mGlobalOrdering, totalVisits,
                          mIndexed, mCalcList>>
  BY <1>1, TrialsKeepTInv DEF SplitSelfDependent
<1>2. CASE TrialsFail(i)
  BY <1>2, PhaseKeepsTInv DEF TrialsFail, Phases
<1> QED
  BY <1>1, <1>2 DEF SplitSelfDependent

LEMMA TInvBreakCycle ==
    ASSUME ConstantsAssumption, TInv, BreakCycle
    PROVE  TInv'
<1>1. PICK i \in Item :
          \/ /\ CreateTrialsForItem(i)
             /\ phase' = "sort"
             /\ totalVisits' = totalVisits \ {FirstDemand(i), FirstPrice(i)}
             /\ UNCHANGED <<registration, justRemoved, mGlobalOrdering, toSplit, mIndexed, mCalcList>>
          \/ TrialsFail(i)
  BY DEF BreakCycle
<1>2. CASE TrialsFail(i)
  BY <1>2, PhaseKeepsTInv DEF TrialsFail, Phases
<1> QED
  BY <1>1, <1>2, TrialsKeepTInv

LEMMA TInvSorting ==
    ASSUME TInv, StartPass \/ FindCycles \/ \E v \in Vertices : ListRemoved(v)
    PROVE  TInv'
<1>1. UNCHANGED <<registration, edges, mImpliedVertices, mCalcList>> /\ Vertices' = Vertices
  BY DEF StartPass, FindCycles, ListRemoved, registration, Vertices
<1>2. /\ mCalcVertexUIDCount \in Nat
      /\ edges \subseteq [from : 0..(mCalcVertexUIDCount - 1), to : 0..(mCalcVertexUIDCount - 1), kind : Kind]
  BY DEF TInv, TypeOK, Vertices, Kind
<1>3. CASE StartPass
  <2>1. /\ justRemoved' \subseteq Vertices /\ Uncleared' \subseteq Vertices
        /\ numDependencies' \in [Uncleared' -> Int]
    BY <1>3 DEF StartPass, Ready, Uncleared, TInv, TypeOK
  <2>2. TypeOK'
    BY <1>1, <1>3, <2>1 DEF StartPass, TInv, TypeOK, registration, breaking
  <2> QED BY <1>1, <1>3, <2>2 DEF StartPass, TInv, HasPrice, HasDemand, registration
<1>4. CASE FindCycles
  <2>1. Uncleared' = Uncleared /\ totalVisits' \subseteq Vertices /\ mIndexed' \subseteq Vertices
    <3>1. Searched \subseteq Vertices /\ StronglyConnected \subseteq Searched
      BY DEF Searched, StronglyConnected, Reach
    <3> QED BY <1>4, <3>1 DEF FindCycles, Uncleared, sorting, TInv, TypeOK
  <2>2. TypeOK'
    BY <1>1, <1>4, <2>1 DEF FindCycles, TInv, TypeOK, registration, sorting, Phases
  <2> QED BY <1>1, <1>4, <2>2 DEF FindCycles, TInv, HasPrice, HasDemand, registration
<1>5. ASSUME NEW v \in Vertices, ListRemoved(v) PROVE TInv'
  <2>1. \A w : Cardinality({e \in edges : e.from = v /\ e.to = w}) \in Nat
    <3> TAKE w
    <3>1. {e \in edges : e.from = v /\ e.to = w} \subseteq
              [from : 0..(mCalcVertexUIDCount - 1), to : 0..(mCalcVertexUIDCount - 1), kind : Kind]
      BY <1>2
    <3> QED BY <1>2, <3>1, CountEdges
  <2>2. Uncleared' = Uncleared /\ numDependencies' \in [Uncleared -> Int]
    <3> DEFINE told(w) == Cardinality({e \in edges : e.from = v /\ e.to = w})
    <3>1. numDependencies' = [w \in Uncleared |-> numDependencies[w] - told(w)]
      BY <1>5 DEF ListRemoved
    <3>2. \A w : told(w) \in Nat
      BY <2>1
    <3>3. \A w \in Uncleared : numDependencies[w] \in Int
      BY DEF TInv, TypeOK
    <3> HIDE DEF told
    <3>4. \A w \in Uncleared : numDependencies[w] - told(w) \in Int
      BY <3>2, <3>3
    <3>5. DOMAIN numDependencies' = Uncleared
      BY <3>1
    <3> QED BY <3>1, <3>4, <3>5 DEF Uncleared
  <2>3. mGlobalOrdering' \in Seq(Vertices) /\ justRemoved' \subseteq Vertices
    BY <1>5 DEF ListRemoved, TInv, TypeOK
  <2>4. TypeOK'
    BY <1>1, <1>5, <2>2, <2>3 DEF ListRemoved, TInv, TypeOK, registration, breaking
  <2> QED BY <1>1, <1>5, <2>4 DEF ListRemoved, TInv, HasPrice, HasDemand, registration
<1> QED
  BY <1>3, <1>4, <1>5

LEMMA TInvGetOrdering ==
    ASSUME TInv, NEW k \in Asked, GetOrdering(k)
    PROVE  TInv'
<1>1. UNCHANGED <<registration, edges, sorting, breaking, mImpliedVertices>>
      /\ Vertices' = Vertices /\ Uncleared' = Uncleared
  BY DEF GetOrdering, registration, sorting, Vertices, Uncleared
<1>2. /\ DOMAIN mCalcList' \subseteq DOMAIN mImpliedVertices
      /\ mCalcList' \in [DOMAIN mCalcList' -> SUBSET Vertices]
  <2>1. PartialOrdering(k) \subseteq Vertices
    BY DEF PartialOrdering, Reach
  <2>2. CASE mCalcList' = mCalcList
    BY <2>2 DEF TInv, TypeOK
  <2>3. CASE k \in DOMAIN mImpliedVertices /\ k \notin DOMAIN mCalcList
    <3>1. mCalcList' = [j \in DOMAIN mCalcList \cup {k} |->
                           IF j = k THEN PartialOrdering(k) ELSE mCalcList[j]]
      BY <2>3 DEF GetOrdering
    <3>2. /\ DOMAIN mCalcList \subseteq DOMAIN mImpliedVertices
          /\ \A j \in DOMAIN mCalcList : mCalcList[j] \in SUBSET Vertices
      BY DEF TInv, TypeOK
    <3> HIDE DEF PartialOrdering
    <3> QED BY <2>1, <2>3, <3>1, <3>2
  <2> QED BY <2>2, <2>3 DEF GetOrdering
<1>3. phase' \in Phases \ {"collect"}
  BY DEF GetOrdering, Phases
<1>4. TypeOK'
  BY <1>1, <1>2, <1>3 DEF TInv, TypeOK, registration, sorting, breaking
<1> QED
  BY <1>1, <1>3, <1>4 DEF TInv, HasPrice, HasDemand, registration

LEMMA TInvStep ==
    ASSUME ConstantsAssumption, TInv, [Next]_vars
    PROVE  TInv'
<1>1. CASE StartSort \/ Finish \/ GiveUp
  BY <1>1, PhaseKeepsTInv DEF StartSort, Finish, GiveUp, Phases
<1>2. CASE UNCHANGED vars
  <2>1. UNCHANGED registration /\ Vertices' = Vertices /\ Uncleared' = Uncleared
    BY <1>2 DEF vars, registration, sorting, Vertices, Uncleared
  <2>2. TypeOK'
    BY <1>2, <2>1 DEF TInv, TypeOK, vars, registration, sorting, breaking
  <2> QED BY <1>2, <2>1, <2>2 DEF TInv, HasPrice, HasDemand, vars, registration
<1> QED
  BY <1>1, <1>2, TInvAddDependency, TInvResolve, TInvConnectGraph, TInvSplit, TInvSorting,
     TInvBreakCycle, TInvGetOrdering DEF Next, Stop

\* Every variable of the dependency finder keeps its type: in particular every
\* count belongs to a vertex, every edge joins two vertices, and everything an
\* ordering or an entry point names is a vertex.
THEOREM TypeCorrect == Spec => []TypeOK
<1>1. Init => TInv
  BY TInvInit
<1>2. TInv /\ [Next]_vars => TInv'
  BY TInvStep, ConstantsAssumption
<1>3. TInv => TypeOK
  BY DEF TInv
<1> QED
  BY <1>1, <1>2, <1>3, PTL DEF Spec

-----------------------------------------------------------------------------
(* What Reach finds *)

\* Every set of numbers that is not empty has a least one.
LEMMA LeastNumber ==
    ASSUME NEW T \in SUBSET Nat, T # {}
    PROVE  \E m \in T : \A n \in T : m <= n
<1>1. IsWellFoundedOn(OpToRel(<, Nat), Nat)
  BY NatLessThanWellFounded
<1>2. PICK m \in T : \A n \in T : <<n, m>> \notin OpToRel(<, Nat)
  BY <1>1, WFMin, Zenon
<1>3. \A n \in T : ~(n < m)
  BY <1>2 DEF OpToRel
<1>4. \A n \in T : m <= n
  BY <1>3
<1> QED
  BY <1>4

\* The vertices next to v, v included; and the steps of the search.
Next1(E, v) == {v} \cup {e.to : e \in {f \in E : f.from = v}}
IsSearch(f, E, S) ==
    f = [n \in Nat |-> IF n = 0 THEN S ELSE UNION {Next1(E, v) : v \in f[n - 1]}]

\* Each step of the search has the ends of the walks of its length.
LEMMA SearchExists ==
    ASSUME NEW E, NEW S PROVE \E f : IsSearch(f, E, S)
<1> DEFINE U == S \cup {e.to : e \in E}
           Walk(p, n) == p[0] \in S /\ \A k \in 0..n-1 : p[k + 1] \in Next1(E, p[k])
           f == [n \in Nat |-> {x \in U : \E p \in [0..n -> U] : Walk(p, n) /\ p[n] = x}]
<1>1. f[0] = S
  <2>1. \A x \in S : \E p \in [0..0 -> U] : Walk(p, 0) /\ p[0] = x
    <3> TAKE x \in S
    <3> DEFINE p == [k \in 0..0 |-> x]
    <3>1. p \in [0..0 -> U] /\ p[0] = x /\ Walk(p, 0)
      OBVIOUS
    <3> QED BY <3>1
  <2>2. \A p : Walk(p, 0) => p[0] \in S
    OBVIOUS
  <2> HIDE DEF Walk
  <2> QED BY <2>1, <2>2
<1>2. ASSUME NEW n \in Nat, n # 0
      PROVE  f[n] = UNION {Next1(E, v) : v \in f[n - 1]}
  <2>1. n - 1 \in Nat /\ n - 1 + 1 = n /\ n \in 0..n /\ n - 1 \in 0..n-1 /\ 0 \in 0..n /\ 0 \in 0..n-1
    BY <1>2
  <2>2. \A v \in U : Next1(E, v) \subseteq U
    BY DEF Next1
  <2>3. ASSUME NEW x \in f[n] PROVE \E v \in f[n - 1] : x \in Next1(E, v)
    <3>1. PICK p \in [0..n -> U] : Walk(p, n) /\ p[n] = x
      BY <2>1
    <3> DEFINE q == [k \in 0..n-1 |-> p[k]]
    <3>2. q \in [0..n-1 -> U] /\ q[n - 1] = p[n - 1] /\ p[n - 1] \in U
      BY <2>1
    <3>3. Walk(q, n - 1)
      BY <2>1, <3>1
    <3>4. p[n - 1] \in f[n - 1]
      <4> HIDE DEF Walk, q, U
      <4> QED BY <2>1, <3>2, <3>3
    <3>5. x \in Next1(E, p[n - 1])
      BY <2>1, <3>1
    <3> HIDE DEF f
    <3> QED BY <3>4, <3>5
  <2>4. ASSUME NEW v \in f[n - 1], NEW x \in Next1(E, v) PROVE x \in f[n]
    <3>1. PICK p \in [0..n-1 -> U] : Walk(p, n - 1) /\ p[n - 1] = v
      BY <2>1, <2>4
    <3>2. v \in U /\ x \in U
      BY <2>1, <2>2, <2>4
    <3> DEFINE q == [k \in 0..n |-> IF k = n THEN x ELSE p[k]]
    <3>3. q \in [0..n -> U] /\ q[n] = x
      BY <2>1, <3>2
    <3>4. \A k \in 0..n-1 : q[k] = p[k]
      BY <2>1
    <3>5. Walk(q, n)
      <4>1. q[0] \in S
        BY <2>1, <3>1, <3>4
      <4>2. ASSUME NEW k \in 0..n-1 PROVE q[k + 1] \in Next1(E, q[k])
        <5>1. CASE k = n - 1
          BY <2>1, <2>4, <3>1, <3>3, <3>4, <5>1
        <5>2. CASE k # n - 1
          <6>1. k \in 0..n-1-1 /\ k + 1 \in 0..n-1
            BY <2>1, <5>2
          <6> QED BY <3>1, <3>4, <6>1
        <5> QED BY <5>1, <5>2
      <4> QED BY <4>1, <4>2
    <3> HIDE DEF Walk, q, U
    <3> QED BY <2>1, <3>2, <3>3, <3>5
  <2> HIDE DEF f
  <2> QED BY <2>3, <2>4
<1>3. \A n \in Nat : f[n] = IF n = 0 THEN S ELSE UNION {Next1(E, v) : v \in f[n - 1]}
  <2> HIDE DEF f
  <2> QED BY <1>1, <1>2
<1>4. IsSearch(f, E, S)
  <2>1. f = [n \in Nat |-> f[n]]
    OBVIOUS
  <2> HIDE DEF f
  <2> QED BY <1>3, <2>1 DEF IsSearch
<1> QED BY <1>4

\* Reach takes one of these searches.
LEMMA ReachIs ==
    ASSUME NEW E, NEW S
    PROVE  \E f : IsSearch(f, E, S) /\ Reach(E, S) = Vertices \cap f[Cardinality(Vertices)]
<1> DEFINE f == CHOOSE g : IsSearch(g, E, S)
<1>1. IsSearch(f, E, S)
  BY SearchExists
<1>2. Reach(E, S) = Vertices \cap f[Cardinality(Vertices)]
  BY DEF Reach, IsSearch, Next1
<1> QED BY <1>1, <1>2

\* What is closed under the edges is not left.
LEMMA ReachClosed ==
    ASSUME TypeOK, NEW E, NEW S, NEW C, S \subseteq C,
           \A e \in E : e.from \in C => e.to \in C
    PROVE  Reach(E, S) \subseteq C
<1>1. PICK f : IsSearch(f, E, S) /\ Reach(E, S) = Vertices \cap f[Cardinality(Vertices)]
  BY ReachIs
<1>2. Cardinality(Vertices) \in Nat
  <2>1. 0 \in Int /\ mCalcVertexUIDCount - 1 \in Int
    BY DEF TypeOK
  <2> QED BY <2>1, FS_Interval, FS_CardinalityType DEF Vertices
<1> DEFINE B == {n \in Nat : ~(f[n] \subseteq C)}
<1>3. B = {}
  <2> SUFFICES ASSUME B # {} PROVE FALSE
    OBVIOUS
  <2>1. PICK n \in B : \A m \in B : n <= m
    <3>1. B \in SUBSET Nat
      OBVIOUS
    <3> HIDE DEF B
    <3> QED BY <3>1, LeastNumber
  <2>2. n \in Nat /\ f[n] = IF n = 0 THEN S ELSE UNION {Next1(E, v) : v \in f[n - 1]}
    BY <1>1, <2>1 DEF IsSearch
  <2>3. n # 0
    BY <2>1, <2>2
  <2>4. f[n - 1] \subseteq C
    BY <2>1, <2>2, <2>3
  <2>5. \A v \in C : Next1(E, v) \subseteq C
    BY DEF Next1
  <2> QED BY <2>1, <2>2, <2>3, <2>4, <2>5
<1> QED BY <1>1, <1>2, <1>3

-----------------------------------------------------------------------------
(* Who owns which vertex *)

\* Every vertex has a number and a place of its own; the later activity of an
\* item has the higher number.
Numbers ==
    /\ \A i, j \in Item : \A n \in DOMAIN mPriceVertices[i], m \in DOMAIN mDemandVertices[j] :
          mPriceVertices[i][n] # mDemandVertices[j][m]
    /\ \A i, j \in Item : \A n \in DOMAIN mPriceVertices[i], m \in DOMAIN mPriceVertices[j] :
          mPriceVertices[i][n] = mPriceVertices[j][m] => i = j
    /\ \A i, j \in Item : \A n \in DOMAIN mDemandVertices[i], m \in DOMAIN mDemandVertices[j] :
          mDemandVertices[i][n] = mDemandVertices[j][m] => i = j
    /\ \A i \in Item : \A n, m \in DOMAIN mPriceVertices[i] :
          n < m => mPriceVertices[i][n] < mPriceVertices[i][m]
    /\ \A i \in Item : \A n, m \in DOMAIN mDemandVertices[i] :
          n < m => mDemandVertices[i][n] < mDemandVertices[i][m]

\* What has been registered, and declared so far.
Registered ==
    /\ \A i \in Item : HasPrice(i) <=> \E a \in registered : a.item = i /\ a.priced
    /\ \A i \in Item : HasDemand(i) <=> \E a \in registered : a.item = i
    /\ \A i \in Item : HasDemand(i) => i \in mDependencyItems
    /\ phase # "collect" => registered = Activity
DeclaredSoFar ==
    phase = "collect" =>
       /\ \A i \in Item : \A d \in mDependentList[i] :
             \E c \in Declaration : c.dependency = i /\ c.dependent = d /\ d # i
       /\ \A i \in Item : ~mCanBreakCycle[i] => \E c \in Declaration : c.dependency = i /\ ~c.canBreak

\* The solver sets the price of an item that was solved from the beginning.
SetBySolver(i) == IsSolved(i) /\ mCanBreakCycle[i]

\* An item without a price at which dependencies end.
UnpricedEnds ==
    phase # "collect" =>
       \A i \in Item : ~HasPrice(i) /\ HasDemand(i) /\ ~SetBySolver(i) /\ mDependentList[i] # {}
                        => \A j \in Item : i \notin mDependentList[j]

RInv == TInv /\ Numbers /\ Registered /\ DeclaredSoFar /\ UnpricedEnds

\* Once everything is registered nothing about it changes.
LEMMA RegistrationKept ==
    ASSUME RInv, TInv', UNCHANGED registration, phase # "collect", phase' # "collect"
    PROVE  RInv'
BY DEF RInv, Numbers, Registered, DeclaredSoFar, UnpricedEnds, SetBySolver, IsSolved, HasPrice,
       HasDemand, registration

\* Numbers and declarations, action by action.
LEMMA RInvInit == Init => RInv
<1> SUFFICES ASSUME Init PROVE RInv
  OBVIOUS
<1>1. \A i \in Item : ~HasPrice(i) /\ ~HasDemand(i)
  BY DEF Init, HasPrice, HasDemand
<1>2. Numbers
  BY DEF Init, Numbers
<1>3. Registered /\ DeclaredSoFar /\ UnpricedEnds
  BY <1>1 DEF Init, Registered, DeclaredSoFar, UnpricedEnds
<1> QED
  BY <1>2, <1>3, TInvInit DEF RInv

LEMMA RInvAddDependency ==
    ASSUME RInv, NEW d \in Declaration, AddDependency(d)
    PROVE  RInv'
<1>1. TInv'
  BY TInvAddDependency, ConstantsAssumption DEF RInv
<1>2. UNCHANGED <<phase, registered, mDemandVertices, mPriceVertices>>
  BY DEF AddDependency
<1>3. Numbers'
  BY <1>2 DEF RInv, Numbers
<1>4. Registered'
  BY <1>2 DEF AddDependency, RInv, Registered, HasPrice, HasDemand
<1>5. phase = "collect" /\ phase' = "collect"
  BY DEF AddDependency
<1>6. DeclaredSoFar'
  <2>1. d.dependent \in Item /\ d.dependency \in Item
    BY ConstantsAssumption
  <2>2. /\ mDependentList \in [Item -> SUBSET Item] /\ mCanBreakCycle \in [Item -> BOOLEAN]
    BY DEF RInv, TInv, TypeOK
  <2>3. CASE d.dependent = d.dependency
    BY <1>5, <2>3 DEF AddDependency, RInv, DeclaredSoFar
  <2>4. CASE d.dependent # d.dependency
    <3>1. mDependentList' = [mDependentList EXCEPT ![d.dependency] = @ \cup {d.dependent}]
          /\ mCanBreakCycle' = [mCanBreakCycle EXCEPT ![d.dependency] = @ /\ d.canBreak]
      BY <2>4 DEF AddDependency
    <3>2. \A i \in Item : \A x \in mDependentList'[i] :
             x \in mDependentList[i] \/ (i = d.dependency /\ x = d.dependent)
      BY <2>1, <2>2, <3>1
    <3>3. \A i \in Item : ~mCanBreakCycle'[i] =>
             ~mCanBreakCycle[i] \/ (i = d.dependency /\ ~d.canBreak)
      BY <2>1, <2>2, <3>1
    <3> QED BY <1>5, <2>4, <3>2, <3>3 DEF RInv, DeclaredSoFar
  <2> QED BY <2>3, <2>4
<1> QED
  BY <1>1, <1>3, <1>4, <1>5, <1>6 DEF RInv, UnpricedEnds

LEMMA RInvResolve ==
    ASSUME RInv, NEW a \in Activity, ResolveActivityToDependency(a)
    PROVE  RInv'
<1>1. TInv'
  BY TInvResolve, ConstantsAssumption DEF RInv
<1>2. a.item \in Item /\ a.priced \in BOOLEAN /\ mCalcVertexUIDCount \in Nat
  BY ConstantsAssumption DEF RInv, TInv, TypeOK
<1> DEFINE c == mCalcVertexUIDCount
           D == mDemandVertices
           P == mPriceVertices
<1>3. /\ D \in [Item -> Seq(Vertices)] /\ P \in [Item -> Seq(Vertices)]
  BY DEF RInv, TInv, TypeOK
<1>4. /\ D' = [D EXCEPT ![a.item] = Append(@, c)]
      /\ P' = IF a.priced THEN [P EXCEPT ![a.item] = Append(@, c + 1)] ELSE P
  BY DEF ResolveActivityToDependency
<1>5. \A i \in Item : /\ \A n \in DOMAIN D[i] : D[i][n] \in Int /\ D[i][n] < c
                      /\ \A n \in DOMAIN P[i] : P[i][n] \in Int /\ P[i][n] < c
  BY <1>2, <1>3 DEF Vertices
<1>6. \A i \in Item : \A n \in DOMAIN D'[i] :
         \/ n \in DOMAIN D[i] /\ D'[i][n] = D[i][n]
         \/ i = a.item /\ n = Len(D[i]) + 1 /\ D'[i][n] = c
  <2> TAKE i \in Item
  <2>1. D[i] \in Seq(Vertices)
    BY <1>3
  <2>2. D'[i] = IF i = a.item THEN Append(D[i], c) ELSE D[i]
    BY <1>2, <1>3, <1>4
  <2> HIDE DEF D
  <2> QED BY <2>1, <2>2
<1>7. \A i \in Item : \A n \in DOMAIN P'[i] :
         \/ n \in DOMAIN P[i] /\ P'[i][n] = P[i][n]
         \/ i = a.item /\ n = Len(P[i]) + 1 /\ P'[i][n] = c + 1
  <2> TAKE i \in Item
  <2>1. P[i] \in Seq(Vertices)
    BY <1>3
  <2>2. P'[i] = IF a.priced /\ i = a.item THEN Append(P[i], c + 1) ELSE P[i]
    BY <1>2, <1>3, <1>4
  <2> HIDE DEF P
  <2> QED BY <2>1, <2>2
<1>8. \A i \in Item : DOMAIN D[i] = 1..Len(D[i]) /\ DOMAIN P[i] = 1..Len(P[i]) /\ Len(D[i]) \in Nat /\ Len(P[i]) \in Nat
  BY <1>3
<1>9. Numbers'
  <2> DEFINE Apart(D1, P1) == \A i, j \in Item : \A n \in DOMAIN P1[i], m \in DOMAIN D1[j] : P1[i][n] # D1[j][m]
             Own(S) == \A i, j \in Item : \A n \in DOMAIN S[i], m \in DOMAIN S[j] : S[i][n] = S[j][m] => i = j
             Rise(S) == \A i \in Item : \A n, m \in DOMAIN S[i] : n < m => S[i][n] < S[i][m]
             Grown(S, T, x) == \A i \in Item : \A n \in DOMAIN T[i] :
                                  \/ n \in DOMAIN S[i] /\ T[i][n] = S[i][n]
                                  \/ i = a.item /\ n = Len(S[i]) + 1 /\ T[i][n] = x
             Below(S) == \A i \in Item : \A n \in DOMAIN S[i] : S[i][n] \in Int /\ S[i][n] < c
             Counted(S) == \A i \in Item : Len(S[i]) \in Nat /\ DOMAIN S[i] = 1..Len(S[i])
  <2>1. Numbers = (Apart(D, P) /\ Own(P) /\ Own(D) /\ Rise(P) /\ Rise(D))
    BY DEF Numbers
  <2>2. Numbers' = (Apart(D', P') /\ Own(P') /\ Own(D') /\ Rise(P') /\ Rise(D'))
    BY DEF Numbers
  <2>3. PICK D1, P1 : D1 = D' /\ P1 = P'
    OBVIOUS
  <2>4. Below(D) /\ Below(P) /\ Counted(D) /\ Counted(P)
    <3> HIDE DEF D, P, c
    <3>1. Below(D) /\ Below(P)
      BY <1>5
    <3>2. Counted(D) /\ Counted(P)
      BY <1>8
    <3> QED BY <3>1, <3>2
  <2>41. Grown(D, D1, c)
    <3> HIDE DEF D, P, c
    <3> QED BY <1>6, <2>3
  <2>42. Grown(P, P1, c + 1)
    <3> HIDE DEF D, P, c
    <3> QED BY <1>7, <2>3
  <2>5. c \in Int
    BY <1>2
  <2>51. Numbers
    BY DEF RInv
  <2>52. Apart(D, P) /\ Own(P) /\ Own(D) /\ Rise(P) /\ Rise(D)
    BY <2>1, <2>51
  <2> HIDE DEF D, P, c
  <2>6. Apart(D1, P1)
    BY <2>4, <2>41, <2>42, <2>5, <2>52
  <2>10. Own(P1) /\ Own(D1)
    BY <2>4, <2>41, <2>42, <2>5, <2>52
  <2>11. Rise(P1) /\ Rise(D1)
    BY <2>4, <2>41, <2>42, <2>5, <2>52
  <2> HIDE DEF Apart, Own, Rise
  <2>12. Apart(D', P') /\ Own(P') /\ Own(D') /\ Rise(P') /\ Rise(D')
    BY <2>3, <2>6, <2>10, <2>11
  <2> QED BY <2>2, <2>12
<1>10. \A i \in Item : /\ HasPrice(i)' <=> HasPrice(i) \/ (a.priced /\ i = a.item)
                       /\ HasDemand(i)' <=> HasDemand(i) \/ i = a.item
  <2> TAKE i \in Item
  <2>1. D[i] \in Seq(Vertices) /\ P[i] \in Seq(Vertices)
    BY <1>3
  <2>2. /\ D'[i] = IF i = a.item THEN Append(D[i], c) ELSE D[i]
        /\ P'[i] = IF a.priced /\ i = a.item THEN Append(P[i], c + 1) ELSE P[i]
    BY <1>2, <1>3, <1>4
  <2>5. \A s \in Seq(Vertices) : \A x : Append(s, x) # <<>>
    <3> TAKE s \in Seq(Vertices)
    <3> TAKE x
    <3>1. Len(Append(s, x)) = Len(s) + 1 /\ Len(s) \in Nat /\ Len(<<>>) = 0
      OBVIOUS
    <3> QED BY <3>1
  <2>6. Append(D[i], c) # <<>> /\ Append(P[i], c + 1) # <<>>
    <3> HIDE DEF D, P
    <3> QED BY <2>1, <2>5
  <2>7. PICK x, y, u, w : x = P[i] /\ y = P'[i] /\ u = D[i] /\ w = D'[i]
    OBVIOUS
  <2>8. (y # <<>>) <=> (x # <<>>) \/ (a.priced /\ i = a.item)
    BY <2>2, <2>6, <2>7
  <2>9. (w # <<>>) <=> (u # <<>>) \/ i = a.item
    <3> HIDE DEF D, P, c
    <3> QED BY <2>2, <2>6, <2>7
  <2>10. (HasPrice(i)' <=> (y # <<>>)) /\ (HasPrice(i) <=> (x # <<>>))
    BY <2>7 DEF HasPrice
  <2>11. (HasDemand(i)' <=> (w # <<>>)) /\ (HasDemand(i) <=> (u # <<>>))
    BY <2>7 DEF HasDemand
  <2> QED BY <2>8, <2>9, <2>10, <2>11
<1>11. phase = "collect" /\ phase' = "collect" /\ registered' = registered \cup {a}
       /\ mDependencyItems' = mDependencyItems \cup {a.item}
  BY DEF ResolveActivityToDependency
<1>12. Registered'
  <2>2. Registered
    BY DEF RInv
  <2>3. ASSUME NEW i \in Item
        PROVE  /\ HasPrice(i)' <=> \E b \in registered' : b.item = i /\ b.priced
               /\ HasDemand(i)' <=> \E b \in registered' : b.item = i
               /\ HasDemand(i)' => i \in mDependencyItems'
    <3>1. /\ HasPrice(i)' <=> HasPrice(i) \/ (a.priced /\ i = a.item)
          /\ HasDemand(i)' <=> HasDemand(i) \/ i = a.item
      BY <1>10
    <3>2. /\ HasPrice(i) <=> \E b \in registered : b.item = i /\ b.priced
          /\ HasDemand(i) <=> \E b \in registered : b.item = i
          /\ HasDemand(i) => i \in mDependencyItems
      BY <2>2 DEF Registered
    <3>3. (\E b \in registered' : b.item = i) <=> (\E b \in registered : b.item = i) \/ i = a.item
      BY <1>11
    <3>4. (\E b \in registered' : b.item = i /\ b.priced) <=>
             (\E b \in registered : b.item = i /\ b.priced) \/ (a.priced /\ i = a.item)
      BY <1>11
    <3>5. i \in mDependencyItems' <=> i \in mDependencyItems \/ i = a.item
      BY <1>11
    <3> QED BY <3>1, <3>2, <3>3, <3>4, <3>5
  <2>4. phase' # "collect" => registered' = Activity
    BY <1>11
  <2> QED BY <2>3, <2>4 DEF Registered
<1> QED
  BY <1>1, <1>9, <1>11, <1>12 DEF RInv, DeclaredSoFar, UnpricedEnds, ResolveActivityToDependency

LEMMA RInvConnectGraph ==
    ASSUME RInv, ConnectGraph
    PROVE  RInv'
<1>1. TInv'
  BY TInvConnectGraph, ConstantsAssumption DEF RInv
<1>2. /\ phase = "collect" /\ phase' = "split" /\ registered = Activity
      /\ mDependentList' = SharedDependents
      /\ UNCHANGED <<registered, mDependencyItems, mCanBreakCycle, mDemandVertices, mPriceVertices>>
  BY DEF ConnectGraph
<1>3. Numbers'
  BY <1>2 DEF RInv, Numbers
<1>4. Registered'
  BY <1>2 DEF RInv, Registered, HasPrice, HasDemand
<1>5. \A i \in Item : \A x \in SharedDependents[i] : \E d \in Declaration :
         /\ d.dependent = x /\ d.dependency # x
         /\ i = d.dependency \/ (MarketOf[i] = MarketOf[d.dependency] /\ MarketOf[i] # NoMarket)
  <2> TAKE i \in Item
  <2> TAKE x \in SharedDependents[i]
  <2>1. PICK j \in Item : /\ x \in mDependentList[j]
                          /\ i = j \/ (MarketOf[j] = MarketOf[i] /\ MarketOf[i] # NoMarket)
    BY DEF SharedDependents, Grouped, RInv, TInv, TypeOK
  <2> QED BY <1>2, <2>1 DEF RInv, DeclaredSoFar
<1>6. UnpricedEnds'
  <2> SUFFICES ASSUME NEW i \in Item, ~HasPrice(i), HasDemand(i), ~SetBySolver(i),
                      SharedDependents[i] # {}, NEW j \in Item, i \in SharedDependents[j]
               PROVE  FALSE
    BY <1>2 DEF UnpricedEnds, HasPrice, HasDemand, SetBySolver, IsSolved
  <2>1. PICK d \in Declaration :
           /\ d.dependency # d.dependent
           /\ i = d.dependency \/ (MarketOf[i] = MarketOf[d.dependency] /\ MarketOf[i] # NoMarket)
    BY <1>5
  <2>2. PICK c \in Declaration : c.dependent = i /\ c.dependency # i
    BY <1>5
  <2>3. ~Priced(i) /\ \E a \in Activity : a.item = i
    BY <1>2 DEF RInv, Registered, Priced
  <2>4. MarketOf[i] \in Solved /\ \A e \in Declaration : e.dependency = i => e.canBreak
    BY <2>1, <2>2, <2>3, ConfigurationAssumption
  <2> QED BY <1>2, <2>4 DEF RInv, DeclaredSoFar, SetBySolver, IsSolved
<1> QED
  BY <1>1, <1>2, <1>3, <1>4, <1>6 DEF RInv, DeclaredSoFar

LEMMA RInvStep == RInv /\ [Next]_vars => RInv'
<1> SUFFICES ASSUME RInv, [Next]_vars PROVE RInv'
  OBVIOUS
<1>1. TInv'
  BY TInvStep, ConstantsAssumption DEF RInv
<1>2. ASSUME NEW i \in Item, SplitSelfDependent(i) PROVE RInv'
  BY <1>1, <1>2, RegistrationKept DEF SplitSelfDependent, TrialsFail
<1>3. ASSUME NEW k \in Asked, GetOrdering(k) PROVE RInv'
  BY <1>1, <1>3, RegistrationKept DEF GetOrdering
<1>4. ASSUME NEW v \in Vertices, ListRemoved(v) PROVE RInv'
  BY <1>1, <1>4, RegistrationKept DEF ListRemoved
<1>5. CASE BreakCycle
  <2>1. phase = "break" /\ phase' \in {"sort", "noVertex", "noTrial"} /\ UNCHANGED registration
    BY <1>5 DEF BreakCycle, TrialsFail
  <2> QED BY <1>1, <2>1, RegistrationKept
<1>6. CASE StartSort \/ StartPass \/ Finish \/ FindCycles \/ GiveUp
  BY <1>1, <1>6, RegistrationKept DEF StartSort, StartPass, Finish, FindCycles, GiveUp
<1>7. CASE UNCHANGED vars
  BY <1>1, <1>7 DEF vars, registration, RInv, Numbers, Registered, DeclaredSoFar, UnpricedEnds, SetBySolver,
       IsSolved, HasPrice, HasDemand
<1> QED
  BY <1>2, <1>3, <1>4, <1>5, <1>6, <1>7, RInvAddDependency, RInvResolve, RInvConnectGraph
  DEF Next, Stop

-----------------------------------------------------------------------------
(* Which edges there are *)

EdgesOf(i) == ChainEdges(i) \cup LandEdges(i, mDependentList[i]) \cup DependEdges(i, mDependentList[i])

\* The edges createOrdering starts with.
Connected == UNION {EdgesOf(i) : i \in mDependencyItems}

\* The items createTrialsForItem has split; what it leaves of the graph.
TrialEdge(i) == Edge(LastPrice(i), FirstDemand(i), "trial")
Split == {i \in Item : HasPrice(i) /\ TrialEdge(i) \in edges}
Kept(e) == \A i \in Split : e.from # LastPrice(i) /\ (e.to = FirstDemand(i) => FixedVertex(e.from))
GraphInv == phase # "collect" => edges = {e \in Connected : Kept(e)} \cup {TrialEdge(i) : i \in Split}

\* Who may be split: whose markets became price markets.
SplitInv ==
    /\ \A i \in Split : MarketOf[i] \in trials
    /\ trials \subseteq Normal
    /\ \A i \in Split : mDependentList[i] = {} => i \in mHasSelfDependence
    /\ toSplit \subseteq mHasSelfDependence

\* The seven ways in which one vertex comes before another.
PriceChain(e) == \E i \in Item : \E n \in 1..(Len(mPriceVertices[i]) - 1) :
                    e = Edge(mPriceVertices[i][n], mPriceVertices[i][n + 1], "chain")
DemandChain(e) == \E i \in Item : \E n \in 1..(Len(mDemandVertices[i]) - 1) :
                     e = Edge(mDemandVertices[i][n + 1], mDemandVertices[i][n], "chain")
Fold(e) == \E i \in Item : /\ HasPrice(i) /\ mDependentList[i] = {} /\ ~SetBySolver(i)
                           /\ e = Edge(LastPrice(i), FirstDemand(i), "depend")
PriceToPrice(e) ==
    \E i \in mDependencyItems : \E d \in mDependentList[i] :
        /\ HasPrice(i) /\ ~SetBySolver(i) /\ HasPrice(d)
        /\ e = Edge(LastPrice(i), FirstPrice(d), "depend")
PriceToDemand(e) ==
    \E i \in mDependencyItems : \E d \in mDependentList[i] :
        /\ HasPrice(i) /\ ~SetBySolver(i) /\ ~HasPrice(d) /\ HasDemand(d)
        /\ e = Edge(LastPrice(i), FirstDemand(d), "depend")
DemandToDemand(e) ==
    \E i \in mDependencyItems : \E d \in mDependentList[i] :
        /\ HasDemand(i) /\ ~SetBySolver(i) /\ HasDemand(d)
        /\ e = Edge(LastDemand(d), FirstDemand(i), "depend")
PriceToLand(e) ==
    \E i \in mDependencyItems : \E l \in mDependentList[i] \cap LandAllocator :
        /\ HasPrice(i) /\ IsSolved(i)
        /\ e = Edge(LastPrice(i), FirstDemand(l), "land")
LandToDemand(e) ==
    \E i \in mDependencyItems : \E l \in mDependentList[i] \cap LandAllocator :
        /\ HasPrice(i) /\ IsSolved(i)
        /\ e = Edge(LastDemand(l), FirstDemand(i), "land")

\* Every edge createOrdering starts with is one of these.
LEMMA ConnectedShape ==
    ASSUME RInv, NEW e \in Connected
    PROVE  \/ PriceChain(e) \/ DemandChain(e) \/ Fold(e) \/ PriceToPrice(e) \/ PriceToDemand(e)
           \/ DemandToDemand(e) \/ PriceToLand(e) \/ LandToDemand(e)
<1>1. PICK i \in mDependencyItems : e \in EdgesOf(i)
  BY DEF Connected
<1>2. i \in Item
  BY DEF RInv, TInv, TypeOK
<1>3. CASE e \in ChainEdges(i)
  BY <1>2, <1>3 DEF ChainEdges, PriceChain, DemandChain
<1>4. CASE e \in LandEdges(i, mDependentList[i])
  BY <1>4 DEF LandEdges, PriceToLand, LandToDemand
<1>5. CASE e \in DependEdges(i, mDependentList[i])
  <2>1. ~SetBySolver(i) /\ HasDemand(i)
    BY <1>5 DEF DependEdges, SetBySolver
  <2>2. CASE mDependentList[i] = {} /\ HasPrice(i)
    <3>1. e = Edge(LastPrice(i), FirstDemand(i), "depend")
      BY <1>5, <2>1, <2>2 DEF DependEdges, SetBySolver
    <3> QED BY <1>2, <2>1, <2>2, <3>1 DEF Fold
  <2>3. CASE e \in PriceEdges(i, mDependentList[i])
    <3>1. HasPrice(i)
      BY <2>3 DEF PriceEdges
    <3>2. CASE \E d \in mDependentList[i] : HasPrice(d) /\ e = Edge(LastPrice(i), FirstPrice(d), "depend")
      BY <2>1, <3>1, <3>2 DEF PriceToPrice
    <3>3. CASE \E d \in mDependentList[i] : ~HasPrice(d) /\ HasDemand(d)
                                            /\ e = Edge(LastPrice(i), FirstDemand(d), "depend")
      BY <2>1, <3>1, <3>3 DEF PriceToDemand
    <3> QED BY <2>3, <3>1, <3>2, <3>3 DEF PriceEdges
  <2>4. CASE e \in DemandEdges(i, mDependentList[i])
    BY <2>1, <2>4 DEF DemandEdges, DemandToDemand
  <2> QED BY <1>5, <2>1, <2>2, <2>3, <2>4 DEF DependEdges, SetBySolver
<1> QED
  BY <1>1, <1>3, <1>4, <1>5 DEF EdgesOf

\* And all of these are there.
LEMMA ShapeConnected ==
    ASSUME RInv, NEW e,
           \/ PriceChain(e) \/ DemandChain(e) \/ Fold(e) \/ PriceToPrice(e) \/ PriceToDemand(e)
           \/ DemandToDemand(e) \/ PriceToLand(e) \/ LandToDemand(e)
    PROVE  e \in Connected
<1>1. /\ \A i \in Item : HasDemand(i) => i \in mDependencyItems
      /\ \A i \in Item : HasPrice(i) => HasDemand(i)
      /\ mDependencyItems \subseteq Item
  BY DEF RInv, Registered, TInv, TypeOK
<1>2. \A i \in mDependencyItems : EdgesOf(i) \subseteq Connected
  BY DEF Connected
<1>3. ASSUME PriceChain(e) \/ DemandChain(e) PROVE e \in Connected
  <2>1. PICK i \in Item : /\ e \in ChainEdges(i)
                          /\ Len(mPriceVertices[i]) > 1 \/ Len(mDemandVertices[i]) > 1
    <3>0. \A i \in Item : Len(mPriceVertices[i]) \in Nat /\ Len(mDemandVertices[i]) \in Nat
      BY DEF RInv, TInv, TypeOK
    <3>1. CASE PriceChain(e)
      BY <3>0, <3>1 DEF PriceChain, ChainEdges
    <3>2. CASE DemandChain(e)
      BY <3>0, <3>2 DEF DemandChain, ChainEdges
    <3> QED BY <1>3, <3>1, <3>2
  <2>2. HasPrice(i) \/ HasDemand(i)
    BY <2>1 DEF HasPrice, HasDemand
  <2> QED BY <1>1, <1>2, <2>1, <2>2 DEF EdgesOf
<1>4. ASSUME Fold(e) PROVE e \in Connected
  <2>1. PICK i \in Item : /\ HasPrice(i) /\ mDependentList[i] = {} /\ ~SetBySolver(i)
                          /\ e = Edge(LastPrice(i), FirstDemand(i), "depend")
    BY <1>4 DEF Fold
  <2>2. e \in DependEdges(i, mDependentList[i])
    BY <1>1, <2>1 DEF DependEdges, SetBySolver
  <2> QED BY <1>1, <1>2, <2>1, <2>2 DEF EdgesOf
<1>5. ASSUME PriceToPrice(e) \/ PriceToDemand(e) PROVE e \in Connected
  <2>1. PICK i \in mDependencyItems : /\ HasPrice(i) /\ ~SetBySolver(i) /\ mDependentList[i] # {}
                                      /\ e \in PriceEdges(i, mDependentList[i])
    BY <1>5 DEF PriceToPrice, PriceToDemand, PriceEdges
  <2>2. e \in DependEdges(i, mDependentList[i])
    BY <1>1, <2>1 DEF DependEdges, SetBySolver
  <2> QED BY <1>2, <2>2 DEF EdgesOf
<1>6. ASSUME DemandToDemand(e) PROVE e \in Connected
  <2>1. PICK i \in mDependencyItems : /\ HasDemand(i) /\ ~SetBySolver(i) /\ mDependentList[i] # {}
                                      /\ e \in DemandEdges(i, mDependentList[i])
    BY <1>6 DEF DemandToDemand, DemandEdges
  <2>2. e \in DependEdges(i, mDependentList[i])
    BY <2>1 DEF DependEdges, SetBySolver
  <2> QED BY <1>2, <2>2 DEF EdgesOf
<1>7. ASSUME PriceToLand(e) \/ LandToDemand(e) PROVE e \in Connected
  <2>1. PICK i \in mDependencyItems : e \in LandEdges(i, mDependentList[i])
    BY <1>7 DEF PriceToLand, LandToDemand, LandEdges
  <2> QED BY <1>2, <2>1 DEF EdgesOf
<1> QED
  BY <1>3, <1>4, <1>5, <1>6, <1>7

-----------------------------------------------------------------------------
(* Whose vertex it is *)

PriceVertex(i, v) == \E n \in DOMAIN mPriceVertices[i] : mPriceVertices[i][n] = v
DemandVertexOf(i, v) == \E n \in DOMAIN mDemandVertices[i] : mDemandVertices[i][n] = v

\* Where the vertices of an item are: at the places of two sequences.
LEMMA Positions ==
    ASSUME RInv, NEW i \in Item
    PROVE  /\ Len(mPriceVertices[i]) \in Nat /\ DOMAIN mPriceVertices[i] = 1..Len(mPriceVertices[i])
           /\ Len(mDemandVertices[i]) \in Nat /\ DOMAIN mDemandVertices[i] = 1..Len(mDemandVertices[i])
           /\ HasPrice(i) => /\ Len(mPriceVertices[i]) \in DOMAIN mPriceVertices[i]
                             /\ 1 \in DOMAIN mPriceVertices[i]
           /\ HasDemand(i) => /\ Len(mDemandVertices[i]) \in DOMAIN mDemandVertices[i]
                              /\ 1 \in DOMAIN mDemandVertices[i]
           /\ \A n \in DOMAIN mPriceVertices[i] : mPriceVertices[i][n] \in Vertices /\ HasPrice(i)
           /\ \A n \in DOMAIN mDemandVertices[i] : mDemandVertices[i][n] \in Vertices /\ HasDemand(i)
<1>1. mPriceVertices[i] \in Seq(Vertices) /\ mDemandVertices[i] \in Seq(Vertices)
  BY DEF RInv, TInv, TypeOK
<1> QED
  BY <1>1 DEF HasPrice, HasDemand

\* The ends of the chains are vertices of the item.
LEMMA Ends ==
    ASSUME RInv, NEW i \in Item
    PROVE  /\ HasPrice(i) => PriceVertex(i, FirstPrice(i)) /\ PriceVertex(i, LastPrice(i))
           /\ HasDemand(i) => DemandVertexOf(i, FirstDemand(i)) /\ DemandVertexOf(i, LastDemand(i))
BY Positions DEF PriceVertex, DemandVertexOf, FirstPrice, LastPrice, FirstDemand, LastDemand

\* No vertex is a price and a demand, and none belongs to two items.
LEMMA OneOwner ==
    ASSUME RInv, NEW i \in Item, NEW j \in Item, NEW v
    PROVE  /\ ~(PriceVertex(i, v) /\ DemandVertexOf(j, v))
           /\ PriceVertex(i, v) /\ PriceVertex(j, v) => i = j
           /\ DemandVertexOf(i, v) /\ DemandVertexOf(j, v) => i = j
BY DEF RInv, Numbers, PriceVertex, DemandVertexOf

\* An item's vertices at different places are different vertices.
LEMMA OnePlace ==
    ASSUME RInv, NEW i \in Item
    PROVE  /\ \A n, m \in DOMAIN mPriceVertices[i] : mPriceVertices[i][n] = mPriceVertices[i][m] => n = m
           /\ \A n, m \in DOMAIN mDemandVertices[i] : mDemandVertices[i][n] = mDemandVertices[i][m] => n = m
<1>1. /\ DOMAIN mPriceVertices[i] \subseteq Int /\ DOMAIN mDemandVertices[i] \subseteq Int
      /\ \A n \in DOMAIN mPriceVertices[i] : mPriceVertices[i][n] \in Int
      /\ \A n \in DOMAIN mDemandVertices[i] : mDemandVertices[i][n] \in Int
  BY Positions DEF Vertices
<1>2. /\ \A n, m \in DOMAIN mPriceVertices[i] : n < m => mPriceVertices[i][n] < mPriceVertices[i][m]
      /\ \A n, m \in DOMAIN mDemandVertices[i] : n < m => mDemandVertices[i][n] < mDemandVertices[i][m]
  BY DEF RInv, Numbers
<1>3. \A n, m \in DOMAIN mPriceVertices[i] : mPriceVertices[i][n] = mPriceVertices[i][m] => n = m
  <2> TAKE n, m \in DOMAIN mPriceVertices[i]
  <2>1. n \in Int /\ m \in Int
    BY <1>1
  <2>2. n < m \/ m < n \/ n = m
    BY <2>1
  <2> QED BY <1>1, <1>2, <2>2
<1>4. \A n, m \in DOMAIN mDemandVertices[i] : mDemandVertices[i][n] = mDemandVertices[i][m] => n = m
  <2> TAKE n, m \in DOMAIN mDemandVertices[i]
  <2>1. n \in Int /\ m \in Int
    BY <1>1
  <2>2. n < m \/ m < n \/ n = m
    BY <2>1
  <2> QED BY <1>1, <1>2, <2>2
<1> QED
  BY <1>3, <1>4

-----------------------------------------------------------------------------
(* Splitting an item *)

\* Land allocators and fixed outputs only have demands.
LEMMA OnlyDemands ==
    ASSUME RInv, phase # "collect"
    PROVE  /\ \A l \in LandAllocator : l \in Item /\ HasDemand(l)
           /\ \A l \in LandAllocator \cup FixedOutput : l \in Item /\ ~HasPrice(l)
<1>1. /\ \A i \in Item : HasPrice(i) <=> \E a \in Activity : a.item = i /\ a.priced
      /\ \A i \in Item : HasDemand(i) <=> \E a \in Activity : a.item = i
  BY DEF RInv, Registered
<1>2. LandAllocator \subseteq Item /\ FixedOutput \subseteq Item
      /\ \A l \in LandAllocator : \E a \in Activity : a.item = l
  BY ConstantsAssumption
<1>3. \A l \in LandAllocator \cup FixedOutput : ~Priced(l)
  BY ConfigurationAssumption
<1> QED
  BY <1>1, <1>2, <1>3 DEF Priced

\* The edge createTrialsForItem adds, part by part.
LEMMA TrialIs ==
    ASSUME NEW i PROVE TrialEdge(i).from = LastPrice(i) /\ TrialEdge(i).to = FirstDemand(i) /\ TrialEdge(i).kind = "trial"
BY DEF TrialEdge, Edge

\* createOrdering itself connects no trial edge.
LEMMA ConnectedKind ==
    ASSUME RInv, NEW e \in Connected
    PROVE  e.kind \in {"chain", "land", "depend"}
BY ConnectedShape DEF PriceChain, DemandChain, Fold, PriceToPrice, PriceToDemand, DemandToDemand, PriceToLand,
   LandToDemand, Edge

\* What comes before the first demand of an item.
LEMMA IntoDemand ==
    ASSUME RInv, phase # "collect", NEW e \in Connected, NEW j \in Item, HasDemand(j), e.to = FirstDemand(j)
    PROVE  \/ /\ HasPrice(j) /\ mDependentList[j] = {} /\ ~SetBySolver(j)
              /\ e = Edge(LastPrice(j), FirstDemand(j), "depend")
           \/ /\ ~HasPrice(j)
              /\ \E i \in Item : HasPrice(i) /\ j \in mDependentList[i] /\ e.from = LastPrice(i)
           \/ /\ ~SetBySolver(j)
              /\ \E d \in mDependentList[j] : HasDemand(d) /\ e = Edge(LastDemand(d), FirstDemand(j), "depend")
           \/ /\ HasPrice(j) /\ IsSolved(j)
              /\ \E l \in mDependentList[j] \cap LandAllocator : e = Edge(LastDemand(l), FirstDemand(j), "land")
<1>1. mDependencyItems \subseteq Item /\ mDependentList \in [Item -> SUBSET Item]
  BY DEF RInv, TInv, TypeOK
<1>2. DemandVertexOf(j, FirstDemand(j))
  BY Ends
<1>3. \A i \in Item : HasDemand(i) /\ e.to = FirstDemand(i) => i = j
  BY <1>2, Ends, OneOwner
<1>4. \A i \in Item : HasPrice(i) => e.to # FirstPrice(i)
  BY <1>2, Ends, OneOwner
<1>5. ~PriceChain(e)
  <2> SUFFICES ASSUME NEW i \in Item, NEW n \in 1..(Len(mPriceVertices[i]) - 1),
                      e = Edge(mPriceVertices[i][n], mPriceVertices[i][n + 1], "chain")
               PROVE  FALSE
    BY DEF PriceChain
  <2>1. n + 1 \in DOMAIN mPriceVertices[i]
    BY Positions
  <2>2. PriceVertex(i, e.to)
    BY <2>1 DEF PriceVertex, Edge
  <2> QED BY <1>2, <2>2, OneOwner
<1>6. ~DemandChain(e)
  <2> SUFFICES ASSUME NEW i \in Item, NEW n \in 1..(Len(mDemandVertices[i]) - 1),
                      e = Edge(mDemandVertices[i][n + 1], mDemandVertices[i][n], "chain")
               PROVE  FALSE
    BY DEF DemandChain
  <2>1. n \in DOMAIN mDemandVertices[i] /\ n # Len(mDemandVertices[i]) /\ e.to = mDemandVertices[i][n]
    BY Positions DEF Edge
  <2>2. i = j
    BY <1>2, <2>1, OneOwner DEF DemandVertexOf
  <2>3. Len(mDemandVertices[i]) \in DOMAIN mDemandVertices[i]
    BY Positions, <2>2
  <2> QED BY <2>1, <2>2, <2>3, OnePlace DEF FirstDemand
<1>7. CASE Fold(e)
  BY <1>3, <1>7 DEF Fold, Edge, RInv, TInv
<1>8. ~PriceToPrice(e)
  BY <1>1, <1>4 DEF PriceToPrice, Edge
<1>9. CASE PriceToDemand(e)
  BY <1>1, <1>3, <1>9 DEF PriceToDemand, Edge
<1>10. CASE DemandToDemand(e)
  BY <1>1, <1>3, <1>10 DEF DemandToDemand, Edge
<1>11. CASE PriceToLand(e)
  BY <1>1, <1>3, <1>11, OnlyDemands DEF PriceToLand, Edge
<1>12. CASE LandToDemand(e)
  BY <1>1, <1>3, <1>12 DEF LandToDemand, Edge, RInv, TInv
<1> QED
  BY <1>5, <1>6, <1>7, <1>8, <1>9, <1>10, <1>11, <1>12, ConnectedShape

\* The demand vertices and the fixed outputs' are vertices of items.
LEMMA DemandVertexIs ==
    ASSUME RInv, NEW v
    PROVE  /\ DemandVertex(v) <=> \E i \in Item : DemandVertexOf(i, v)
           /\ FixedVertex(v) <=> \E i \in FixedOutput : DemandVertexOf(i, v)
BY DEF DemandVertex, FixedVertex, DemandVertexOf

\* An item about to be split is not solved, has a price and a demand, and only
\* its dependents and its own price come before its demand.
Splittable(i) == CanReset(i) /\ HasPrice(i) /\ HasDemand(i)

\* What comes before its demand when createTrialsForItem gets to it.
LEMMA BeforeSplit ==
    ASSUME RInv, GraphInv, SplitInv, phase # "collect", NEW i \in Item, Splittable(i)
    PROVE  /\ i \notin Split /\ ~IsSolved(i) /\ ~SetBySolver(i) /\ i \in mDependencyItems
           /\ \A e \in edges : e.to = FirstDemand(i) =>
                 \/ mDependentList[i] = {} /\ e = Edge(LastPrice(i), FirstDemand(i), "depend")
                 \/ \E d \in mDependentList[i] : HasDemand(d) /\ e = Edge(LastDemand(d), FirstDemand(i), "depend")
<1>1. i \notin Split
  BY DEF SplitInv, Splittable, CanReset
<1>2. ~IsSolved(i) /\ ~SetBySolver(i)
  BY ConfigurationAssumption DEF Splittable, CanReset, IsSolved, SetBySolver
<1>3. i \in mDependencyItems
  BY DEF RInv, Registered, Splittable
<1>4. ASSUME NEW e \in edges, e.to = FirstDemand(i)
      PROVE  \/ mDependentList[i] = {} /\ e = Edge(LastPrice(i), FirstDemand(i), "depend")
             \/ \E d \in mDependentList[i] : HasDemand(d) /\ e = Edge(LastDemand(d), FirstDemand(i), "depend")
  <2>1. CASE e \in Connected
    BY <1>2, <1>4, <2>1, IntoDemand DEF Splittable
  <2>2. ASSUME NEW j \in Split, e = TrialEdge(j) PROVE FALSE
    <3>1. j \in Item /\ HasDemand(j) /\ e.to = FirstDemand(j)
      BY <2>2, TrialIs DEF Split, RInv, TInv
    <3>2. i = j
      BY <1>4, <3>1, Ends, OneOwner DEF Splittable
    <3> QED BY <1>1, <3>2
  <2> QED BY <2>1, <2>2 DEF GraphInv
<1> QED
  BY <1>1, <1>2, <1>3, <1>4

\* createTrialsForItem takes away everything out of the price and everything
\* into the demand but the fixed outputs, and adds the edge between the two.
LEMMA SplitEdges ==
    ASSUME RInv, GraphInv, SplitInv, phase # "collect", NEW i \in Item, CreateTrialsForItem(i)
    PROVE  edges' = {e \in edges : e.from # LastPrice(i) /\ (e.to = FirstDemand(i) => FixedVertex(e.from))}
                       \cup {TrialEdge(i)}
<1>1. Splittable(i)
  BY DEF CreateTrialsForItem, Splittable
<1>2. \A e \in edges : e.to = FirstDemand(i) =>
         \/ e.from = LastPrice(i) /\ e.kind = "depend"
         \/ DemandVertex(e.from) /\ e.kind = "depend"
  <2> SUFFICES ASSUME NEW e \in edges, e.to = FirstDemand(i)
               PROVE  \/ e.from = LastPrice(i) /\ e.kind = "depend"
                      \/ DemandVertex(e.from) /\ e.kind = "depend"
    OBVIOUS
  <2>1. CASE e = Edge(LastPrice(i), FirstDemand(i), "depend")
    BY <2>1 DEF Edge
  <2>2. ASSUME NEW d \in mDependentList[i], HasDemand(d), e = Edge(LastDemand(d), FirstDemand(i), "depend")
        PROVE  DemandVertex(e.from) /\ e.kind = "depend"
    <3>1. d \in Item
      BY DEF RInv, TInv, TypeOK
    <3> QED BY <2>2, <3>1, Ends, DemandVertexIs DEF Edge
  <2> QED BY <1>1, <2>1, <2>2, BeforeSplit
<1>3. \A f \in Feeding(i) : f.kind = "depend"
  BY <1>2 DEF Feeding
<1>4. Cut(i) = {e \in edges : e.to = FirstDemand(i) /\ DemandVertex(e.from) /\ ~FixedVertex(e.from)}
  BY <1>3 DEF Cut, Feeding
<1>5. ~DemandVertex(LastPrice(i))
  BY <1>1, Ends, OneOwner, DemandVertexIs DEF Splittable
<1>6. \A e \in edges : e \notin Cut(i) \cup Released(i) <=>
         e.from # LastPrice(i) /\ (e.to = FirstDemand(i) => FixedVertex(e.from))
  BY <1>2, <1>4, <1>5 DEF Released
<1>7. edges' = (edges \ (Cut(i) \cup Released(i))) \cup {TrialEdge(i)}
  BY DEF CreateTrialsForItem, TrialEdge
<1> QED
  BY <1>6, <1>7

\* While nothing is registered the vertices, their items and what
\* createOrdering connects stay the same.
LEMMA RegistrationOps ==
    ASSUME UNCHANGED registration
    PROVE  /\ Vertices' = Vertices /\ Connected' = Connected
           /\ \A i : /\ HasPrice(i)' = HasPrice(i) /\ HasDemand(i)' = HasDemand(i)
                     /\ FirstPrice(i)' = FirstPrice(i) /\ LastPrice(i)' = LastPrice(i)
                     /\ FirstDemand(i)' = FirstDemand(i) /\ LastDemand(i)' = LastDemand(i)
                     /\ TrialEdge(i)' = TrialEdge(i)
           /\ \A v : FixedVertex(v)' = FixedVertex(v) /\ DemandVertex(v)' = DemandVertex(v)
<1>1. /\ mDependentList' = mDependentList /\ mCanBreakCycle' = mCanBreakCycle /\ mDependencyItems' = mDependencyItems
      /\ mDemandVertices' = mDemandVertices /\ mPriceVertices' = mPriceVertices
      /\ mCalcVertexUIDCount' = mCalcVertexUIDCount
  BY DEF registration
<1>2. \A i : /\ HasPrice(i)' = HasPrice(i) /\ HasDemand(i)' = HasDemand(i)
             /\ FirstPrice(i)' = FirstPrice(i) /\ LastPrice(i)' = LastPrice(i)
             /\ FirstDemand(i)' = FirstDemand(i) /\ LastDemand(i)' = LastDemand(i)
             /\ TrialEdge(i)' = TrialEdge(i)
  BY <1>1 DEF HasPrice, HasDemand, FirstPrice, LastPrice, FirstDemand, LastDemand, TrialEdge
<1>3. \A v : FixedVertex(v)' = FixedVertex(v) /\ DemandVertex(v)' = DemandVertex(v)
  BY <1>1 DEF FixedVertex, DemandVertex
<1>4. Connected' = Connected
  BY <1>1 DEF Connected, EdgesOf, ChainEdges, LandEdges, DependEdges, PriceEdges, DemandEdges, HasPrice,
              HasDemand, FirstPrice, LastPrice, FirstDemand, LastDemand, IsSolved
<1> QED
  BY <1>1, <1>2, <1>3, <1>4 DEF Vertices

\* The graph and the items split after it.
LEMMA GraphAfterSplit ==
    ASSUME RInv, GraphInv, SplitInv, phase # "collect", NEW i \in Item, CreateTrialsForItem(i),
           UNCHANGED registration
    PROVE  Split' = Split \cup {i} /\ GraphInv'
<1>1. Splittable(i) /\ i \notin Split
  BY BeforeSplit DEF CreateTrialsForItem, Splittable
<1>2. edges' = {e \in edges : e.from # LastPrice(i) /\ (e.to = FirstDemand(i) => FixedVertex(e.from))}
                  \cup {TrialEdge(i)}
  BY SplitEdges
<1>3. \A j, k \in Item : HasPrice(j) /\ HasPrice(k) /\ LastPrice(j) = LastPrice(k) => j = k
  BY Ends, OneOwner
<1>4. \A j, k \in Item : HasPrice(j) /\ HasPrice(k) /\ FirstDemand(j) = FirstDemand(k) => j = k
  BY Ends, OneOwner DEF RInv, TInv
<1>5. \A j \in Item : HasPrice(j) => (TrialEdge(j) \in edges' <=> TrialEdge(j) \in edges \/ j = i)
  <2> TAKE j \in Item
  <2> HAVE HasPrice(j)
  <2>1. CASE j = i
    BY <1>2, <2>1
  <2>2. CASE j # i
    <3>1. TrialEdge(j).from # LastPrice(i) /\ TrialEdge(j).to # FirstDemand(i) /\ TrialEdge(j) # TrialEdge(i)
      BY <1>1, <1>3, <1>4, <2>2, TrialIs DEF Splittable
    <3> QED BY <1>2, <2>2, <3>1
  <2> QED BY <2>1, <2>2
<1>6. Split' = Split \cup {i}
  <2>1. \A j \in Item : HasPrice(j)' = HasPrice(j) /\ TrialEdge(j)' = TrialEdge(j)
    BY RegistrationOps
  <2>2. Split' = {j \in Item : HasPrice(j) /\ TrialEdge(j) \in edges'}
    BY <2>1 DEF Split
  <2>3. {j \in Item : HasPrice(j) /\ TrialEdge(j) \in edges'} = Split \cup {i}
    BY <1>1, <1>5 DEF Split, Splittable
  <2> QED BY <2>2, <2>3
<1>7. edges = {e \in Connected : Kept(e)} \cup {TrialEdge(j) : j \in Split}
  BY DEF GraphInv
<1>8. \A e : Kept(e)' <=> Kept(e) /\ e.from # LastPrice(i) /\ (e.to = FirstDemand(i) => FixedVertex(e.from))
  <2> TAKE e
  <2>1. Kept(e)' <=> \A j \in Split \cup {i} : e.from # LastPrice(j) /\ (e.to = FirstDemand(j) => FixedVertex(e.from))
    <3>1. Kept(e)' = (\A j \in Split' : e.from # LastPrice(j)' /\ (e.to = FirstDemand(j)' => FixedVertex(e.from)'))
      BY DEF Kept
    <3>2. FixedVertex(e.from)' = FixedVertex(e.from)
      BY RegistrationOps
    <3> QED BY <1>6, <3>1, <3>2, RegistrationOps
  <2> QED BY <2>1 DEF Kept
<1>9. edges' = {e \in Connected : Kept(e)'} \cup {TrialEdge(j) : j \in Split \cup {i}}
  <2>1. ASSUME NEW e \in edges' PROVE e \in {x \in Connected : Kept(x)'} \cup {TrialEdge(j) : j \in Split \cup {i}}
    BY <1>2, <1>7, <1>8
  <2>2. ASSUME NEW e \in Connected, Kept(e)' PROVE e \in edges'
    BY <1>2, <1>7, <1>8, <2>2
  <2>3. ASSUME NEW j \in Split \cup {i} PROVE TrialEdge(j) \in edges'
    <3>1. j \in Item /\ HasPrice(j)
      BY <1>1 DEF Split, Splittable
    <3>2. TrialEdge(j) \in edges \/ j = i
      BY DEF Split
    <3> QED BY <1>5, <3>1, <3>2
  <2> QED BY <2>1, <2>2, <2>3
<1>10. GraphInv'
  <2>1. Connected' = Connected
    BY RegistrationOps
  <2>2. {TrialEdge(j)' : j \in Split'} = {TrialEdge(j) : j \in Split \cup {i}}
    BY <1>6, RegistrationOps
  <2>3. GraphInv' = (phase' # "collect" => edges' = {e \in Connected' : Kept(e)'} \cup {TrialEdge(j)' : j \in Split'})
    BY DEF GraphInv
  <2> QED BY <1>9, <2>1, <2>2, <2>3
<1> QED
  BY <1>6, <1>10

-----------------------------------------------------------------------------
(* Cycles *)

\* Where every edge leads downwards no cycle can be reached.
LEMMA Descending ==
    ASSUME TypeOK, NEW E, NEW B, NEW f \in [B -> Int], NEW g \in [B -> Int],
           \A e \in E : e.from \in B => /\ e.to \in B
                                        /\ \/ f[e.to] < f[e.from]
                                           \/ f[e.to] = f[e.from] /\ g[e.to] < g[e.from],
           NEW v \in B
    PROVE  \A w \in Reach(E, {v}) : ~OnCycle(E, w)
<1>1. Reach(E, {v}) \subseteq B
  BY ReachClosed
<1>2. ASSUME NEW w \in B, OnCycle(E, w) PROVE FALSE
  <2> DEFINE C == {x \in B : f[x] < f[w] \/ (f[x] = f[w] /\ g[x] < g[w])}
  <2>1. PICK e \in E : e.from = w /\ w \in Reach(E, {e.to})
    BY <1>2 DEF OnCycle
  <2>2. e.to \in C
    BY <2>1
  <2>3. ASSUME NEW d \in E, d.from \in C PROVE d.to \in C
    <3>1. d.from \in B /\ d.to \in B
      BY <2>3
    <3>2. /\ f[d.from] \in Int /\ f[d.to] \in Int /\ f[w] \in Int
          /\ g[d.from] \in Int /\ g[d.to] \in Int /\ g[w] \in Int
      BY <3>1
    <3>3. f[d.from] < f[w] \/ (f[d.from] = f[w] /\ g[d.from] < g[w])
      BY <2>3
    <3>4. f[d.to] < f[d.from] \/ (f[d.to] = f[d.from] /\ g[d.to] < g[d.from])
      BY <3>1
    <3>5. f[d.to] < f[w] \/ (f[d.to] = f[w] /\ g[d.to] < g[w])
      BY <3>2, <3>3, <3>4
    <3> QED BY <3>1, <3>5
  <2>4. w \notin C
    BY <1>2
  <2> HIDE DEF C
  <2>5. Reach(E, {e.to}) \subseteq C
    BY <2>2, <2>3, ReachClosed
  <2> QED BY <2>1, <2>4, <2>5
<1> QED
  BY <1>1, <1>2

\* A vertex to which nothing after it leads back.
LEMMA NoWayBack ==
    ASSUME TypeOK, NEW E, NEW C, NEW v, v \notin C,
           \A e \in E : e.from = v \/ e.from \in C => e.to \in C
    PROVE  \A w : w # v /\ w \in Reach(E, {v}) => v \notin Reach(E, {w})
<1>1. Reach(E, {v}) \subseteq C \cup {v}
  <2>1. {v} \subseteq C \cup {v} /\ \A e \in E : e.from \in C \cup {v} => e.to \in C \cup {v}
    OBVIOUS
  <2> QED BY <2>1, ReachClosed
<1>2. ASSUME NEW w \in C PROVE v \notin Reach(E, {w})
  <2>1. {w} \subseteq C
    OBVIOUS
  <2>2. Reach(E, {w}) \subseteq C
    BY <2>1, ReachClosed
  <2> QED BY <2>2
<1> QED
  BY <1>1, <1>2

-----------------------------------------------------------------------------
(* The ordering *)

\* The self dependent items nothing depends on: the demand of such an item does
\* not wait for its price.
Heads == {FirstDemand(i) : i \in {j \in Split : mDependentList[j] = {}}}

\* A vertex has one place.
Places ==
    /\ Uncleared \cap (justRemoved \cup Listed) = {} /\ justRemoved \cap Listed = {}
    /\ \A j, k \in DOMAIN mGlobalOrdering : mGlobalOrdering[j] = mGlobalOrdering[k] => j = k
    /\ phase # "collect" => Vertices = Uncleared \cup justRemoved \cup Listed

\* What each phase starts from.
Stages ==
    /\ phase = "collect" => /\ edges = {} /\ Uncleared = {} /\ trials = {} /\ toSplit = {}
    /\ phase \in {"collect", "split"} => mGlobalOrdering = <<>> /\ totalVisits = {}
    /\ phase # "sort" => justRemoved = {}
    /\ phase = "break" => Ready = {}

OrderInv ==
    /\ \A e \in edges : e.to \notin Heads => Before(e.from, e.to)
    /\ \A e \in edges : e.to \in justRemoved \ Heads => e.from \in Listed

Waiting(v) == {e \in edges : e.to = v /\ e.from \notin Listed}
Counts ==
    phase # "collect" => \A v \in Uncleared :
        /\ v \in Heads => numDependencies[v] = 0 /\ mGlobalOrdering = <<>> /\ justRemoved = {}
        /\ v \notin Heads => numDependencies[v] = Cardinality(Waiting(v))

Visits ==
    /\ \A v \in totalVisits : \A i \in Item : Owns(i, v) => mDependentList[i] # {}
    /\ phase = "break" => totalVisits \subseteq Uncleared

IInv == RInv /\ GraphInv /\ SplitInv /\ Places /\ Stages /\ OrderInv /\ Counts /\ Visits

Pos(v) == CHOOSE j \in DOMAIN mGlobalOrdering : mGlobalOrdering[j] = v

\* The place of a listed vertex.
LEMMA PosIs ==
    ASSUME RInv, Places, NEW v \in Listed
    PROVE  Pos(v) \in DOMAIN mGlobalOrdering /\ mGlobalOrdering[Pos(v)] = v /\ Pos(v) \in Nat
<1>1. \E j \in DOMAIN mGlobalOrdering : mGlobalOrdering[j] = v
  BY DEF Listed
<1>2. DOMAIN mGlobalOrdering \subseteq Nat
  BY DEF RInv, TInv, TypeOK
<1> QED
  BY <1>1, <1>2 DEF Pos

\* What comes before a listed vertex has an earlier place.
LEMMA PosBefore ==
    ASSUME RInv, Places, NEW u, NEW v \in Listed, Before(u, v)
    PROVE  u \in Listed /\ Pos(u) < Pos(v)
<1>1. Pos(v) \in DOMAIN mGlobalOrdering /\ mGlobalOrdering[Pos(v)] = v /\ Pos(v) \in Nat
  BY PosIs
<1>2. PICK i \in 1..(Pos(v) - 1) : mGlobalOrdering[i] = u
  BY <1>1 DEF Before
<1>3. DOMAIN mGlobalOrdering = 1..Len(mGlobalOrdering) /\ Len(mGlobalOrdering) \in Nat
  BY DEF RInv, TInv, TypeOK
<1>4. i \in DOMAIN mGlobalOrdering /\ i < Pos(v)
  BY <1>1, <1>2, <1>3
<1>5. u \in Listed
  BY <1>2, <1>4 DEF Listed
<1>6. Pos(u) = i
  BY <1>2, <1>4, <1>5, PosIs DEF Places
<1> QED
  BY <1>4, <1>5, <1>6

\* Listing a vertex that is not a head.
LEMMA EdgeOrder ==
    ASSUME IInv, NEW e \in edges, e.to \notin Heads, e.to \in Listed
    PROVE  e.from \in Listed /\ Pos(e.from) < Pos(e.to)
BY PosBefore DEF IInv, OrderInv

\* Only the first demand of an item is a head.
LEMMA HeadIs ==
    ASSUME IInv, NEW v \in Heads
    PROVE  \E i \in Split : mDependentList[i] = {} /\ v = FirstDemand(i) /\ i \in Item /\ HasPrice(i) /\ HasDemand(i)
BY DEF Heads, Split, IInv, RInv, TInv

\* A price is no head, nor is a demand further down its chain or of an item that
\* has dependents.
LEMMA NotHead ==
    ASSUME IInv, NEW i \in Item
    PROVE  /\ \A v : PriceVertex(i, v) => v \notin Heads
           /\ \A n \in DOMAIN mDemandVertices[i] :
                 n # Len(mDemandVertices[i]) \/ ~HasPrice(i) \/ mDependentList[i] # {}
                   => mDemandVertices[i][n] \notin Heads
<1>1. RInv
  BY DEF IInv
<1>2. ASSUME NEW v \in Heads, PriceVertex(i, v) PROVE FALSE
  BY <1>1, <1>2, HeadIs, Ends, OneOwner
<1>3. ASSUME NEW n \in DOMAIN mDemandVertices[i], mDemandVertices[i][n] \in Heads
      PROVE  n = Len(mDemandVertices[i]) /\ HasPrice(i) /\ mDependentList[i] = {}
  <2>1. PICK j \in Split : /\ mDependentList[j] = {} /\ mDemandVertices[i][n] = FirstDemand(j) /\ j \in Item
                           /\ HasPrice(j) /\ HasDemand(j)
    BY <1>3, HeadIs
  <2>2. i = j
    BY <1>1, <2>1, Ends, OneOwner DEF DemandVertexOf
  <2>3. Len(mDemandVertices[i]) \in DOMAIN mDemandVertices[i]
    BY <1>1, <2>1, <2>2, Positions
  <2> QED BY <1>1, <2>1, <2>2, <2>3, OnePlace DEF FirstDemand
<1> QED
  BY <1>2, <1>3

\* The chains of an item stay.
LEMMA ChainsKept ==
    ASSUME IInv, phase # "collect", NEW i \in Item
    PROVE  /\ \A n \in 1..(Len(mPriceVertices[i]) - 1) :
                 Edge(mPriceVertices[i][n], mPriceVertices[i][n + 1], "chain") \in edges
           /\ \A n \in 1..(Len(mDemandVertices[i]) - 1) :
                 Edge(mDemandVertices[i][n + 1], mDemandVertices[i][n], "chain") \in edges
<1>1. RInv /\ GraphInv
  BY DEF IInv
<1>2. \A j \in Split : j \in Item /\ HasPrice(j) /\ HasDemand(j)
  BY <1>1 DEF Split, RInv, TInv
<1>3. ASSUME NEW n \in 1..(Len(mPriceVertices[i]) - 1)
      PROVE  Edge(mPriceVertices[i][n], mPriceVertices[i][n + 1], "chain") \in edges
  <2> DEFINE e == Edge(mPriceVertices[i][n], mPriceVertices[i][n + 1], "chain")
  <2>1. n \in DOMAIN mPriceVertices[i] /\ n + 1 \in DOMAIN mPriceVertices[i] /\ n # Len(mPriceVertices[i])
        /\ Len(mPriceVertices[i]) \in DOMAIN mPriceVertices[i]
    BY <1>1, Positions
  <2>2. e \in Connected
    BY <1>1, ShapeConnected DEF PriceChain
  <2>3. PriceVertex(i, e.from) /\ PriceVertex(i, e.to)
    BY <2>1 DEF PriceVertex, Edge
  <2>4. e.from # LastPrice(i)
    BY <1>1, <2>1, OnePlace DEF Edge, LastPrice
  <2>5. Kept(e)
    <3> SUFFICES ASSUME NEW j \in Split PROVE e.from # LastPrice(j) /\ e.to # FirstDemand(j)
      BY DEF Kept
    <3> HIDE DEF e
    <3> QED BY <1>1, <1>2, <2>3, <2>4, Ends, OneOwner
  <2> QED BY <1>1, <2>2, <2>5 DEF GraphInv
<1>4. ASSUME NEW n \in 1..(Len(mDemandVertices[i]) - 1)
      PROVE  Edge(mDemandVertices[i][n + 1], mDemandVertices[i][n], "chain") \in edges
  <2> DEFINE e == Edge(mDemandVertices[i][n + 1], mDemandVertices[i][n], "chain")
  <2>1. n \in DOMAIN mDemandVertices[i] /\ n + 1 \in DOMAIN mDemandVertices[i] /\ n # Len(mDemandVertices[i])
        /\ Len(mDemandVertices[i]) \in DOMAIN mDemandVertices[i]
    BY <1>1, Positions
  <2>2. e \in Connected
    BY <1>1, ShapeConnected DEF DemandChain
  <2>3. DemandVertexOf(i, e.from) /\ DemandVertexOf(i, e.to)
    BY <2>1 DEF DemandVertexOf, Edge
  <2>4. e.to # FirstDemand(i)
    BY <1>1, <2>1, OnePlace DEF Edge, FirstDemand
  <2>5. Kept(e)
    <3> SUFFICES ASSUME NEW j \in Split PROVE e.from # LastPrice(j) /\ e.to # FirstDemand(j)
      BY DEF Kept
    <3> HIDE DEF e
    <3> QED BY <1>1, <1>2, <2>3, <2>4, Ends, OneOwner
  <2> QED BY <1>1, <2>2, <2>5 DEF GraphInv
<1> QED
  BY <1>3, <1>4

\* What is listed of a chain is listed from its beginning.
LEMMA ChainsInOrder ==
    ASSUME IInv, phase # "collect", NEW i \in Item
    PROVE  /\ \A n \in DOMAIN mPriceVertices[i] : mPriceVertices[i][n] \in Listed =>
                 FirstPrice(i) \in Listed /\ Pos(FirstPrice(i)) <= Pos(mPriceVertices[i][n])
           /\ \A n \in DOMAIN mDemandVertices[i] : mDemandVertices[i][n] \in Listed =>
                 FirstDemand(i) \in Listed /\ Pos(FirstDemand(i)) <= Pos(mDemandVertices[i][n])
<1>1. RInv /\ Places
  BY DEF IInv
<1> DEFINE P == mPriceVertices[i]
           D == mDemandVertices[i]
<1>2. /\ Len(P) \in Nat /\ DOMAIN P = 1..Len(P) /\ Len(D) \in Nat /\ DOMAIN D = 1..Len(D)
  BY <1>1, Positions
<1>3. \A n \in DOMAIN P : n # 1 /\ P[n] \in Listed => P[n - 1] \in Listed /\ Pos(P[n - 1]) < Pos(P[n])
  <2> TAKE n \in DOMAIN P
  <2> HAVE n # 1 /\ P[n] \in Listed
  <2>1. n - 1 \in 1..(Len(P) - 1) /\ n - 1 + 1 = n
    BY <1>2
  <2>2. Edge(P[n - 1], P[n], "chain") \in edges
    BY <2>1, ChainsKept
  <2>3. P[n] \notin Heads
    BY NotHead DEF PriceVertex
  <2>4. Edge(P[n - 1], P[n], "chain").from = P[n - 1] /\ Edge(P[n - 1], P[n], "chain").to = P[n]
    BY DEF Edge
  <2> QED BY <2>2, <2>3, <2>4, EdgeOrder
<1>4. \A n \in DOMAIN D : n # Len(D) /\ D[n] \in Listed => D[n + 1] \in Listed /\ Pos(D[n + 1]) < Pos(D[n])
  <2> TAKE n \in DOMAIN D
  <2> HAVE n # Len(D) /\ D[n] \in Listed
  <2>1. n \in 1..(Len(D) - 1)
    BY <1>2
  <2>2. Edge(D[n + 1], D[n], "chain") \in edges
    BY <2>1, ChainsKept
  <2>3. D[n] \notin Heads
    BY NotHead
  <2>4. Edge(D[n + 1], D[n], "chain").from = D[n + 1] /\ Edge(D[n + 1], D[n], "chain").to = D[n]
    BY DEF Edge
  <2> QED BY <2>2, <2>3, <2>4, EdgeOrder
<1>5. \A v \in Listed : Pos(v) \in Nat
  BY <1>1, PosIs
<1>6. FirstPrice(i) = P[1] /\ FirstDemand(i) = D[Len(D)]
  BY DEF FirstPrice, FirstDemand
<1> HIDE DEF P, D
<1>7. \A n \in DOMAIN P : P[n] \in Listed => P[1] \in Listed /\ Pos(P[1]) <= Pos(P[n])
  <2> DEFINE T == {n \in DOMAIN P : P[n] \in Listed /\ ~(P[1] \in Listed /\ Pos(P[1]) <= Pos(P[n]))}
  <2> SUFFICES ASSUME T # {} PROVE FALSE
    OBVIOUS
  <2>1. PICK n \in T : \A m \in T : n <= m
    <3>1. T \in SUBSET Nat
      BY <1>2
    <3> HIDE DEF T
    <3> QED BY <3>1, LeastNumber
  <2>2. n # 1
    BY <1>5
  <2>3. n - 1 \in DOMAIN P /\ ~(n <= n - 1) /\ n \in DOMAIN P /\ P[n] \in Listed
    BY <1>2, <2>2
  <2>4. P[n - 1] \in Listed /\ Pos(P[n - 1]) < Pos(P[n])
    BY <1>3, <2>2, <2>3
  <2>5. n - 1 \notin T
    BY <2>1, <2>3
  <2>6. P[1] \in Listed /\ Pos(P[1]) <= Pos(P[n - 1])
    BY <2>3, <2>4, <2>5
  <2>7. Pos(P[1]) <= Pos(P[n])
    BY <1>5, <2>3, <2>4, <2>6
  <2> QED BY <2>1, <2>6, <2>7
<1>8. \A n \in DOMAIN D : D[n] \in Listed => D[Len(D)] \in Listed /\ Pos(D[Len(D)]) <= Pos(D[n])
  <2> DEFINE T == {k \in Nat : k < Len(D) /\ D[Len(D) - k] \in Listed
                                 /\ ~(D[Len(D)] \in Listed /\ Pos(D[Len(D)]) <= Pos(D[Len(D) - k]))}
  <2>1. T = {}
    <3> SUFFICES ASSUME T # {} PROVE FALSE
      OBVIOUS
    <3>1. PICK k \in T : \A m \in T : k <= m
      <4>1. T \in SUBSET Nat
        OBVIOUS
      <4> HIDE DEF T
      <4> QED BY <4>1, LeastNumber
    <3>2. k \in Nat /\ k < Len(D) /\ D[Len(D) - k] \in Listed
      OBVIOUS
    <3>3. k # 0
      BY <1>2, <1>5, <3>2
    <3>4. /\ Len(D) - k \in DOMAIN D /\ Len(D) - k # Len(D) /\ Len(D) - k + 1 = Len(D) - (k - 1)
          /\ k - 1 \in Nat /\ k - 1 < Len(D) /\ ~(k <= k - 1)
      <4>1. k \in Nat /\ k < Len(D) /\ k # 0
        BY <3>2, <3>3
      <4> HIDE DEF T
      <4>2. \A L, m \in Nat : m < L /\ m # 0 => L - m \in 1..L /\ L - m # L /\ L - m + 1 = L - (m - 1)
        OBVIOUS
      <4>3. k - 1 \in Nat /\ k - 1 < Len(D) /\ ~(k <= k - 1)
        BY <1>2, <4>1
      <4> QED BY <1>2, <4>1, <4>2, <4>3
    <3>5. D[Len(D) - (k - 1)] \in Listed /\ Pos(D[Len(D) - (k - 1)]) < Pos(D[Len(D) - k])
      BY <1>4, <3>2, <3>4
    <3>6. k - 1 \notin T
      BY <3>1, <3>4
    <3>7. D[Len(D)] \in Listed /\ Pos(D[Len(D)]) <= Pos(D[Len(D) - (k - 1)])
      BY <3>4, <3>5, <3>6
    <3>8. Pos(D[Len(D)]) <= Pos(D[Len(D) - k])
      BY <1>5, <3>2, <3>5, <3>7
    <3> QED BY <3>1, <3>7, <3>8
  <2> TAKE n \in DOMAIN D
  <2>2. Len(D) - n \in Nat /\ Len(D) - n < Len(D) /\ Len(D) - (Len(D) - n) = n
    BY <1>2
  <2> QED BY <2>1, <2>2
<1> QED
  BY <1>6, <1>7, <1>8 DEF P, D

-----------------------------------------------------------------------------
(* What comes after a vertex *)

IsPrice(v) == \E i \in Item : PriceVertex(i, v)
IsDemand(v) == \E i \in Item : DemandVertexOf(i, v)

\* Where an edge out of a price leads: along the chain, to the demand of the same
\* item, or to a dependent.
LEMMA OutOfPrice ==
    ASSUME RInv, GraphInv, phase # "collect", NEW e \in edges, NEW i \in Item, PriceVertex(i, e.from)
    PROVE  \/ \E n \in 1..(Len(mPriceVertices[i]) - 1) :
                 e.from = mPriceVertices[i][n] /\ e.to = mPriceVertices[i][n + 1]
           \/ /\ e.from = LastPrice(i) /\ e.to = FirstDemand(i) /\ HasDemand(i)
              /\ i \in Split \/ mDependentList[i] = {}
           \/ /\ e.from = LastPrice(i) /\ i \notin Split /\ ~SetBySolver(i)
              /\ \E d \in mDependentList[i] : HasPrice(d) /\ e.to = FirstPrice(d)
           \/ /\ e.from = LastPrice(i) /\ i \notin Split
              /\ \E d \in mDependentList[i] :
                    /\ ~HasPrice(d) /\ HasDemand(d) /\ e.to = FirstDemand(d)
                    /\ ~SetBySolver(i) \/ (IsSolved(i) /\ d \in LandAllocator)
<1>1. mDependencyItems \subseteq Item /\ mDependentList \in [Item -> SUBSET Item]
      /\ \A j \in Item : HasPrice(j) => HasDemand(j)
  BY DEF RInv, TInv, TypeOK
<1>2. \A j \in Item : HasPrice(j) /\ e.from = LastPrice(j) => j = i
  BY Ends, OneOwner
<1>3. \A j \in Item : DemandVertexOf(j, e.from) => FALSE
  BY OneOwner
<1>4. ASSUME NEW j \in Split, e = TrialEdge(j)
      PROVE  e.from = LastPrice(i) /\ e.to = FirstDemand(i) /\ HasDemand(i) /\ i \in Split
  <2>1. j \in Item /\ HasPrice(j) /\ HasDemand(j) /\ e.from = LastPrice(j) /\ e.to = FirstDemand(j)
    BY <1>1, <1>4, TrialIs DEF Split
  <2> QED BY <1>2, <2>1
<1>5. CASE e \in Connected /\ Kept(e)
  <2>1. e.from = LastPrice(i) => i \notin Split
    BY <1>5 DEF Kept
  <2>2. CASE PriceChain(e)
    <3>1a. PICK j \in Item : \E n \in 1..(Len(mPriceVertices[j]) - 1) :
             e = Edge(mPriceVertices[j][n], mPriceVertices[j][n + 1], "chain")
      BY <2>2 DEF PriceChain
    <3>1. PICK n \in 1..(Len(mPriceVertices[j]) - 1) :
             e = Edge(mPriceVertices[j][n], mPriceVertices[j][n + 1], "chain")
      BY <3>1a
    <3>2. n \in DOMAIN mPriceVertices[j] /\ e.from = mPriceVertices[j][n] /\ e.to = mPriceVertices[j][n + 1]
      BY <3>1, Positions DEF Edge
    <3>3. j = i
      BY <3>2, OneOwner DEF PriceVertex
    <3> QED BY <3>2, <3>3
  <2>3. ~DemandChain(e)
    <3> SUFFICES ASSUME NEW j \in Item, NEW n \in 1..(Len(mDemandVertices[j]) - 1),
                        e = Edge(mDemandVertices[j][n + 1], mDemandVertices[j][n], "chain")
                 PROVE  FALSE
      BY DEF DemandChain
    <3>1. n + 1 \in DOMAIN mDemandVertices[j] /\ e.from = mDemandVertices[j][n + 1]
      BY Positions DEF Edge
    <3> QED BY <1>3, <3>1 DEF DemandVertexOf
  <2>4. CASE Fold(e)
    BY <1>1, <1>2, <2>4 DEF Fold, Edge
  <2>5. CASE PriceToPrice(e)
    <3>1a. PICK j \in mDependencyItems : \E d \in mDependentList[j] :
             HasPrice(j) /\ ~SetBySolver(j) /\ HasPrice(d) /\ e = Edge(LastPrice(j), FirstPrice(d), "depend")
      BY <2>5 DEF PriceToPrice
    <3>1. PICK d \in mDependentList[j] :
             HasPrice(j) /\ ~SetBySolver(j) /\ HasPrice(d) /\ e = Edge(LastPrice(j), FirstPrice(d), "depend")
      BY <3>1a
    <3>2. e.from = LastPrice(j) /\ e.to = FirstPrice(d)
      BY <3>1 DEF Edge
    <3>3. j = i
      BY <1>1, <1>2, <3>1, <3>2
    <3> QED BY <2>1, <3>1, <3>2, <3>3
  <2>6. CASE PriceToDemand(e)
    <3>1a. PICK j \in mDependencyItems : \E d \in mDependentList[j] :
             /\ HasPrice(j) /\ ~SetBySolver(j) /\ ~HasPrice(d) /\ HasDemand(d)
             /\ e = Edge(LastPrice(j), FirstDemand(d), "depend")
      BY <2>6 DEF PriceToDemand
    <3>1. PICK d \in mDependentList[j] :
             /\ HasPrice(j) /\ ~SetBySolver(j) /\ ~HasPrice(d) /\ HasDemand(d)
             /\ e = Edge(LastPrice(j), FirstDemand(d), "depend")
      BY <3>1a
    <3>2. e.from = LastPrice(j) /\ e.to = FirstDemand(d)
      BY <3>1 DEF Edge
    <3>3. j = i
      BY <1>1, <1>2, <3>1, <3>2
    <3> QED BY <2>1, <3>1, <3>2, <3>3
  <2>7. ~DemandToDemand(e)
    BY <1>1, <1>3, Ends DEF DemandToDemand, Edge
  <2>8. CASE PriceToLand(e)
    <3>1a. PICK j \in mDependencyItems : \E d \in mDependentList[j] \cap LandAllocator :
             HasPrice(j) /\ IsSolved(j) /\ e = Edge(LastPrice(j), FirstDemand(d), "land")
      BY <2>8 DEF PriceToLand
    <3>1. PICK d \in mDependentList[j] \cap LandAllocator :
             HasPrice(j) /\ IsSolved(j) /\ e = Edge(LastPrice(j), FirstDemand(d), "land")
      BY <3>1a
    <3>2. e.from = LastPrice(j) /\ e.to = FirstDemand(d)
      BY <3>1 DEF Edge
    <3>3. j = i
      BY <1>1, <1>2, <3>1, <3>2
    <3>4. ~HasPrice(d) /\ HasDemand(d)
      BY OnlyDemands
    <3> QED BY <2>1, <3>1, <3>2, <3>3, <3>4
  <2>9. ~LandToDemand(e)
    BY <1>1, <1>3, Ends, OnlyDemands DEF LandToDemand, Edge
  <2> QED BY <1>5, <2>2, <2>3, <2>4, <2>5, <2>6, <2>7, <2>8, <2>9, ConnectedShape
<1> QED
  BY <1>4, <1>5 DEF GraphInv

\* Where an edge out of a demand leads: along the chain, or to an item it depends
\* on.
LEMMA OutOfDemand ==
    ASSUME RInv, GraphInv, phase # "collect", NEW e \in edges, NEW i \in Item, DemandVertexOf(i, e.from)
    PROVE  \/ \E n \in 1..(Len(mDemandVertices[i]) - 1) :
                 e.from = mDemandVertices[i][n + 1] /\ e.to = mDemandVertices[i][n]
           \/ /\ e.from = LastDemand(i)
              /\ \E k \in Item : /\ i \in mDependentList[k] /\ HasDemand(k) /\ e.to = FirstDemand(k)
                                 /\ (k \in Split => i \in FixedOutput)
                                 /\ ~SetBySolver(k) \/ (HasPrice(k) /\ i \in LandAllocator)
<1>1. mDependencyItems \subseteq Item /\ mDependentList \in [Item -> SUBSET Item]
      /\ \A j \in Item : HasPrice(j) => HasDemand(j)
  BY DEF RInv, TInv, TypeOK
<1>2. \A j \in Item : HasDemand(j) /\ e.from = LastDemand(j) => j = i
  BY Ends, OneOwner
<1>3. \A j \in Item : HasPrice(j) => e.from # LastPrice(j)
  BY Ends, OneOwner
<1>4. ASSUME NEW j \in Split PROVE e # TrialEdge(j)
  BY <1>3, TrialIs DEF Split
<1>5. e \in Connected /\ Kept(e)
  BY <1>4 DEF GraphInv
<1>6. \A k \in Split : e.to = FirstDemand(k) => i \in FixedOutput
  <2> TAKE k \in Split
  <2> HAVE e.to = FirstDemand(k)
  <2>1. FixedVertex(e.from)
    BY <1>5 DEF Kept
  <2>2. PICK f \in FixedOutput : DemandVertexOf(f, e.from)
    BY <2>1, DemandVertexIs
  <2>3. f \in Item
    BY ConstantsAssumption
  <2> QED BY <2>2, <2>3, OneOwner
<1>7. ~PriceChain(e)
  <2> SUFFICES ASSUME NEW j \in Item, NEW n \in 1..(Len(mPriceVertices[j]) - 1),
                      e = Edge(mPriceVertices[j][n], mPriceVertices[j][n + 1], "chain")
               PROVE  FALSE
    BY DEF PriceChain
  <2>1. n \in DOMAIN mPriceVertices[j] /\ e.from = mPriceVertices[j][n]
    BY Positions DEF Edge
  <2> QED BY <2>1, OneOwner DEF PriceVertex
<1>8. CASE DemandChain(e)
  <2>1a. PICK j \in Item : \E n \in 1..(Len(mDemandVertices[j]) - 1) :
           e = Edge(mDemandVertices[j][n + 1], mDemandVertices[j][n], "chain")
    BY <1>8 DEF DemandChain
  <2>1. PICK n \in 1..(Len(mDemandVertices[j]) - 1) :
           e = Edge(mDemandVertices[j][n + 1], mDemandVertices[j][n], "chain")
    BY <2>1a
  <2>2. n + 1 \in DOMAIN mDemandVertices[j] /\ e.from = mDemandVertices[j][n + 1] /\ e.to = mDemandVertices[j][n]
    BY <2>1, Positions DEF Edge
  <2>3. j = i
    BY <2>2, OneOwner DEF DemandVertexOf
  <2> QED BY <2>2, <2>3
<1>9. ~Fold(e)
  BY <1>3 DEF Fold, Edge
<1>10. ~PriceToPrice(e) /\ ~PriceToDemand(e) /\ ~PriceToLand(e)
  BY <1>1, <1>3 DEF PriceToPrice, PriceToDemand, PriceToLand, Edge
<1>11. CASE DemandToDemand(e)
  <2>1a. PICK k \in mDependencyItems : \E d \in mDependentList[k] :
           HasDemand(k) /\ ~SetBySolver(k) /\ HasDemand(d) /\ e = Edge(LastDemand(d), FirstDemand(k), "depend")
    BY <1>11 DEF DemandToDemand
  <2>1. PICK d \in mDependentList[k] :
           HasDemand(k) /\ ~SetBySolver(k) /\ HasDemand(d) /\ e = Edge(LastDemand(d), FirstDemand(k), "depend")
    BY <2>1a
  <2>2. e.from = LastDemand(d) /\ e.to = FirstDemand(k) /\ d \in Item /\ k \in Item
    BY <1>1, <2>1 DEF Edge
  <2>3. d = i
    BY <1>2, <2>1, <2>2
  <2> QED BY <1>6, <2>1, <2>2, <2>3
<1>12. CASE LandToDemand(e)
  <2>1a. PICK k \in mDependencyItems : \E d \in mDependentList[k] \cap LandAllocator :
           HasPrice(k) /\ IsSolved(k) /\ e = Edge(LastDemand(d), FirstDemand(k), "land")
    BY <1>12 DEF LandToDemand
  <2>1. PICK d \in mDependentList[k] \cap LandAllocator :
           HasPrice(k) /\ IsSolved(k) /\ e = Edge(LastDemand(d), FirstDemand(k), "land")
    BY <2>1a
  <2>2. e.from = LastDemand(d) /\ e.to = FirstDemand(k) /\ d \in Item /\ k \in Item /\ HasDemand(d) /\ HasDemand(k)
    BY <1>1, <2>1, OnlyDemands DEF Edge
  <2>3. d = i
    BY <1>2, <2>1, <2>2
  <2> QED BY <1>6, <2>1, <2>2, <2>3
<1> QED
  BY <1>5, <1>7, <1>8, <1>9, <1>10, <1>11, <1>12, ConnectedShape

\* Prices lead to prices and demands, demands to demands only, so no cycle has
\* both.
LEMMA EdgeSides ==
    ASSUME RInv, GraphInv, phase # "collect", NEW e \in edges
    PROVE  /\ IsPrice(e.from) \/ IsDemand(e.from)
           /\ IsPrice(e.from) => IsPrice(e.to) \/ IsDemand(e.to)
           /\ IsDemand(e.from) => IsDemand(e.to)
<1>1. mDependencyItems \subseteq Item /\ mDependentList \in [Item -> SUBSET Item]
      /\ \A j \in Item : HasPrice(j) => HasDemand(j)
  BY DEF RInv, TInv, TypeOK
<1>2. ASSUME NEW i \in Item, PriceVertex(i, e.from) PROVE IsPrice(e.to) \/ IsDemand(e.to)
  <2>1. ASSUME NEW n \in 1..(Len(mPriceVertices[i]) - 1), e.to = mPriceVertices[i][n + 1] PROVE IsPrice(e.to)
    <3>1. n + 1 \in DOMAIN mPriceVertices[i]
      BY Positions
    <3> QED BY <2>1, <3>1 DEF IsPrice, PriceVertex
  <2>2. ASSUME NEW j \in Item, HasPrice(j), e.to = FirstPrice(j) PROVE IsPrice(e.to)
    BY <2>2, Ends DEF IsPrice
  <2>3. ASSUME NEW j \in Item, HasDemand(j), e.to = FirstDemand(j) PROVE IsDemand(e.to)
    BY <2>3, Ends DEF IsDemand
  <2> QED BY <1>1, <1>2, <2>1, <2>2, <2>3, OutOfPrice
<1>3. ASSUME NEW i \in Item, DemandVertexOf(i, e.from) PROVE IsDemand(e.to)
  <2>1. ASSUME NEW n \in 1..(Len(mDemandVertices[i]) - 1), e.to = mDemandVertices[i][n] PROVE IsDemand(e.to)
    <3>1. n \in DOMAIN mDemandVertices[i]
      BY Positions
    <3> QED BY <2>1, <3>1 DEF IsDemand, DemandVertexOf
  <2>2. ASSUME NEW j \in Item, HasDemand(j), e.to = FirstDemand(j) PROVE IsDemand(e.to)
    BY <2>2, Ends DEF IsDemand
  <2> QED BY <1>1, <1>3, <2>1, <2>2, OutOfDemand
<1>4. IsPrice(e.from) \/ IsDemand(e.from)
  <2>1. ASSUME NEW j \in Split, e = TrialEdge(j) PROVE IsPrice(e.from)
    <3>1. j \in Item /\ HasPrice(j) /\ e.from = LastPrice(j)
      BY <2>1, TrialIs DEF Split
    <3> QED BY <3>1, Ends DEF IsPrice
  <2>2. CASE e \in Connected
    <3>1. CASE PriceChain(e)
      <4>1a. PICK j \in Item : \E n \in 1..(Len(mPriceVertices[j]) - 1) : e.from = mPriceVertices[j][n]
        BY <3>1 DEF PriceChain, Edge
      <4>1. PICK n \in 1..(Len(mPriceVertices[j]) - 1) : e.from = mPriceVertices[j][n]
        BY <4>1a
      <4>2. n \in DOMAIN mPriceVertices[j]
        BY Positions
      <4> QED BY <4>1, <4>2 DEF IsPrice, PriceVertex
    <3>2. CASE DemandChain(e)
      <4>1a. PICK j \in Item : \E n \in 1..(Len(mDemandVertices[j]) - 1) : e.from = mDemandVertices[j][n + 1]
        BY <3>2 DEF DemandChain, Edge
      <4>1. PICK n \in 1..(Len(mDemandVertices[j]) - 1) : e.from = mDemandVertices[j][n + 1]
        BY <4>1a
      <4>2. n + 1 \in DOMAIN mDemandVertices[j]
        BY Positions
      <4> QED BY <4>1, <4>2 DEF IsDemand, DemandVertexOf
    <3>3. ASSUME NEW j \in Item, HasPrice(j), e.from = LastPrice(j) PROVE IsPrice(e.from)
      BY <3>3, Ends DEF IsPrice
    <3>4. ASSUME NEW j \in Item, HasDemand(j), e.from = LastDemand(j) PROVE IsDemand(e.from)
      BY <3>4, Ends DEF IsDemand
    <3>5. CASE Fold(e)
      BY <3>3, <3>5 DEF Fold, Edge
    <3>6. CASE PriceToPrice(e) \/ PriceToDemand(e) \/ PriceToLand(e)
      BY <1>1, <3>3, <3>6 DEF PriceToPrice, PriceToDemand, PriceToLand, Edge
    <3>7. CASE DemandToDemand(e)
      BY <1>1, <3>4, <3>7 DEF DemandToDemand, Edge
    <3>8. CASE LandToDemand(e)
      BY <1>1, <3>4, <3>8, OnlyDemands DEF LandToDemand, Edge
    <3> QED BY <2>2, <3>1, <3>2, <3>5, <3>6, <3>7, <3>8, ConnectedShape
  <2> QED BY <2>1, <2>2 DEF GraphInv
<1> QED
  BY <1>2, <1>3, <1>4 DEF IsPrice, IsDemand

-----------------------------------------------------------------------------
(* What waits for what *)

\* The demand of an item that has not been split comes after its dependents'.
LEMMA DemandWaits ==
    ASSUME IInv, phase # "collect", NEW j \in Item, HasPrice(j), j \notin Split,
           NEW d \in mDependentList[j], HasDemand(d),
           ~SetBySolver(j) \/ (IsSolved(j) /\ d \in LandAllocator), FirstDemand(j) \in Listed
    PROVE  LastDemand(d) \in Listed /\ Pos(LastDemand(d)) < Pos(FirstDemand(j))
<1>1. RInv /\ GraphInv /\ HasDemand(j) /\ j \in mDependencyItems /\ d \in Item
  BY DEF IInv, RInv, TInv, TypeOK, Registered
<1>2. \A k \in Split : k \in Item /\ HasPrice(k) /\ HasDemand(k)
  BY <1>1 DEF Split, RInv, TInv
<1>3. PICK e \in Connected : e.from = LastDemand(d) /\ e.to = FirstDemand(j)
  <2>1. CASE ~SetBySolver(j)
    <3> DEFINE e == Edge(LastDemand(d), FirstDemand(j), "depend")
    <3>1. e \in Connected
      BY <1>1, <2>1, ShapeConnected DEF DemandToDemand
    <3> QED BY <3>1 DEF Edge
  <2>2. CASE IsSolved(j) /\ d \in LandAllocator
    <3> DEFINE e == Edge(LastDemand(d), FirstDemand(j), "land")
    <3>1. e \in Connected
      BY <1>1, <2>2, ShapeConnected DEF LandToDemand
    <3> QED BY <3>1 DEF Edge
  <2> QED BY <2>1, <2>2
<1>4. Kept(e)
  <2> SUFFICES ASSUME NEW k \in Split PROVE e.from # LastPrice(k) /\ e.to # FirstDemand(k)
    BY DEF Kept
  <2> QED BY <1>1, <1>2, <1>3, Ends, OneOwner
<1>5. e \in edges
  BY <1>1, <1>4 DEF GraphInv
<1>6. FirstDemand(j) \notin Heads
  <2>1. Len(mDemandVertices[j]) \in DOMAIN mDemandVertices[j]
    BY <1>1, Positions
  <2> QED BY <2>1, NotHead DEF FirstDemand
<1> QED
  BY <1>3, <1>5, <1>6, EdgeOrder

\* And its price before its dependents'; a dependent without a price waits for
\* it with its demand.
LEMMA PriceWaits ==
    ASSUME IInv, phase # "collect", NEW i \in Item, HasPrice(i), i \notin Split, ~SetBySolver(i),
           NEW d \in mDependentList[i], HasDemand(d)
    PROVE  /\ HasPrice(d) /\ FirstPrice(d) \in Listed =>
                 LastPrice(i) \in Listed /\ Pos(LastPrice(i)) < Pos(FirstPrice(d))
           /\ ~HasPrice(d) /\ FirstDemand(d) \in Listed => LastPrice(i) \in Listed
<1>1. RInv /\ GraphInv /\ HasDemand(i) /\ i \in mDependencyItems /\ d \in Item
  BY DEF IInv, RInv, TInv, TypeOK, Registered
<1>2. \A k \in Split : k \in Item /\ HasPrice(k) /\ HasDemand(k)
  BY <1>1 DEF Split, RInv, TInv
<1>3. ASSUME HasPrice(d), FirstPrice(d) \in Listed
      PROVE  LastPrice(i) \in Listed /\ Pos(LastPrice(i)) < Pos(FirstPrice(d))
  <2> DEFINE e == Edge(LastPrice(i), FirstPrice(d), "depend")
  <2>1. e \in Connected /\ e.from = LastPrice(i) /\ e.to = FirstPrice(d)
    BY <1>1, <1>3, ShapeConnected DEF PriceToPrice, Edge
  <2>2. Kept(e)
    <3> SUFFICES ASSUME NEW k \in Split PROVE e.from # LastPrice(k) /\ e.to # FirstDemand(k)
      BY DEF Kept
    <3> HIDE DEF e
    <3> QED BY <1>1, <1>2, <1>3, <2>1, Ends, OneOwner
  <2>3. e \in edges
    BY <1>1, <2>1, <2>2 DEF GraphInv
  <2>4. FirstPrice(d) \notin Heads
    BY <1>1, <1>3, Ends, NotHead
  <2> HIDE DEF e
  <2> QED BY <1>3, <2>1, <2>3, <2>4, EdgeOrder
<1>4. ASSUME ~HasPrice(d), FirstDemand(d) \in Listed PROVE LastPrice(i) \in Listed
  <2> DEFINE e == Edge(LastPrice(i), FirstDemand(d), "depend")
  <2>1. e \in Connected /\ e.from = LastPrice(i) /\ e.to = FirstDemand(d)
    BY <1>1, <1>4, ShapeConnected DEF PriceToDemand, Edge
  <2>2. Kept(e)
    <3> SUFFICES ASSUME NEW k \in Split PROVE e.from # LastPrice(k) /\ e.to # FirstDemand(k)
      BY DEF Kept
    <3> HIDE DEF e
    <3> QED BY <1>1, <1>2, <1>4, <2>1, Ends, OneOwner
  <2>3. e \in edges
    BY <1>1, <2>1, <2>2 DEF GraphInv
  <2>4. FirstDemand(d) \notin Heads
    <3>1. Len(mDemandVertices[d]) \in DOMAIN mDemandVertices[d]
      BY <1>1, Positions
    <3> QED BY <1>1, <1>4, <3>1, NotHead DEF FirstDemand
  <2> HIDE DEF e
  <2> QED BY <1>4, <2>1, <2>3, <2>4, EdgeOrder
<1> QED
  BY <1>3, <1>4

-----------------------------------------------------------------------------
(* Nothing is ready *)

Stuck == phase # "collect" /\ justRemoved = {} /\ Ready = {}

\* Then whatever waits waits for something that waits.
LEMMA StillWaiting ==
    ASSUME IInv, Stuck, NEW v \in Uncleared
    PROVE  \E e \in edges : e.to = v /\ e.from \in Uncleared
<1>1. numDependencies[v] # 0
  BY DEF Stuck, Ready
<1>2. numDependencies[v] = Cardinality(Waiting(v))
  BY <1>1 DEF IInv, Counts, Stuck
<1>3. PICK e \in Waiting(v) : TRUE
  BY <1>1, <1>2, FS_EmptySet
<1>4. e \in edges /\ e.to = v /\ e.from \notin Listed /\ e.from \in Vertices
  BY <1>3 DEF Waiting, IInv, RInv, TInv, TypeOK
<1> QED
  BY <1>4 DEF Stuck, IInv, Places

\* A chain is listed as a whole or not at all.
LEMMA WholeChains ==
    ASSUME IInv, Stuck, NEW i \in Item
    PROVE  /\ FirstPrice(i) \in Listed => \A n \in DOMAIN mPriceVertices[i] : mPriceVertices[i][n] \in Listed
           /\ FirstDemand(i) \in Listed => \A n \in DOMAIN mDemandVertices[i] : mDemandVertices[i][n] \in Listed
<1>1. RInv /\ GraphInv /\ phase # "collect"
  BY DEF IInv, Stuck
<1> DEFINE P == mPriceVertices[i]
           D == mDemandVertices[i]
<1>2. /\ Len(P) \in Nat /\ DOMAIN P = 1..Len(P) /\ Len(D) \in Nat /\ DOMAIN D = 1..Len(D)
      /\ \A n \in DOMAIN P : P[n] \in Vertices
      /\ \A n \in DOMAIN D : D[n] \in Vertices
  BY <1>1, Positions
<1>3. \A v \in Vertices : v \in Uncleared \/ v \in Listed
  BY DEF IInv, Places, Stuck
<1>31. \A v \in Uncleared : v \notin Listed
  BY DEF IInv, Places
<1>4. \A n \in DOMAIN P : n # 1 /\ P[n] \notin Listed => P[n - 1] \notin Listed
  <2> TAKE n \in DOMAIN P
  <2> HAVE n # 1 /\ P[n] \notin Listed
  <2>1. PICK e \in edges : e.to = P[n] /\ e.from \in Uncleared
    BY <1>2, <1>3, StillWaiting
  <2>2. PriceVertex(i, e.to)
    BY <2>1 DEF PriceVertex
  <2>3. \A x \in Item : HasDemand(x) => e.to # FirstDemand(x)
    BY <1>1, <2>2, Ends, OneOwner
  <2>4. \A x \in Item : HasPrice(x) => e.to # FirstPrice(x)
    <3> SUFFICES ASSUME NEW x \in Item, HasPrice(x), e.to = FirstPrice(x) PROVE FALSE
      OBVIOUS
    <3>1. x = i
      BY <1>1, <2>2, Ends, OneOwner
    <3>2. 1 \in DOMAIN P
      BY <1>1, <3>1, Positions
    <3> QED BY <1>1, <2>1, <3>1, <3>2, OnePlace DEF FirstPrice
  <2>5. IsPrice(e.from)
    BY <1>1, <2>2, EdgeSides, OneOwner DEF IsDemand
  <2>6. PICK j \in Item : PriceVertex(j, e.from)
    BY <2>5 DEF IsPrice
  <2>7. mDependentList[j] \subseteq Item
    BY <1>1 DEF RInv, TInv, TypeOK
  <2>8. PICK m \in 1..(Len(mPriceVertices[j]) - 1) : e.from = mPriceVertices[j][m] /\ e.to = mPriceVertices[j][m + 1]
    BY <1>1, <2>3, <2>4, <2>6, <2>7, OutOfPrice
  <2>9. m + 1 \in DOMAIN mPriceVertices[j] /\ m + 1 - 1 = m
    BY <1>1, Positions
  <2>10. j = i
    BY <1>1, <2>2, <2>8, <2>9, OneOwner DEF PriceVertex
  <2>11. m + 1 = n
    BY <1>1, <2>1, <2>8, <2>9, <2>10, OnePlace
  <2> QED BY <1>31, <2>1, <2>8, <2>9, <2>10, <2>11
<1>5. \A n \in DOMAIN D : n # Len(D) /\ D[n] \notin Listed => D[n + 1] \notin Listed
  <2> TAKE n \in DOMAIN D
  <2> HAVE n # Len(D) /\ D[n] \notin Listed
  <2>1. PICK e \in edges : e.to = D[n] /\ e.from \in Uncleared
    BY <1>2, <1>3, StillWaiting
  <2>2. DemandVertexOf(i, e.to)
    BY <2>1 DEF DemandVertexOf
  <2>3. \A x \in Item : HasPrice(x) => e.to # FirstPrice(x)
    BY <1>1, <2>2, Ends, OneOwner
  <2>4. \A x \in Item : HasDemand(x) => e.to # FirstDemand(x)
    <3> SUFFICES ASSUME NEW x \in Item, HasDemand(x), e.to = FirstDemand(x) PROVE FALSE
      OBVIOUS
    <3>1. x = i
      BY <1>1, <2>2, Ends, OneOwner
    <3>2. Len(D) \in DOMAIN D
      BY <1>1, <3>1, Positions
    <3> QED BY <1>1, <2>1, <3>1, <3>2, OnePlace DEF FirstDemand
  <2>5. ASSUME NEW j \in Item, PriceVertex(j, e.from) PROVE FALSE
    <3>1. mDependentList[j] \subseteq Item
      BY <1>1 DEF RInv, TInv, TypeOK
    <3>2. PICK m \in 1..(Len(mPriceVertices[j]) - 1) : e.to = mPriceVertices[j][m + 1]
      BY <1>1, <2>3, <2>4, <2>5, <3>1, OutOfPrice
    <3>3. m + 1 \in DOMAIN mPriceVertices[j]
      BY <1>1, Positions
    <3> QED BY <1>1, <2>2, <3>2, <3>3, OneOwner DEF PriceVertex
  <2>6. PICK j \in Item : DemandVertexOf(j, e.from)
    BY <1>1, <2>5, EdgeSides DEF IsPrice, IsDemand
  <2>8. PICK m \in 1..(Len(mDemandVertices[j]) - 1) : e.from = mDemandVertices[j][m + 1] /\ e.to = mDemandVertices[j][m]
    BY <1>1, <2>4, <2>6, OutOfDemand
  <2>9. m \in DOMAIN mDemandVertices[j]
    BY <1>1, Positions
  <2>10. j = i
    BY <1>1, <2>2, <2>8, <2>9, OneOwner DEF DemandVertexOf
  <2>11. m = n
    BY <1>1, <2>1, <2>8, <2>9, <2>10, OnePlace
  <2> QED BY <1>31, <2>1, <2>8, <2>10, <2>11
<1>6. FirstPrice(i) = P[1] /\ FirstDemand(i) = D[Len(D)]
  BY DEF FirstPrice, FirstDemand
<1> HIDE DEF P, D
<1>7. P[1] \in Listed => \A n \in DOMAIN P : P[n] \in Listed
  <2> DEFINE T == {n \in DOMAIN P : P[n] \notin Listed}
  <2> SUFFICES ASSUME P[1] \in Listed, T # {} PROVE FALSE
    OBVIOUS
  <2>1. PICK n \in T : \A m \in T : n <= m
    <3>1. T \in SUBSET Nat
      BY <1>2
    <3> HIDE DEF T
    <3> QED BY <3>1, LeastNumber
  <2>2. n - 1 \in DOMAIN P /\ ~(n <= n - 1)
    BY <1>2
  <2> QED BY <1>4, <2>1, <2>2
<1>8. D[Len(D)] \in Listed => \A n \in DOMAIN D : D[n] \in Listed
  <2> DEFINE T == {k \in Nat : k < Len(D) /\ D[Len(D) - k] \notin Listed}
  <2> SUFFICES ASSUME D[Len(D)] \in Listed, NEW x \in DOMAIN D, D[x] \notin Listed PROVE FALSE
    OBVIOUS
  <2>0. \A L, m \in Nat : m < L /\ m # 0 => /\ L - m \in 1..L /\ L - m # L /\ L - m + 1 = L - (m - 1)
                                            /\ m - 1 \in Nat /\ m - 1 < L /\ ~(m <= m - 1)
    OBVIOUS
  <2>1. Len(D) - x \in T
    <3>1. Len(D) - x \in Nat /\ Len(D) - x < Len(D) /\ Len(D) - (Len(D) - x) = x
      BY <1>2
    <3> QED BY <3>1
  <2>2. PICK k \in T : \A m \in T : k <= m
    <3>1. T \in SUBSET Nat
      OBVIOUS
    <3> HIDE DEF T
    <3> QED BY <2>1, <3>1, LeastNumber
  <2>3. k \in Nat /\ k < Len(D) /\ D[Len(D) - k] \notin Listed
    OBVIOUS
  <2>4. k # 0
    BY <1>2, <2>3
  <2>5. /\ Len(D) - k \in DOMAIN D /\ Len(D) - k # Len(D) /\ Len(D) - k + 1 = Len(D) - (k - 1)
        /\ k - 1 \in Nat /\ k - 1 < Len(D) /\ ~(k <= k - 1)
    BY <1>2, <2>0, <2>3, <2>4
  <2>6. D[Len(D) - (k - 1)] \notin Listed
    BY <1>5, <2>3, <2>5
  <2>7. k - 1 \in T
    BY <2>5, <2>6
  <2> HIDE DEF T
  <2> QED BY <2>2, <2>5, <2>7
<1> QED
  BY <1>6, <1>7, <1>8 DEF P, D

-----------------------------------------------------------------------------
(* Breaking a cycle *)

PriceOwner(v) == CHOOSE i \in Item : PriceVertex(i, v)
DemandOwner(v) == CHOOSE i \in Item : DemandVertexOf(i, v)

\* The owner of a vertex is the item it belongs to.
LEMMA OwnerIs ==
    ASSUME RInv, NEW i \in Item, NEW v
    PROVE  /\ PriceVertex(i, v) => PriceOwner(v) = i
           /\ DemandVertexOf(i, v) => DemandOwner(v) = i
BY OneOwner DEF PriceOwner, DemandOwner

\* A cycle cannot be reached from a price whose demand is listed: along the
\* edges from price to price the demands were listed earlier and earlier.
LEMMA PriceBeforeDemand ==
    ASSUME IInv, phase = "break", NEW i \in Item, NEW v \in Visited(totalVisits), PriceVertex(i, v)
    PROVE  FirstDemand(i) \notin Listed
<1> SUFFICES ASSUME FirstDemand(i) \in Listed PROVE FALSE
  OBVIOUS
<1>1. /\ RInv /\ GraphInv /\ TypeOK /\ phase # "collect" /\ totalVisits \subseteq Uncleared
      /\ \A x \in Uncleared : x \notin Listed
  BY DEF IInv, RInv, TInv, Visits, Places
<1>2. mDependentList \in [Item -> SUBSET Item] /\ \A j \in Item : HasPrice(j) => HasDemand(j)
  BY <1>1 DEF RInv, TInv, TypeOK
<1> DEFINE E == Inside(edges, totalVisits)
           B == {w \in totalVisits : \E j \in Item : PriceVertex(j, w) /\ FirstDemand(j) \in Listed}
           f == [w \in B |-> Pos(FirstDemand(PriceOwner(w)))]
           g == [w \in B |-> -w]
<1>3. f \in [B -> Int]
  <2> SUFFICES ASSUME NEW w \in B PROVE Pos(FirstDemand(PriceOwner(w))) \in Int
    OBVIOUS
  <2>1. PICK j \in Item : PriceVertex(j, w) /\ FirstDemand(j) \in Listed
    OBVIOUS
  <2> QED BY <1>1, <2>1, OwnerIs, PosIs DEF IInv
<1>4. g \in [B -> Int]
  <2>1. \A w \in B : w \in Int
    BY <1>1 DEF IInv, RInv, TInv, TypeOK, Vertices
  <2> QED BY <2>1
<1>5. ASSUME NEW e \in E, e.from \in B
      PROVE  /\ e.to \in B
             /\ f[e.to] < f[e.from] \/ (f[e.to] = f[e.from] /\ g[e.to] < g[e.from])
  <2>1. e \in edges /\ e.from \in totalVisits /\ e.to \in totalVisits
    BY DEF Inside
  <2>2. PICK j \in Item : PriceVertex(j, e.from) /\ FirstDemand(j) \in Listed
    BY <1>5
  <2>3. f[e.from] = Pos(FirstDemand(j)) /\ g[e.from] = -e.from
    BY <1>1, <1>5, <2>2, OwnerIs
  <2>4. HasPrice(j) /\ HasDemand(j)
    BY <1>1, <1>2, <2>2, Positions DEF PriceVertex
  <2>5. ASSUME NEW d \in mDependentList[j], HasDemand(d), j \notin Split,
               ~SetBySolver(j) \/ (IsSolved(j) /\ d \in LandAllocator)
        PROVE  FirstDemand(d) \in Listed /\ Pos(FirstDemand(d)) < Pos(FirstDemand(j)) /\ d \in Item
    <3>1. LastDemand(d) \in Listed /\ Pos(LastDemand(d)) < Pos(FirstDemand(j)) /\ d \in Item
      BY <1>1, <1>2, <2>2, <2>4, <2>5, DemandWaits
    <3>2. 1 \in DOMAIN mDemandVertices[d] /\ LastDemand(d) = mDemandVertices[d][1]
      BY <1>1, <2>5, <3>1, Positions DEF LastDemand
    <3>3. FirstDemand(d) \in Listed /\ Pos(FirstDemand(d)) <= Pos(LastDemand(d))
      BY <1>1, <3>1, <3>2, ChainsInOrder
    <3>4. Pos(FirstDemand(d)) \in Nat /\ Pos(LastDemand(d)) \in Nat /\ Pos(FirstDemand(j)) \in Nat
      BY <1>1, <2>2, <3>1, <3>3, PosIs DEF IInv
    <3> QED BY <3>1, <3>3, <3>4
  <2>6. CASE \E n \in 1..(Len(mPriceVertices[j]) - 1) :
                e.from = mPriceVertices[j][n] /\ e.to = mPriceVertices[j][n + 1]
    <3>1. PICK n \in 1..(Len(mPriceVertices[j]) - 1) :
             e.from = mPriceVertices[j][n] /\ e.to = mPriceVertices[j][n + 1]
      BY <2>6
    <3>2. n \in DOMAIN mPriceVertices[j] /\ n + 1 \in DOMAIN mPriceVertices[j] /\ n < n + 1
      BY <1>1, Positions
    <3>3. e.from < e.to
      BY <1>1, <3>1, <3>2 DEF RInv, Numbers
    <3>4. PriceVertex(j, e.to)
      BY <3>1, <3>2 DEF PriceVertex
    <3>5. e.to \in B
      BY <2>1, <2>2, <3>4
    <3>6. f[e.to] = Pos(FirstDemand(j)) /\ g[e.to] = -e.to
      BY <1>1, <3>4, <3>5, OwnerIs
    <3>7. e.from \in Int /\ e.to \in Int
      BY <1>1, <2>1 DEF TypeOK, Vertices
    <3>8. -e.to < -e.from
      BY <3>3, <3>7
    <3> HIDE DEF B, f, g
    <3> QED BY <2>3, <3>5, <3>6, <3>8
  <2>7. CASE e.to = FirstDemand(j)
    BY <1>1, <2>1, <2>2, <2>7
  <2>8. CASE j \notin Split /\ \E d \in mDependentList[j] :
                /\ ~HasPrice(d) /\ HasDemand(d) /\ e.to = FirstDemand(d)
                /\ ~SetBySolver(j) \/ (IsSolved(j) /\ d \in LandAllocator)
    BY <1>1, <2>1, <2>5, <2>8
  <2>9. CASE j \notin Split /\ ~SetBySolver(j) /\ \E d \in mDependentList[j] : HasPrice(d) /\ e.to = FirstPrice(d)
    <3>1. PICK d \in mDependentList[j] : HasPrice(d) /\ e.to = FirstPrice(d)
      BY <2>9
    <3>2. FirstDemand(d) \in Listed /\ Pos(FirstDemand(d)) < Pos(FirstDemand(j)) /\ d \in Item
      BY <1>2, <2>5, <2>9, <3>1
    <3>3. PriceVertex(d, e.to)
      BY <1>1, <3>1, <3>2, Ends
    <3>4. e.to \in B
      BY <2>1, <3>2, <3>3
    <3>5. f[e.to] = Pos(FirstDemand(d))
      BY <1>1, <3>2, <3>3, <3>4, OwnerIs
    <3> HIDE DEF B, f, g
    <3> QED BY <2>3, <3>2, <3>4, <3>5
  <2> QED BY <1>1, <2>1, <2>2, <2>6, <2>7, <2>8, <2>9, OutOfPrice
<1>6. v \in B /\ \E w \in Reach(E, {v}) : OnCycle(E, w)
  BY DEF Visited
<1> HIDE DEF E, B, f, g
<1> QED
  BY <1>1, <1>3, <1>4, <1>5, <1>6, Descending

\* Nor from a demand whose price is listed: along the edges from demand to
\* demand the prices were listed earlier and earlier, down to an item without a
\* price, which nothing else comes after.
LEMMA DemandBeforePrice ==
    ASSUME IInv, phase = "break", NEW i \in Item, HasPrice(i), NEW v \in Visited(totalVisits), DemandVertexOf(i, v)
    PROVE  LastPrice(i) \notin Listed
<1> SUFFICES ASSUME LastPrice(i) \in Listed PROVE FALSE
  OBVIOUS
<1>1. RInv /\ GraphInv /\ TypeOK /\ phase # "collect"
  BY DEF IInv, RInv, TInv
<1>2. mDependentList \in [Item -> SUBSET Item] /\ \A j \in Item : HasPrice(j) => HasDemand(j)
  BY <1>1 DEF RInv, TInv, TypeOK
<1> DEFINE E == Inside(edges, totalVisits)
           Early(j) == HasPrice(j) /\ LastPrice(j) \in Listed
           End(j) == ~HasPrice(j) /\ \A m \in Item : j \notin mDependentList[m]
           B == {w \in totalVisits : \E j \in Item : DemandVertexOf(j, w) /\ (Early(j) \/ End(j))}
           f == [w \in B |-> IF HasPrice(DemandOwner(w)) THEN Pos(LastPrice(DemandOwner(w))) ELSE -1]
           g == [w \in B |-> w]
<1>3. f \in [B -> Int]
  <2> SUFFICES ASSUME NEW w \in B, HasPrice(DemandOwner(w)) PROVE Pos(LastPrice(DemandOwner(w))) \in Int
    OBVIOUS
  <2>1. PICK j \in Item : DemandVertexOf(j, w) /\ (Early(j) \/ End(j))
    OBVIOUS
  <2>2. DemandOwner(w) = j
    BY <1>1, <2>1, OwnerIs
  <2>3. LastPrice(j) \in Listed
    BY <2>1, <2>2
  <2> QED BY <1>1, <2>2, <2>3, PosIs DEF IInv
<1>4. g \in [B -> Int]
  <2>1. \A w \in B : w \in Int
    BY <1>1 DEF IInv, RInv, TInv, TypeOK, Vertices
  <2> QED BY <2>1
<1>5. ASSUME NEW e \in E, e.from \in B
      PROVE  /\ e.to \in B
             /\ f[e.to] < f[e.from] \/ (f[e.to] = f[e.from] /\ g[e.to] < g[e.from])
  <2>1. e \in edges /\ e.from \in totalVisits /\ e.to \in totalVisits
    BY DEF Inside
  <2>2. PICK j \in Item : DemandVertexOf(j, e.from) /\ (Early(j) \/ End(j))
    BY <1>5
  <2>3. f[e.from] = (IF HasPrice(j) THEN Pos(LastPrice(j)) ELSE -1) /\ g[e.from] = e.from
    BY <1>1, <1>5, <2>2, OwnerIs
  <2>4. CASE \E n \in 1..(Len(mDemandVertices[j]) - 1) :
                e.from = mDemandVertices[j][n + 1] /\ e.to = mDemandVertices[j][n]
    <3>1. PICK n \in 1..(Len(mDemandVertices[j]) - 1) :
             e.from = mDemandVertices[j][n + 1] /\ e.to = mDemandVertices[j][n]
      BY <2>4
    <3>2. n \in DOMAIN mDemandVertices[j] /\ n + 1 \in DOMAIN mDemandVertices[j] /\ n < n + 1
      BY <1>1, Positions
    <3>3. e.to < e.from
      BY <1>1, <3>1, <3>2 DEF RInv, Numbers
    <3>4. DemandVertexOf(j, e.to)
      BY <3>1, <3>2 DEF DemandVertexOf
    <3>5. e.to \in B
      BY <2>1, <2>2, <3>4
    <3>6. f[e.to] = (IF HasPrice(j) THEN Pos(LastPrice(j)) ELSE -1) /\ g[e.to] = e.to
      BY <1>1, <3>4, <3>5, OwnerIs
    <3> HIDE DEF B, f, g
    <3> QED BY <2>3, <3>3, <3>5, <3>6
  <2>5. CASE \E k \in Item : /\ j \in mDependentList[k] /\ HasDemand(k) /\ e.to = FirstDemand(k)
                             /\ (k \in Split => j \in FixedOutput)
                             /\ ~SetBySolver(k) \/ (HasPrice(k) /\ j \in LandAllocator)
    <3>1. PICK k \in Item : /\ j \in mDependentList[k] /\ HasDemand(k) /\ e.to = FirstDemand(k)
                            /\ (k \in Split => j \in FixedOutput)
                            /\ ~SetBySolver(k) \/ (HasPrice(k) /\ j \in LandAllocator)
      BY <2>5
    <3>2. HasPrice(j) /\ LastPrice(j) \in Listed
      BY <2>2, <3>1
    <3>3. k \notin Split /\ ~SetBySolver(k)
      BY <1>1, <3>1, <3>2, OnlyDemands
    <3>4. DemandVertexOf(k, e.to)
      BY <1>1, <3>1, Ends
    <3>5. FirstPrice(j) \in Listed /\ Pos(FirstPrice(j)) <= Pos(LastPrice(j))
      <4>1. Len(mPriceVertices[j]) \in DOMAIN mPriceVertices[j]
        BY <1>1, <3>2, Positions
      <4> QED BY <1>1, <3>2, <4>1, ChainsInOrder DEF LastPrice
    <3>6. CASE HasPrice(k)
      <4>1. LastPrice(k) \in Listed /\ Pos(LastPrice(k)) < Pos(FirstPrice(j))
        BY <1>1, <1>2, <3>1, <3>2, <3>3, <3>5, <3>6, PriceWaits
      <4>2. e.to \in B
        BY <2>1, <3>4, <3>6, <4>1
      <4>3. f[e.to] = Pos(LastPrice(k))
        BY <1>1, <3>4, <3>6, <4>2, OwnerIs
      <4>4. Pos(LastPrice(k)) \in Nat /\ Pos(FirstPrice(j)) \in Nat /\ Pos(LastPrice(j)) \in Nat
        BY <1>1, <3>2, <3>5, <4>1, PosIs DEF IInv
      <4>5. f[e.from] = Pos(LastPrice(j))
        BY <2>3, <3>2
      <4> HIDE DEF B, f, g
      <4> QED BY <3>5, <4>1, <4>2, <4>3, <4>4, <4>5
    <3>7. CASE ~HasPrice(k)
      <4>1. End(k)
        BY <1>1, <3>1, <3>3, <3>7 DEF RInv, UnpricedEnds
      <4>2. e.to \in B
        BY <2>1, <3>4, <4>1
      <4>3. f[e.to] = -1
        BY <1>1, <3>4, <3>7, <4>2, OwnerIs
      <4>4. Pos(LastPrice(j)) \in Nat
        BY <1>1, <3>2, PosIs DEF IInv
      <4>5. f[e.from] = Pos(LastPrice(j))
        BY <2>3, <3>2
      <4> HIDE DEF B, f, g
      <4> QED BY <4>2, <4>3, <4>4, <4>5
    <3> QED BY <3>6, <3>7
  <2>6. \/ \E n \in 1..(Len(mDemandVertices[j]) - 1) :
              e.from = mDemandVertices[j][n + 1] /\ e.to = mDemandVertices[j][n]
        \/ \E k \in Item : /\ j \in mDependentList[k] /\ HasDemand(k) /\ e.to = FirstDemand(k)
                           /\ (k \in Split => j \in FixedOutput)
                           /\ ~SetBySolver(k) \/ (HasPrice(k) /\ j \in LandAllocator)
    BY <1>1, <2>1, <2>2, OutOfDemand
  <2> QED BY <2>4, <2>5, <2>6
<1>6. v \in B /\ \E w \in Reach(E, {v}) : OnCycle(E, w)
  BY DEF Visited
<1> HIDE DEF E, B, f, g
<1> QED
  BY <1>1, <1>3, <1>4, <1>5, <1>6, Descending

\* The item chosen to break a cycle has dependents, and neither its price nor
\* its demand has been listed.
LEMMA ChosenWaits ==
    ASSUME IInv, phase = "break", NEW v \in Breakers(totalVisits), NEW i \in Item, Owns(i, v),
           HasPrice(i), HasDemand(i)
    PROVE  /\ FirstPrice(i) \in Uncleared /\ LastPrice(i) \in Uncleared /\ FirstDemand(i) \in Uncleared
           /\ mDependentList[i] # {}
<1>1. v \in Visited(totalVisits) /\ v \in totalVisits
  BY DEF Breakers, Visited
<1>2. /\ RInv /\ Stuck /\ phase # "collect" /\ v \in Uncleared
      /\ \A x \in Uncleared : x \notin Listed
      /\ \A x \in Vertices : x \in Uncleared \/ x \in Listed
  BY <1>1 DEF IInv, Visits, Places, Stages, Stuck
<1>3. mDependentList[i] # {}
  BY <1>1 DEF IInv, Visits
<1>4. /\ FirstPrice(i) \in Vertices /\ LastPrice(i) \in Vertices /\ FirstDemand(i) \in Vertices
  BY <1>2, EndVertices DEF RInv, TInv
<1>5. Len(mPriceVertices[i]) \in DOMAIN mPriceVertices[i]
  BY <1>2, Positions
<1>6. LastPrice(i) \in Listed <=> FirstPrice(i) \in Listed
  BY <1>2, <1>5, WholeChains, ChainsInOrder DEF LastPrice
<1>7. CASE PriceVertex(i, v)
  <2>1. FirstPrice(i) \notin Listed
    BY <1>2, <1>7, WholeChains DEF PriceVertex
  <2>2. FirstDemand(i) \notin Listed
    BY <1>1, <1>7, PriceBeforeDemand
  <2> QED BY <1>2, <1>3, <1>4, <1>6, <2>1, <2>2
<1>8. CASE DemandVertexOf(i, v)
  <2>1. FirstDemand(i) \notin Listed
    BY <1>2, <1>8, WholeChains DEF DemandVertexOf
  <2>2. LastPrice(i) \notin Listed
    BY <1>1, <1>8, DemandBeforePrice
  <2> QED BY <1>2, <1>3, <1>4, <1>6, <2>1, <2>2
<1> QED
  BY <1>7, <1>8 DEF Owns, PriceVertex, DemandVertexOf

-----------------------------------------------------------------------------
(* Finding cycles *)

\* findStronglyConnected finds vertices that lie on a cycle with another.
LEMMA SharedComponent ==
    ASSUME NEW v \in StronglyConnected
    PROVE  /\ v \in Vertices
           /\ \E E : /\ E \subseteq edges
                     /\ \E w : w # v /\ w \in Reach(E, {v}) /\ v \in Reach(E, {w})
<1> DEFINE E == Inside(edges, Searched)
<1>1. v \in Searched /\ \E w \in Searched \ {v} : w \in Reach(E, {v}) /\ v \in Reach(E, {w})
  BY DEF StronglyConnected
<1>2. E \subseteq edges
  BY DEF Inside
<1>3. Searched \subseteq Vertices
  BY DEF Searched, Reach
<1> HIDE DEF E
<1> QED BY <1>1, <1>2, <1>3

\* A vertex nothing leads back to is not strongly connected.
LEMMA NotConnected ==
    ASSUME TypeOK, NEW v, NEW C, v \notin C, \A e \in edges : e.from = v \/ e.from \in C => e.to \in C
    PROVE  v \notin StronglyConnected
<1> SUFFICES ASSUME v \in StronglyConnected PROVE FALSE
  OBVIOUS
<1>1. PICK E, w : E \subseteq edges /\ w # v /\ w \in Reach(E, {v}) /\ v \in Reach(E, {w})
  BY SharedComponent
<1>2. \A e \in E : e.from = v \/ e.from \in C => e.to \in C
  BY <1>1
<1> QED BY <1>1, <1>2, NoWayBack

\* Nor is a vertex of an item nothing depends on.
LEMMA ConnectedHaveDependents ==
    ASSUME IInv, phase # "collect", NEW i \in Item, mDependentList[i] = {}, NEW v, Owns(i, v)
    PROVE  v \notin StronglyConnected
<1>1. RInv /\ GraphInv /\ TypeOK
  BY DEF IInv, RInv, TInv
<1>2. CASE PriceVertex(i, v)
  <2> DEFINE C == {x \in Vertices : PriceVertex(i, x) /\ v < x} \cup {x \in Vertices : IsDemand(x)}
  <2>1. v \in Int
    BY <1>1, <1>2, Positions DEF PriceVertex, Vertices
  <2>2. v \notin C
    BY <1>1, <1>2, <2>1, OneOwner DEF IsDemand
  <2>3. ASSUME NEW e \in edges, e.from = v \/ e.from \in C PROVE e.to \in C
    <3>1. e.from \in Vertices /\ e.to \in Vertices
      BY <1>1 DEF TypeOK
    <3>2. CASE IsDemand(e.from)
      BY <1>1, <3>1, <3>2, EdgeSides
    <3>3. CASE PriceVertex(i, e.from) /\ v <= e.from
      <4>1. CASE \E n \in 1..(Len(mPriceVertices[i]) - 1) :
                    e.from = mPriceVertices[i][n] /\ e.to = mPriceVertices[i][n + 1]
        <5>1. PICK n \in 1..(Len(mPriceVertices[i]) - 1) :
                 e.from = mPriceVertices[i][n] /\ e.to = mPriceVertices[i][n + 1]
          BY <4>1
        <5>2. n \in DOMAIN mPriceVertices[i] /\ n + 1 \in DOMAIN mPriceVertices[i] /\ n < n + 1
          BY <1>1, Positions
        <5>3. e.from < e.to
          BY <1>1, <5>1, <5>2 DEF RInv, Numbers
        <5>4. e.from \in Int /\ e.to \in Int
          BY <3>1 DEF Vertices
        <5>5. v < e.to
          BY <2>1, <3>3, <5>3, <5>4
        <5>6. PriceVertex(i, e.to)
          BY <5>1, <5>2 DEF PriceVertex
        <5> QED BY <3>1, <5>5, <5>6
      <4>2. CASE e.to = FirstDemand(i) /\ HasDemand(i)
        BY <1>1, <3>1, <4>2, Ends DEF IsDemand
      <4> QED BY <1>1, <3>3, <4>1, <4>2, OutOfPrice
    <3>4. e.from = v => v <= e.from
      BY <2>1
    <3>5. e.from \in Int
      BY <3>1 DEF Vertices
    <3>6. PriceVertex(i, e.from) /\ v < e.from => v <= e.from
      BY <2>1, <3>5
    <3> QED BY <1>2, <2>3, <3>2, <3>3, <3>4, <3>6
  <2> HIDE DEF C
  <2> QED BY <1>1, <2>2, <2>3, NotConnected
<1>3. CASE DemandVertexOf(i, v)
  <2> DEFINE C == {x \in Vertices : IsDemand(x) /\ (DemandVertexOf(i, x) => x < v)}
  <2>1. v \in Int
    BY <1>1, <1>3, Positions DEF DemandVertexOf, Vertices
  <2>2. v \notin C
    BY <1>3, <2>1
  <2>3. ASSUME NEW e \in edges, e.from = v \/ e.from \in C PROVE e.to \in C
    <3>1. e.from \in Vertices /\ e.to \in Vertices /\ e.from \in Int /\ e.to \in Int
      BY <1>1 DEF TypeOK, Vertices
    <3>2. /\ DemandVertexOf(i, e.from) => e.from <= v
          /\ IsDemand(e.from)
      BY <1>3, <2>1, <2>3, <3>1 DEF IsDemand
    <3>3. PICK j \in Item : DemandVertexOf(j, e.from)
      BY <3>2 DEF IsDemand
    <3>4. CASE \E n \in 1..(Len(mDemandVertices[j]) - 1) :
                  e.from = mDemandVertices[j][n + 1] /\ e.to = mDemandVertices[j][n]
      <4>1. PICK n \in 1..(Len(mDemandVertices[j]) - 1) :
               e.from = mDemandVertices[j][n + 1] /\ e.to = mDemandVertices[j][n]
        BY <3>4
      <4>2. n \in DOMAIN mDemandVertices[j] /\ n + 1 \in DOMAIN mDemandVertices[j] /\ n < n + 1
        BY <1>1, Positions
      <4>3. e.to < e.from
        BY <1>1, <4>1, <4>2 DEF RInv, Numbers
      <4>4. DemandVertexOf(j, e.to)
        BY <4>1, <4>2 DEF DemandVertexOf
      <4>5. DemandVertexOf(i, e.to) => e.to < v
        <5> HAVE DemandVertexOf(i, e.to)
        <5>1. i = j
          BY <1>1, <4>4, OneOwner
        <5>2. e.from <= v
          BY <3>2, <3>3, <5>1
        <5> QED BY <2>1, <3>1, <4>3, <5>2
      <4> QED BY <3>1, <4>4, <4>5 DEF IsDemand
    <3>5. CASE \E k \in Item : j \in mDependentList[k] /\ HasDemand(k) /\ e.to = FirstDemand(k)
      <4>1. PICK k \in Item : j \in mDependentList[k] /\ HasDemand(k) /\ e.to = FirstDemand(k)
        BY <3>5
      <4>2. DemandVertexOf(k, e.to) /\ k # i
        BY <1>1, <4>1, Ends
      <4>3. ~DemandVertexOf(i, e.to)
        BY <1>1, <4>2, OneOwner
      <4> QED BY <3>1, <4>2, <4>3 DEF IsDemand
    <3> QED BY <1>1, <3>3, <3>4, <3>5, OutOfDemand
  <2> HIDE DEF C
  <2> QED BY <1>1, <2>2, <2>3, NotConnected
<1> QED
  BY <1>2, <1>3 DEF Owns, PriceVertex, DemandVertexOf

\* Nor is a vertex that has been listed: whatever comes after it and is listed
\* too has a later place.
LEMMA ConnectedNotListed ==
    ASSUME IInv, phase # "collect", NEW v \in Listed
    PROVE  v \notin StronglyConnected
<1>1. RInv /\ GraphInv /\ TypeOK /\ mDependentList \in [Item -> SUBSET Item]
  BY DEF IInv, RInv, TInv, TypeOK
<1> DEFINE Late(x) == x \in Listed => Pos(v) < Pos(x)
<1>2. \A x \in Listed : Pos(x) \in Nat
  BY <1>1, PosIs DEF IInv
<1>3. ASSUME NEW e \in edges, e.to \notin Heads, e.from = v \/ Late(e.from) PROVE Late(e.to)
  <2> SUFFICES ASSUME e.to \in Listed PROVE Pos(v) < Pos(e.to)
    OBVIOUS
  <2>1. e.from \in Listed /\ Pos(e.from) < Pos(e.to)
    BY <1>3, EdgeOrder
  <2>2. Pos(v) <= Pos(e.from)
    BY <1>2, <1>3, <2>1
  <2> QED BY <1>2, <2>1, <2>2
<1>4. ~Late(v)
  BY <1>2
<1> HIDE DEF Late
<1>5. CASE IsPrice(v)
  <2> DEFINE C == {x \in Vertices : (IsPrice(x) /\ Late(x)) \/ IsDemand(x)}
  <2>1. v \notin C
    BY <1>1, <1>4, <1>5, OneOwner DEF IsPrice, IsDemand
  <2>2. ASSUME NEW e \in edges, e.from = v \/ e.from \in C PROVE e.to \in C
    <3>1. e.from \in Vertices /\ e.to \in Vertices
      BY <1>1 DEF TypeOK
    <3>2. CASE IsDemand(e.to)
      BY <3>1, <3>2
    <3>3. CASE ~IsDemand(e.to)
      <4>1. ~IsDemand(e.from) /\ IsPrice(e.to)
        BY <1>1, <3>3, EdgeSides
      <4>2. e.from = v \/ Late(e.from)
        BY <2>2, <4>1
      <4>3. e.to \notin Heads
        BY <4>1, NotHead DEF IsPrice
      <4> QED BY <1>3, <3>1, <4>1, <4>2, <4>3
    <3> QED BY <3>2, <3>3
  <2> HIDE DEF C
  <2> QED BY <1>1, <2>1, <2>2, NotConnected
<1>6. CASE IsDemand(v)
  <2> DEFINE C == {x \in Vertices : IsDemand(x) /\ Late(x)}
  <2>1. v \notin C
    BY <1>4
  <2>2. ASSUME NEW e \in edges, e.from = v \/ e.from \in C PROVE e.to \in C
    <3>1. e.from \in Vertices /\ e.to \in Vertices
      BY <1>1 DEF TypeOK
    <3>2. IsDemand(e.from) /\ (e.from = v \/ Late(e.from)) /\ IsDemand(e.to)
      BY <1>1, <1>6, <2>2, EdgeSides
    <3>3. PICK j \in Item : DemandVertexOf(j, e.from)
      BY <3>2 DEF IsDemand
    <3>4. e.to \notin Heads
      <4>1. CASE \E n \in 1..(Len(mDemandVertices[j]) - 1) : e.to = mDemandVertices[j][n]
        <5>1. PICK n \in 1..(Len(mDemandVertices[j]) - 1) : e.to = mDemandVertices[j][n]
          BY <4>1
        <5>2. n \in DOMAIN mDemandVertices[j] /\ n # Len(mDemandVertices[j])
          BY <1>1, Positions
        <5> QED BY <5>1, <5>2, NotHead
      <4>2. CASE \E k \in Item : j \in mDependentList[k] /\ HasDemand(k) /\ e.to = FirstDemand(k)
        <5>1. PICK k \in Item : j \in mDependentList[k] /\ HasDemand(k) /\ e.to = FirstDemand(k)
          BY <4>2
        <5>2. Len(mDemandVertices[k]) \in DOMAIN mDemandVertices[k] /\ mDependentList[k] # {}
          BY <1>1, <5>1, Positions
        <5> QED BY <5>1, <5>2, NotHead DEF FirstDemand
      <4> QED BY <1>1, <3>3, <4>1, <4>2, OutOfDemand
    <3> QED BY <1>3, <3>1, <3>2, <3>4
  <2> HIDE DEF C
  <2> QED BY <1>1, <2>1, <2>2, NotConnected
<1>7. CASE ~IsPrice(v) /\ ~IsDemand(v)
  <2>1. \A e \in edges : e.from # v
    BY <1>1, <1>7, EdgeSides
  <2> DEFINE C == {x \in Vertices : FALSE}
  <2>2. v \notin C /\ \A e \in edges : e.from = v \/ e.from \in C => e.to \in C
    BY <2>1
  <2> HIDE DEF C
  <2> QED BY <1>1, <2>2, NotConnected
<1> QED
  BY <1>5, <1>6, <1>7

-----------------------------------------------------------------------------
(* Edges are counted *)

\* Sets of edges are finite, and counting them adds up.
LEMMA CountsAdd ==
    ASSUME TypeOK, NEW S \in SUBSET edges, NEW T \in SUBSET S
    PROVE  /\ Cardinality(S) \in Nat /\ Cardinality(T) \in Nat
           /\ Cardinality(S \ T) = Cardinality(S) - Cardinality(T)
           /\ IsFiniteSet(S) /\ (Cardinality(S) = 0 => S = {})
<1>1. mCalcVertexUIDCount \in Nat /\ edges \subseteq [from : 0..(mCalcVertexUIDCount - 1),
                                                      to : 0..(mCalcVertexUIDCount - 1), kind : Kind]
  BY DEF TypeOK, Vertices, Kind
<1>2. IsFiniteSet(edges)
  BY <1>1, FiniteEdges
<1>3. IsFiniteSet(S) /\ IsFiniteSet(T)
  BY <1>2, FS_Subset
<1>4. Cardinality(S) \in Nat /\ Cardinality(T) \in Nat
  BY <1>3, FS_CardinalityType
<1>5. Cardinality(S \ T) = Cardinality(S) - Cardinality(S \cap T)
  BY <1>3, FS_Difference
<1>6. S \cap T = T
  OBVIOUS
<1>7. Cardinality(S) = 0 => S = {}
  BY <1>3, FS_EmptySet
<1> QED
  BY <1>3, <1>4, <1>5, <1>6, <1>7

-----------------------------------------------------------------------------
(* The invariant, action by action *)

\* A step that leaves the edges alone leaves the split items alone.
LEMMA SameGraph ==
    ASSUME GraphInv, phase # "collect", phase' # "collect", UNCHANGED <<registration, edges>>
    PROVE  Split' = Split /\ Heads' = Heads /\ GraphInv'
<1>1. \A i : HasPrice(i)' = HasPrice(i) /\ TrialEdge(i)' = TrialEdge(i) /\ FirstDemand(i)' = FirstDemand(i)
             /\ LastPrice(i)' = LastPrice(i)
  BY RegistrationOps
<1>2. mDependentList' = mDependentList
  BY DEF registration
<1>3. Split' = Split
  BY <1>1 DEF Split
<1>4. Heads' = Heads
  BY <1>1, <1>2, <1>3 DEF Heads
<1>5. \A e : Kept(e)' = Kept(e)
  <2> TAKE e
  <2>1. FixedVertex(e.from)' = FixedVertex(e.from)
    BY RegistrationOps
  <2>2. Kept(e)' = (\A i \in Split' : e.from # LastPrice(i)' /\ (e.to = FirstDemand(i)' => FixedVertex(e.from)'))
    BY DEF Kept
  <2>3. Kept(e)' <=> Kept(e)
    BY <1>1, <1>3, <2>1, <2>2 DEF Kept
  <2> QED BY <2>3 DEF Kept
<1>6. Connected' = Connected
  BY RegistrationOps
<1>7. {TrialEdge(i)' : i \in Split'} = {TrialEdge(i) : i \in Split}
  BY <1>1, <1>3
<1>8. {e \in Connected' : Kept(e)'} = {e \in Connected : Kept(e)}
  BY <1>5, <1>6
<1>9. GraphInv' = (phase' # "collect" => edges' = {e \in Connected' : Kept(e)'} \cup {TrialEdge(i)' : i \in Split'})
  BY DEF GraphInv
<1> QED
  BY <1>3, <1>4, <1>7, <1>8, <1>9 DEF GraphInv

\* Steps that leave the graph and the sort alone.
LEMMA SameSort ==
    ASSUME IInv, RInv', phase # "collect", phase' # "collect",
           UNCHANGED <<registration, edges, sorting, toSplit, trials>>
    PROVE  GraphInv' /\ SplitInv' /\ Places' /\ OrderInv' /\ Counts'
<1>1. Split' = Split /\ Heads' = Heads /\ GraphInv'
  BY SameGraph DEF IInv
<1>2. /\ edges' = edges /\ mDependentList' = mDependentList /\ mHasSelfDependence' = mHasSelfDependence
      /\ numDependencies' = numDependencies /\ justRemoved' = justRemoved /\ mGlobalOrdering' = mGlobalOrdering
      /\ Vertices' = Vertices
  BY DEF registration, sorting, Vertices
<1>3. Listed' = Listed /\ Uncleared' = Uncleared
  BY <1>2 DEF Listed, Uncleared
<1>4. SplitInv'
  BY <1>1, <1>2 DEF IInv, SplitInv
<1>5. Places'
  BY <1>2, <1>3 DEF IInv, Places
<1>6. \A u, v : Before(u, v)' = Before(u, v)
  BY <1>2 DEF Before
<1>7. OrderInv'
  <2>1. \A e \in edges' : e.to \notin Heads' => Before(e.from, e.to)'
    <3>1. \A e \in edges : e.to \notin Heads => Before(e.from, e.to)
      BY DEF IInv, OrderInv
    <3> QED BY <1>1, <1>2, <1>6, <3>1
  <2>2. \A e \in edges' : e.to \in justRemoved' \ Heads' => e.from \in Listed'
    BY <1>1, <1>2, <1>3 DEF IInv, OrderInv
  <2> QED BY <2>1, <2>2 DEF OrderInv
<1>8. \A v : Waiting(v)' = Waiting(v)
  BY <1>2, <1>3 DEF Waiting
<1>9. Counts'
  BY <1>1, <1>2, <1>3, <1>8 DEF IInv, Counts
<1> QED
  BY <1>1, <1>4, <1>5, <1>7, <1>9

\* While dependencies and activities are collected there is nothing to order.
LEMMA CollectKept ==
    ASSUME IInv, RInv', phase = "collect", phase' = "collect", UNCHANGED <<edges, sorting, breaking>>
    PROVE  IInv'
<1>1. edges = {} /\ Uncleared = {} /\ trials = {} /\ toSplit = {} /\ mGlobalOrdering = <<>> /\ totalVisits = {}
      /\ justRemoved = {}
  BY DEF IInv, Stages
<1>2. /\ edges' = {} /\ Uncleared' = {} /\ trials' = {} /\ toSplit' = {} /\ mGlobalOrdering' = <<>>
      /\ totalVisits' = {} /\ justRemoved' = {}
  BY <1>1 DEF sorting, breaking, Uncleared
<1>3. Split' = {}
  BY <1>2 DEF Split
<1>4. SplitInv'
  BY <1>2, <1>3 DEF SplitInv
<1>5. Places' /\ OrderInv'
  BY <1>2 DEF Places, OrderInv, Listed
<1>6. Stages' /\ Visits' /\ Counts' /\ GraphInv'
  BY <1>2 DEF Stages, Visits, Counts, GraphInv
<1> QED
  BY <1>4, <1>5, <1>6 DEF IInv

\* Nothing is ordered in the beginning.
LEMMA IInvInit == Init => IInv
<1> SUFFICES ASSUME Init PROVE IInv
  OBVIOUS
<1>1. RInv
  BY RInvInit
<1>2. /\ edges = {} /\ Uncleared = {} /\ trials = {} /\ toSplit = {} /\ mGlobalOrdering = <<>> /\ totalVisits = {}
      /\ justRemoved = {} /\ phase = "collect"
  BY DEF Init, Uncleared
<1>3. Split = {}
  BY <1>2 DEF Split
<1>4. SplitInv
  BY <1>2, <1>3 DEF SplitInv
<1>5. Places /\ OrderInv
  BY <1>2 DEF Places, OrderInv, Listed
<1>6. Stages /\ Visits /\ Counts /\ GraphInv
  BY <1>2 DEF Stages, Visits, Counts, GraphInv
<1> QED
  BY <1>1, <1>4, <1>5, <1>6 DEF IInv

\* createOrdering starts with every vertex waiting and its dependencies counted.
LEMMA IInvConnectGraph ==
    ASSUME IInv, ConnectGraph
    PROVE  IInv'
<1> DEFINE dependents == SharedDependents
           Connect(i) == ChainEdges(i) \cup LandEdges(i, dependents[i]) \cup DependEdges(i, dependents[i])
           connected == UNION {Connect(i) : i \in mDependencyItems}
<1>1. RInv'
  BY RInvConnectGraph DEF IInv
<1>2. /\ phase = "collect" /\ phase' = "split" /\ mDependentList' = dependents /\ edges' = connected
      /\ numDependencies' = [v \in Vertices |-> InDegree(connected, v)] /\ toSplit' = mHasSelfDependence
      /\ UNCHANGED <<mDependencyItems, mCanBreakCycle, mHasSelfDependence, mDemandVertices, mPriceVertices,
                     mCalcVertexUIDCount, justRemoved, mGlobalOrdering, trials, totalVisits>>
  BY DEF ConnectGraph
<1>3. trials = {} /\ mGlobalOrdering = <<>> /\ totalVisits = {} /\ justRemoved = {}
  BY <1>2 DEF IInv, Stages
<1>4. Connected' = connected
  <2>1. \A i : EdgesOf(i)' = Connect(i)
    BY <1>2 DEF EdgesOf, ChainEdges, LandEdges, DependEdges, PriceEdges, DemandEdges, HasPrice, HasDemand,
                FirstPrice, LastPrice, FirstDemand, LastDemand, IsSolved
  <2>2. Connected' = UNION {EdgesOf(i)' : i \in mDependencyItems'}
    BY DEF Connected
  <2> QED BY <1>2, <2>1, <2>2
<1>5. \A e \in connected : e.kind # "trial"
  <2> SUFFICES ASSUME NEW i \in mDependencyItems, NEW e \in Connect(i) PROVE e.kind # "trial"
    OBVIOUS
  <2> QED BY DEF ChainEdges, LandEdges, DependEdges, PriceEdges, DemandEdges, Edge
<1> HIDE DEF connected, dependents
<1>6. Split' = {} /\ Heads' = {}
  <2>1. \A i : TrialEdge(i)' \notin connected
    <3> TAKE i
    <3>1. TrialEdge(i)'.kind = "trial"
      BY DEF TrialEdge, Edge
    <3> QED BY <1>5, <3>1
  <2>2. Split' = {i \in Item : HasPrice(i)' /\ TrialEdge(i)' \in edges'}
    BY DEF Split
  <2>3. Split' = {}
    BY <1>2, <2>1, <2>2
  <2> QED BY <2>3 DEF Heads
<1>7. GraphInv'
  <2>1. \A e : Kept(e)'
    BY <1>6 DEF Kept
  <2>2. GraphInv' = (phase' # "collect" => edges' = {e \in Connected' : Kept(e)'} \cup {TrialEdge(i)' : i \in Split'})
    BY DEF GraphInv
  <2> QED BY <1>2, <1>4, <1>6, <2>1, <2>2
<1>8. SplitInv'
  BY <1>2, <1>3, <1>6 DEF SplitInv
<1>9. Vertices' = Vertices /\ Uncleared' = Vertices /\ Listed' = {}
  BY <1>2, <1>3 DEF Vertices, Uncleared, Listed
<1>10. Places' /\ Stages' /\ Visits'
  BY <1>2, <1>3, <1>9 DEF Places, Stages, Visits
<1>11. OrderInv'
  BY <1>2, <1>3 DEF OrderInv, Before
<1>12. Counts'
  <2> SUFFICES ASSUME NEW v \in Vertices PROVE numDependencies'[v] = Cardinality(Waiting(v)')
    BY <1>6, <1>9 DEF Counts
  <2>1. Waiting(v)' = {e \in connected : e.to = v}
    BY <1>2, <1>9 DEF Waiting
  <2> QED BY <1>2, <2>1 DEF InDegree
<1> QED
  BY <1>1, <1>7, <1>8, <1>10, <1>11, <1>12 DEF IInv

-----------------------------------------------------------------------------
(* Sorting *)

\* A pass takes out vertices all of whose dependencies are listed.
LEMMA IInvStartPass ==
    ASSUME IInv, StartPass, RInv'
    PROVE  IInv'
<1>1. /\ phase = "sort" /\ phase' = "sort" /\ justRemoved = {} /\ justRemoved' = Ready
      /\ numDependencies' = [v \in Uncleared \ Ready |-> numDependencies[v]]
      /\ UNCHANGED <<registration, edges, mGlobalOrdering, toSplit, trials, totalVisits>>
  BY DEF StartPass, breaking
<1>2. /\ mDependentList' = mDependentList /\ mHasSelfDependence' = mHasSelfDependence /\ Vertices' = Vertices
      /\ mPriceVertices' = mPriceVertices /\ mDemandVertices' = mDemandVertices
  BY <1>1 DEF registration, Vertices
<1>3. Split' = Split /\ Heads' = Heads /\ GraphInv'
  BY <1>1, SameGraph DEF IInv
<1>4. Listed' = Listed /\ Uncleared' = Uncleared \ Ready /\ Ready \subseteq Uncleared
  BY <1>1 DEF Listed, Uncleared, Ready
<1>5. SplitInv'
  BY <1>1, <1>2, <1>3 DEF IInv, SplitInv
<1>6. Places'
  BY <1>1, <1>2, <1>4 DEF IInv, Places
<1>7. Stages' /\ Visits'
  BY <1>1, <1>2 DEF IInv, Stages, Visits, Owns
<1>8. \A v \in Uncleared : v \in Heads => v \in Ready
  BY <1>1 DEF IInv, Counts, Ready
<1>9. OrderInv'
  <2>1. ASSUME NEW e \in edges, e.to \in Ready \ Heads PROVE e.from \in Listed
    <3>1. numDependencies[e.to] = 0 /\ numDependencies[e.to] = Cardinality(Waiting(e.to))
      BY <1>1, <2>1 DEF Ready, IInv, Counts
    <3>2. Waiting(e.to) = {}
      <4>1. Waiting(e.to) \in SUBSET edges /\ {} \in SUBSET Waiting(e.to) /\ TypeOK
        BY DEF Waiting, IInv, RInv, TInv
      <4> QED BY <3>1, <4>1, CountsAdd
    <3> QED BY <3>2 DEF Waiting
  <2>2. \A u, v : Before(u, v)' = Before(u, v)
    BY <1>1 DEF Before
  <2>3. \A e \in edges : e.to \notin Heads => Before(e.from, e.to)
    BY DEF IInv, OrderInv
  <2>4. \A e \in edges' : e.to \notin Heads' => Before(e.from, e.to)'
    BY <1>1, <1>3, <2>2, <2>3
  <2> QED BY <1>1, <1>3, <1>4, <2>1, <2>4 DEF OrderInv
<1>10. Counts'
  <2>1. \A v : Waiting(v)' = Waiting(v)
    BY <1>1, <1>4 DEF Waiting
  <2> SUFFICES ASSUME NEW v \in Uncleared \ Ready
               PROVE  v \notin Heads /\ numDependencies'[v] = Cardinality(Waiting(v))
    BY <1>3, <1>4, <2>1 DEF Counts
  <2> QED BY <1>1, <1>8 DEF IInv, Counts
<1> QED
  BY <1>3, <1>5, <1>6, <1>7, <1>9, <1>10 DEF IInv

\* Listing a vertex tells exactly the dependents that wait for it.
LEMMA IInvListRemoved ==
    ASSUME IInv, NEW v \in Vertices, ListRemoved(v), RInv'
    PROVE  IInv'
<1> DEFINE told(w) == {e \in edges : e.from = v /\ e.to = w}
<1>1. /\ phase = "sort" /\ phase' = "sort" /\ v \in justRemoved /\ justRemoved' = justRemoved \ {v}
      /\ mGlobalOrdering' = Append(mGlobalOrdering, v)
      /\ numDependencies' = [w \in Uncleared |-> numDependencies[w] - Cardinality(told(w))]
      /\ UNCHANGED <<registration, edges, toSplit, trials, totalVisits>>
  BY DEF ListRemoved, breaking
<1>2. /\ mDependentList' = mDependentList /\ mHasSelfDependence' = mHasSelfDependence /\ Vertices' = Vertices
      /\ mPriceVertices' = mPriceVertices /\ mDemandVertices' = mDemandVertices
  BY <1>1 DEF registration, Vertices
<1>3. Split' = Split /\ Heads' = Heads /\ GraphInv'
  BY <1>1, SameGraph DEF IInv
<1>4. TypeOK /\ mGlobalOrdering \in Seq(Vertices)
  BY DEF IInv, RInv, TInv, TypeOK
<1>5. /\ DOMAIN mGlobalOrdering' = DOMAIN mGlobalOrdering \cup {Len(mGlobalOrdering) + 1}
      /\ DOMAIN mGlobalOrdering = 1..Len(mGlobalOrdering) /\ Len(mGlobalOrdering) \in Nat
      /\ mGlobalOrdering'[Len(mGlobalOrdering) + 1] = v
      /\ \A j \in DOMAIN mGlobalOrdering : mGlobalOrdering'[j] = mGlobalOrdering[j]
  BY <1>1, <1>4
<1>6. Listed' = Listed \cup {v} /\ Uncleared' = Uncleared
  BY <1>1, <1>5 DEF Listed, Uncleared
<1>7. v \notin Listed /\ v \notin Uncleared
  BY <1>1 DEF IInv, Places
<1>8. SplitInv'
  BY <1>1, <1>2, <1>3 DEF IInv, SplitInv
<1>9. Places'
  <2>1. ASSUME NEW j \in DOMAIN mGlobalOrdering', NEW k \in DOMAIN mGlobalOrdering',
               mGlobalOrdering'[j] = mGlobalOrdering'[k]
        PROVE  j = k
    <3>1. \A x \in DOMAIN mGlobalOrdering : mGlobalOrdering[x] # v
      BY <1>7 DEF Listed
    <3>2. j \in DOMAIN mGlobalOrdering \/ j = Len(mGlobalOrdering) + 1
      BY <1>5
    <3>3. k \in DOMAIN mGlobalOrdering \/ k = Len(mGlobalOrdering) + 1
      BY <1>5
    <3> QED BY <1>5, <2>1, <3>1, <3>2, <3>3 DEF IInv, Places
  <2>2. Uncleared' \cap (justRemoved' \cup Listed') = {} /\ justRemoved' \cap Listed' = {}
    BY <1>1, <1>6, <1>7 DEF IInv, Places
  <2>3. Vertices' = Uncleared' \cup justRemoved' \cup Listed'
    BY <1>1, <1>2, <1>6 DEF IInv, Places
  <2> QED BY <2>1, <2>2, <2>3 DEF Places
<1>10. Stages' /\ Visits'
  BY <1>1, <1>2 DEF IInv, Stages, Visits, Owns
<1>11. OrderInv'
  <2>1. ASSUME NEW e \in edges, e.to \notin Heads PROVE Before(e.from, e.to)'
    <3>1. Before(e.from, e.to)
      BY <2>1 DEF IInv, OrderInv
    <3> SUFFICES ASSUME NEW j \in DOMAIN mGlobalOrdering', mGlobalOrdering'[j] = e.to
                 PROVE  \E i \in 1..(j - 1) : mGlobalOrdering'[i] = e.from
      BY DEF Before
    <3>2. CASE j \in DOMAIN mGlobalOrdering
      <4>1. PICK i \in 1..(j - 1) : mGlobalOrdering[i] = e.from
        BY <1>5, <3>1, <3>2 DEF Before
      <4>2. i \in DOMAIN mGlobalOrdering
        BY <1>5, <3>2
      <4> QED BY <1>5, <4>1, <4>2
    <3>3. CASE j = Len(mGlobalOrdering) + 1
      <4>1. e.to = v
        BY <1>5, <3>3
      <4>2. e.from \in Listed
        BY <1>1, <2>1, <4>1 DEF IInv, OrderInv
      <4>3. PICK i \in DOMAIN mGlobalOrdering : mGlobalOrdering[i] = e.from
        BY <4>2 DEF Listed
      <4>4. i \in 1..(j - 1) /\ mGlobalOrdering'[i] = e.from
        BY <1>5, <3>3, <4>3
      <4> QED BY <4>4
    <3> QED BY <1>5, <3>2, <3>3
  <2>2. ASSUME NEW e \in edges, e.to \in justRemoved' \ Heads PROVE e.from \in Listed'
    BY <1>1, <1>6, <2>2 DEF IInv, OrderInv
  <2>3. edges' = edges /\ Heads' = Heads
    BY <1>1, <1>3
  <2> QED BY <2>1, <2>2, <2>3 DEF OrderInv
<1>12. Counts'
  <2>1. \A w \in Uncleared : w \notin Heads
    BY <1>1 DEF IInv, Counts
  <2> SUFFICES ASSUME NEW w \in Uncleared PROVE numDependencies'[w] = Cardinality(Waiting(w)')
    BY <1>3, <1>6, <2>1 DEF Counts
  <2>2. Waiting(w)' = Waiting(w) \ told(w)
    BY <1>1, <1>6 DEF Waiting
  <2>3. told(w) \in SUBSET Waiting(w) /\ Waiting(w) \in SUBSET edges
    BY <1>7 DEF Waiting
  <2>4. Cardinality(Waiting(w) \ told(w)) = Cardinality(Waiting(w)) - Cardinality(told(w))
    <3> HIDE DEF told
    <3> QED BY <1>4, <2>3, CountsAdd
  <2>5. numDependencies[w] = Cardinality(Waiting(w))
    BY <1>1, <2>1 DEF IInv, Counts
  <2>6. numDependencies'[w] = numDependencies[w] - Cardinality(told(w))
    BY <1>1
  <2> QED BY <2>2, <2>4, <2>5, <2>6
<1> QED
  BY <1>3, <1>8, <1>9, <1>10, <1>11, <1>12 DEF IInv

\* The vertices found on cycles all wait, and their items have dependents.
LEMMA IInvFindCycles ==
    ASSUME IInv, FindCycles, RInv'
    PROVE  IInv'
<1>1. /\ phase = "sort" /\ phase' = "break" /\ justRemoved = {} /\ Ready = {}
      /\ totalVisits' = IF totalVisits = {} THEN StronglyConnected ELSE totalVisits \cap Uncleared
      /\ UNCHANGED <<registration, edges, sorting, toSplit, trials>>
  BY DEF FindCycles
<1>2. /\ mDependentList' = mDependentList /\ mPriceVertices' = mPriceVertices
      /\ mDemandVertices' = mDemandVertices /\ numDependencies' = numDependencies /\ justRemoved' = justRemoved
      /\ mGlobalOrdering' = mGlobalOrdering
  BY <1>1 DEF registration, sorting
<1>3. Uncleared' = Uncleared /\ Ready' = Ready
  BY <1>2 DEF Uncleared, Ready
<1>4. GraphInv' /\ SplitInv' /\ Places' /\ OrderInv' /\ Counts'
  BY <1>1, SameSort
<1>5. Stages'
  BY <1>1, <1>2, <1>3 DEF Stages
<1>6. StronglyConnected \subseteq Uncleared
  <2>1. StronglyConnected \subseteq Vertices
    BY SharedComponent
  <2> QED BY <1>1, <2>1, ConnectedNotListed DEF IInv, Places
<1>7. \A v \in StronglyConnected : \A i \in Item : Owns(i, v) => mDependentList[i] # {}
  BY <1>1, ConnectedHaveDependents
<1>8. Visits'
  <2>1. \A v \in totalVisits' : \A i \in Item : Owns(i, v) => mDependentList[i] # {}
    BY <1>1, <1>7 DEF IInv, Visits
  <2>2. totalVisits' \subseteq Uncleared
    BY <1>1, <1>6
  <2>3. \A i, v : Owns(i, v)' = Owns(i, v)
    BY <1>2 DEF Owns
  <2> QED BY <1>2, <1>3, <2>1, <2>2, <2>3 DEF Visits
<1> QED
  BY <1>4, <1>5, <1>8 DEF IInv

\* Steps that only change the phase, and queries.
LEMMA IInvPhase ==
    ASSUME IInv, RInv', UNCHANGED <<registration, edges, sorting, breaking>>, phase # "collect",
           phase' \notin {"collect", "break"}, phase' = "split" => phase = "split",
           phase' # "sort" => justRemoved = {}
    PROVE  IInv'
<1>1. /\ UNCHANGED <<toSplit, trials, totalVisits>> /\ mGlobalOrdering' = mGlobalOrdering
      /\ justRemoved' = justRemoved /\ numDependencies' = numDependencies
      /\ mDependentList' = mDependentList /\ mPriceVertices' = mPriceVertices /\ mDemandVertices' = mDemandVertices
  BY DEF breaking, sorting, registration
<1>2. GraphInv' /\ SplitInv' /\ Places' /\ OrderInv' /\ Counts'
  BY <1>1, SameSort
<1>3. Stages'
  BY <1>1 DEF IInv, Stages
<1>4. Visits'
  <2>1. \A i, v : Owns(i, v)' = Owns(i, v)
    BY <1>1 DEF Owns
  <2> QED BY <1>1, <2>1 DEF IInv, Visits
<1> QED
  BY <1>2, <1>3, <1>4 DEF IInv

-----------------------------------------------------------------------------
(* Trial markets *)

\* Only a vertex of its own leads into the demand of an item that is split, and
\* none of the fixed outputs among them has been listed.
LEMMA FixedNotListed ==
    ASSUME IInv, phase # "collect", NEW i \in Item, Splittable(i), mDependentList[i] # {},
           LastPrice(i) \in Uncleared,
           NEW e \in edges, e.to = FirstDemand(i)
    PROVE  /\ e = Edge(e.from, FirstDemand(i), "depend") /\ e.from # LastPrice(i)
           /\ DemandVertex(e.from)
           /\ FixedVertex(e.from) => e.from \notin Listed
<1>0. RInv /\ GraphInv /\ SplitInv /\ Places
  BY DEF IInv
<1>1. PICK d \in mDependentList[i] : HasDemand(d) /\ e = Edge(LastDemand(d), FirstDemand(i), "depend")
  BY <1>0, BeforeSplit
<1>2. i \notin Split /\ ~SetBySolver(i) /\ HasPrice(i)
  BY <1>0, BeforeSplit DEF Splittable
<1>3. d \in Item
  BY <1>0, <1>1 DEF RInv, TInv, TypeOK
<1>4. e.from = LastDemand(d) /\ e = Edge(e.from, FirstDemand(i), "depend")
  BY <1>1 DEF Edge
<1>5. DemandVertexOf(d, e.from) /\ PriceVertex(i, LastPrice(i))
  BY <1>0, <1>1, <1>2, <1>3, <1>4, Ends
<1>6. e.from # LastPrice(i)
  BY <1>0, <1>3, <1>5, OneOwner
<1>7. DemandVertex(e.from)
  BY <1>0, <1>3, <1>5, DemandVertexIs
<1>8. ASSUME FixedVertex(e.from), e.from \in Listed PROVE FALSE
  <2>1. PICK f \in FixedOutput : DemandVertexOf(f, e.from)
    BY <1>0, <1>8, DemandVertexIs
  <2>2. f \in Item /\ ~HasPrice(f)
    BY <1>0, OnlyDemands
  <2>3. f = d
    BY <1>0, <1>3, <1>5, <2>1, <2>2, OneOwner
  <2>4. 1 \in DOMAIN mDemandVertices[d]
    BY <1>0, <1>1, <1>3, Positions
  <2>5. FirstDemand(d) \in Listed
    BY <1>3, <1>4, <1>8, <2>4, ChainsInOrder DEF LastDemand
  <2>6. LastPrice(i) \in Listed
    BY <1>1, <1>2, <2>2, <2>3, <2>5, PriceWaits
  <2> QED BY <1>0, <2>6 DEF Places
<1> QED BY <1>4, <1>6, <1>7, <1>8

\* The counts of createTrialsForItem stay exact.
LEMMA SplitCountsExact ==
    ASSUME IInv, phase \in {"split", "break"}, NEW i \in Item, CreateTrialsForItem(i),
           UNCHANGED registration, mGlobalOrdering' = mGlobalOrdering,
           FirstPrice(i) \in Uncleared, LastPrice(i) \in Uncleared, FirstDemand(i) \in Uncleared,
           NEW v \in Uncleared, v \notin Heads, v = FirstDemand(i) => mDependentList[i] # {}
    PROVE  SplitCounts(i)[v] = Cardinality(Waiting(v)')
<1> DEFINE d == FirstDemand(i)
           Told == {e \in Released(i) : e.to = v}
<1>1. Splittable(i) /\ phase # "collect"
  BY DEF CreateTrialsForItem, Splittable
<1>2. Listed' = Listed
  BY DEF Listed
<1>3. edges' = {e \in edges : e.from # LastPrice(i) /\ (e.to = d => FixedVertex(e.from))} \cup {TrialEdge(i)}
  BY <1>1, SplitEdges DEF IInv
<1>4. LastPrice(i) \notin Listed
  BY DEF IInv, Places
<1>5. SplitCounts(i)[v] = (IF v = d THEN Cardinality(KeptFixed(i)) ELSE numDependencies[v]) - Cardinality(Told)
                             + IF v = d THEN 1 ELSE 0
  <2>1. Uncleared \cup {d} = Uncleared
    OBVIOUS
  <2> QED BY <2>1 DEF SplitCounts
<1>6. TypeOK
  BY DEF IInv, RInv, TInv
<1>7. CASE v # d
  <2>1. numDependencies[v] = Cardinality(Waiting(v))
    BY <1>1 DEF IInv, Counts
  <2>2. Told = {e \in edges : e.from = LastPrice(i) /\ e.to = v}
    BY <1>7 DEF Released, Cut, Feeding
  <2>3. Told \in SUBSET Waiting(v) /\ Waiting(v) \in SUBSET edges
    BY <1>4, <2>2 DEF Waiting
  <2>4. Waiting(v)' = Waiting(v) \ Told
    <3>1. Waiting(v)' = {e \in edges' : e.to = v /\ e.from \notin Listed}
      BY <1>2 DEF Waiting
    <3>2. Waiting(v) = {e \in edges : e.to = v /\ e.from \notin Listed}
      BY DEF Waiting
    <3> HIDE DEF Told
    <3>3. TrialEdge(i).to = d
      BY TrialIs
    <3> QED BY <1>3, <1>7, <2>2, <3>1, <3>2, <3>3
  <2>5. Cardinality(Waiting(v) \ Told) = Cardinality(Waiting(v)) - Cardinality(Told) /\ Cardinality(Told) \in Nat
        /\ Cardinality(Waiting(v)) \in Nat
    <3> HIDE DEF Told
    <3> QED BY <1>6, <2>3, CountsAdd
  <2> HIDE DEF Told
  <2> QED BY <1>5, <1>7, <2>1, <2>4, <2>5
<1>8. CASE v = d
  <2> DEFINE W == {e \in edges : e.to = d /\ FixedVertex(e.from)}
  <2>1. \A e \in edges : e.to = d => /\ e = Edge(e.from, d, "depend") /\ e.from # LastPrice(i)
                                     /\ DemandVertex(e.from)
                                     /\ FixedVertex(e.from) => e.from \notin Listed
    BY <1>1, <1>8, FixedNotListed
  <2>2. Told = {}
    BY <1>8, <2>1 DEF Released
  <2>3. KeptFixed(i) = {e.from : e \in W}
    BY <2>1 DEF KeptFixed, Feeding
  <2>4. W \in SUBSET edges
    OBVIOUS
  <2>5. IsFiniteSet(W) /\ Cardinality(W) \in Nat
    <3>1. {} \in SUBSET W
      OBVIOUS
    <3> HIDE DEF W
    <3> QED BY <1>6, <2>4, <3>1, CountsAdd
  <2>6. Cardinality(KeptFixed(i)) = Cardinality(W)
    <3> DEFINE g == [e \in W |-> e.from]
               K == KeptFixed(i)
    <3>1. g \in [W -> K] /\ \A x \in K : \E e \in W : g[e] = x
      BY <2>3
    <3>2. \A a, b \in W : g[a] = g[b] => a = b
      <4> SUFFICES ASSUME NEW a \in W, NEW b \in W, a.from = b.from PROVE a = b
        OBVIOUS
      <4>1. a = Edge(a.from, d, "depend") /\ b = Edge(b.from, d, "depend")
        BY <2>1
      <4> QED BY <4>1
    <3> HIDE DEF W, g, K
    <3>3. g \in Bijection(W, K)
      BY <3>1, <3>2, Fun_IsBij
    <3>4. ExistsBijection(W, K)
      BY <3>3 DEF ExistsBijection
    <3> QED BY <2>5, <3>4, FS_Bijection DEF K
  <2>7. TrialEdge(i) \notin W
    <3> SUFFICES ASSUME TrialEdge(i) \in W PROVE FALSE
      OBVIOUS
    <3>1. TrialEdge(i).from # LastPrice(i)
      BY <2>1
    <3> QED BY <3>1, TrialIs
  <2>8. Waiting(v)' = W \cup {TrialEdge(i)}
    <3>1. Waiting(v)' = {e \in edges' : e.to = v /\ e.from \notin Listed}
      BY <1>2 DEF Waiting
    <3>2. TrialEdge(i).to = d /\ TrialEdge(i).from \notin Listed
      BY <1>4, TrialIs
    <3>3. ASSUME NEW e \in Waiting(v)' PROVE e \in W \cup {TrialEdge(i)}
      BY <1>3, <1>8, <3>1, <3>3
    <3>4. ASSUME NEW e \in W PROVE e \in Waiting(v)'
      BY <1>3, <1>8, <2>1, <3>1, <3>4
    <3>5. TrialEdge(i) \in Waiting(v)'
      BY <1>3, <1>8, <3>1, <3>2
    <3> HIDE DEF W
    <3> QED BY <3>3, <3>4, <3>5
  <2> HIDE DEF W, Told, d
  <2>9. Cardinality(W \cup {TrialEdge(i)}) = Cardinality(W) + 1
    BY <2>5, <2>7, FS_AddElement
  <2>10. Cardinality(Told) = 0
    BY <2>2, FS_EmptySet
  <2> QED BY <1>5, <1>8, <2>5, <2>6, <2>8, <2>9, <2>10
<1> QED BY <1>7, <1>8

\* A self dependent item nothing depends on is only split before the sort; its
\* demand then counts nothing to wait for.
LEMMA HeadCount ==
    ASSUME IInv, phase = "split", NEW i \in Item, CreateTrialsForItem(i), mDependentList[i] = {},
           FirstPrice(i) \in Uncleared, FirstDemand(i) \in Uncleared
    PROVE  SplitCounts(i)[FirstDemand(i)] = 0
<1> DEFINE d == FirstDemand(i)
           Told == {e \in Released(i) : e.to = d}
           fold == Edge(LastPrice(i), d, "depend")
<1>0. RInv /\ GraphInv /\ SplitInv /\ TypeOK
  BY DEF IInv, RInv, TInv
<1>1. Splittable(i) /\ HasPrice(i) /\ HasDemand(i)
  BY DEF CreateTrialsForItem, Splittable
<1>2. i \notin Split /\ ~SetBySolver(i) /\ \A e \in edges : e.to = d => e = fold
  BY <1>0, <1>1, BeforeSplit
<1>3. fold.from = LastPrice(i) /\ fold.to = d
  BY DEF Edge
<1>4. PriceVertex(i, LastPrice(i)) /\ DemandVertexOf(i, d)
  BY <1>0, <1>1, Ends
<1>5. ~DemandVertex(LastPrice(i))
  BY <1>0, <1>4, OneOwner, DemandVertexIs
<1>6. Feeding(i) = {}
  BY <1>2, <1>3, <1>5 DEF Feeding
<1>7. KeptFixed(i) = {} /\ Cut(i) = {}
  BY <1>6 DEF KeptFixed, Cut
<1>8. fold \in edges
  <2>1. Fold(fold)
    BY <1>1, <1>2 DEF Fold
  <2>2. fold \in Connected
    BY <1>0, <2>1, ShapeConnected
  <2>3. Kept(fold)
    <3> SUFFICES ASSUME NEW k \in Split PROVE LastPrice(i) # LastPrice(k) /\ d # FirstDemand(k)
      BY <1>3 DEF Kept
    <3>1. k \in Item /\ HasPrice(k) /\ MarketOf[k] \in trials
      BY <1>0 DEF Split, SplitInv
    <3>2. HasDemand(k)
      BY <1>0, <3>1 DEF RInv, Registered
    <3>3. PriceVertex(k, LastPrice(k)) /\ DemandVertexOf(k, FirstDemand(k))
      BY <1>0, <3>1, <3>2, Ends
    <3> QED BY <1>0, <1>2, <1>4, <3>1, <3>3, OneOwner
  <2> QED BY <1>0, <2>2, <2>3 DEF GraphInv
<1>9. Told = {fold}
  BY <1>2, <1>3, <1>7, <1>8 DEF Released
<1> HIDE DEF Told, fold
<1>10. Cardinality(Told) = 1 /\ Cardinality(KeptFixed(i)) = 0
  BY <1>7, <1>9, FS_Singleton, FS_EmptySet
<1>11. SplitCounts(i)[d] = Cardinality(KeptFixed(i)) - Cardinality(Told) + 1
  <2>1. Uncleared \cup {d} = Uncleared /\ d \in Uncleared
    OBVIOUS
  <2> QED BY <2>1 DEF SplitCounts, Told
<1> QED BY <1>10, <1>11

\* Splitting an item that has not been reached by the sort.
LEMMA TrialsKept ==
    ASSUME IInv, RInv', phase \in {"split", "break"}, phase' # "collect", NEW i \in Item, CreateTrialsForItem(i),
           UNCHANGED <<registration, justRemoved, mGlobalOrdering>>, toSplit' \subseteq toSplit,
           FirstPrice(i) \in Uncleared, LastPrice(i) \in Uncleared, FirstDemand(i) \in Uncleared,
           phase = "split" \/ mDependentList[i] # {},
           mDependentList[i] = {} => i \in mHasSelfDependence
    PROVE  GraphInv' /\ SplitInv' /\ Places' /\ OrderInv' /\ Counts'
<1> DEFINE d == FirstDemand(i)
<1>0. RInv /\ GraphInv /\ SplitInv /\ TypeOK /\ Places /\ OrderInv /\ Counts /\ Stages
  BY DEF IInv, RInv, TInv
<1>1. /\ Splittable(i) /\ CanReset(i) /\ HasPrice(i) /\ HasDemand(i) /\ trials' = trials \cup {MarketOf[i]}
      /\ numDependencies' = SplitCounts(i) /\ phase # "collect" /\ justRemoved = {}
      /\ phase = "split" => mGlobalOrdering = <<>>
  BY <1>0 DEF CreateTrialsForItem, Splittable, Stages
<1>2. Split' = Split \cup {i} /\ GraphInv'
  BY <1>0, <1>1, GraphAfterSplit
<1>3. edges' = {e \in edges : e.from # LastPrice(i) /\ (e.to = d => FixedVertex(e.from))} \cup {TrialEdge(i)}
  BY <1>0, <1>1, SplitEdges
<1>4. /\ mDependentList' = mDependentList /\ mHasSelfDependence' = mHasSelfDependence
      /\ mPriceVertices' = mPriceVertices /\ mDemandVertices' = mDemandVertices
      /\ Vertices' = Vertices /\ Listed' = Listed /\ justRemoved' = {} /\ mGlobalOrdering' = mGlobalOrdering
  BY <1>1 DEF registration, Vertices, Listed
<1>5. Uncleared' = Uncleared
  BY <1>1 DEF Uncleared, SplitCounts
<1>6. SplitInv'
  <2>1. \A j \in Split' : MarketOf[j] \in trials'
    BY <1>0, <1>1, <1>2 DEF SplitInv
  <2>2. trials' \subseteq Normal
    BY <1>0, <1>1 DEF SplitInv, CanReset
  <2>3. \A j \in Split' : mDependentList'[j] = {} => j \in mHasSelfDependence'
    BY <1>0, <1>2, <1>4 DEF SplitInv
  <2>4. toSplit' \subseteq mHasSelfDependence'
    BY <1>0, <1>4 DEF SplitInv
  <2> QED BY <2>1, <2>2, <2>3, <2>4 DEF SplitInv
<1>7. Places'
  BY <1>0, <1>4, <1>5, <1>1 DEF Places
<1>8. /\ Heads \subseteq Heads' /\ (mDependentList[i] = {} => d \in Heads')
      /\ \A v \in Heads' : v \in Heads \/ (v = d /\ mDependentList[i] = {})
  <2>1. Heads' = {FirstDemand(j) : j \in {k \in Split' : mDependentList[k] = {}}}
    BY <1>4 DEF Heads, FirstDemand
  <2> QED BY <1>2, <2>1 DEF Heads
<1>9. d \notin Listed /\ LastPrice(i) \notin Listed
  BY <1>0 DEF Places
<1>10. OrderInv'
  <2>1. \A u, v : Before(u, v)' = Before(u, v)
    BY <1>4 DEF Before
  <2>2. ASSUME NEW e \in edges', e.to \notin Heads' PROVE Before(e.from, e.to)
    <3>1. CASE e \in edges
      BY <1>0, <1>8, <2>2, <3>1 DEF OrderInv
    <3>2. CASE e = TrialEdge(i)
      BY <1>9, <3>2, TrialIs DEF Before, Listed
    <3> QED BY <1>3, <3>1, <3>2
  <2> QED BY <1>4, <2>1, <2>2 DEF OrderInv
<1>11. Counts'
  <2> SUFFICES ASSUME NEW v \in Uncleared
               PROVE  /\ v \in Heads' => SplitCounts(i)[v] = 0 /\ mGlobalOrdering = <<>>
                      /\ v \notin Heads' => SplitCounts(i)[v] = Cardinality(Waiting(v)')
    BY <1>1, <1>4, <1>5 DEF Counts
  <2>1. CASE v \notin Heads'
    <3>1. v \notin Heads /\ (v = d => mDependentList[i] # {})
      BY <1>8, <2>1
    <3>2. SplitCounts(i)[v] = Cardinality(Waiting(v)')
      BY <3>1, SplitCountsExact
    <3> QED BY <2>1, <3>2
  <2>2. CASE v = d /\ v \in Heads'
    <3>1. d \notin Heads
      <4> SUFFICES ASSUME d \in Heads PROVE FALSE
        OBVIOUS
      <4>1. PICK k \in Split : d = FirstDemand(k) /\ k \in Item /\ HasDemand(k)
        BY HeadIs
      <4>2. DemandVertexOf(k, d) /\ DemandVertexOf(i, d)
        BY <1>0, <1>1, <4>1, Ends
      <4>3. i = k
        BY <1>0, <4>1, <4>2, OneOwner
      <4> QED BY <1>0, <1>1, <4>1, <4>3, BeforeSplit
    <3>2. mDependentList[i] = {}
      BY <1>8, <2>2, <3>1
    <3>3. phase = "split" /\ SplitCounts(i)[d] = 0
      BY <3>2, HeadCount
    <3> QED BY <1>1, <2>2, <3>3
  <2>3. CASE v # d /\ v \in Heads'
    <3>1. v \in Heads
      BY <1>8, <2>3
    <3>2. numDependencies[v] = 0 /\ mGlobalOrdering = <<>>
      BY <1>0, <1>1, <3>1 DEF Counts
    <3>3. {e \in Released(i) : e.to = v} = {}
      <4> SUFFICES ASSUME NEW e \in edges, e.from = LastPrice(i), e.to = v PROVE FALSE
        BY DEF Released
      <4>1. PICK j \in Split : v = FirstDemand(j) /\ j \in Item /\ HasPrice(j) /\ HasDemand(j)
        BY <3>1, HeadIs
      <4>2. PriceVertex(i, LastPrice(i))
        BY <1>0, <1>1, Ends
      <4>3. CASE \E k \in Split : e = TrialEdge(k)
        <5>1. PICK k \in Split : e = TrialEdge(k)
          BY <4>3
        <5>2. k \in Item /\ HasPrice(k) /\ LastPrice(k) = LastPrice(i)
          BY <5>1, TrialIs DEF Split
        <5>3. k = i
          BY <1>0, <4>2, <5>2, Ends, OneOwner
        <5> QED BY <1>0, <1>1, <5>1, <5>3, BeforeSplit
      <4>4. CASE Kept(e)
        <5>1. FixedVertex(LastPrice(i))
          BY <4>1, <4>4 DEF Kept
        <5>2. PICK f \in FixedOutput : DemandVertexOf(f, LastPrice(i))
          BY <1>0, <5>1, DemandVertexIs
        <5>3. f \in Item
          BY <1>0, <1>1, OnlyDemands
        <5> QED BY <1>0, <4>2, <5>2, <5>3, OneOwner
      <4> QED BY <1>0, <1>1, <4>3, <4>4 DEF GraphInv
    <3>4. SplitCounts(i)[v] = numDependencies[v] - Cardinality({e \in Released(i) : e.to = v}) + 0
      BY <2>3 DEF SplitCounts
    <3>5. Cardinality({e \in Released(i) : e.to = v}) = 0
      BY <3>3, FS_EmptySet
    <3> QED BY <2>3, <3>2, <3>4, <3>5
  <2> QED BY <2>1, <2>2, <2>3
<1> QED BY <1>2, <1>6, <1>7, <1>10, <1>11

\* Before the sort any self dependent item may be split.
LEMMA IInvSplit ==
    ASSUME IInv, NEW i \in Item, SplitSelfDependent(i), RInv'
    PROVE  IInv'
<1>0. RInv /\ SplitInv /\ Places /\ Stages /\ Visits
  BY DEF IInv
<1>1. phase = "split" /\ i \in toSplit /\ justRemoved = {} /\ mGlobalOrdering = <<>> /\ totalVisits = {}
  BY <1>0 DEF SplitSelfDependent, Stages
<1>2. ASSUME TrialsFail(i) PROVE IInv'
  <2>1. /\ phase' \in {"noVertex", "noTrial"} /\ UNCHANGED <<registration, edges, sorting, breaking>>
    BY <1>2 DEF TrialsFail
  <2> QED BY <1>1, <2>1, IInvPhase
<1>3. ASSUME CreateTrialsForItem(i), toSplit' = toSplit \ {i},
             UNCHANGED <<phase, registration, justRemoved, mGlobalOrdering, totalVisits, mIndexed, mCalcList>>
      PROVE  IInv'
  <2>1. HasPrice(i) /\ HasDemand(i)
    BY <1>3 DEF CreateTrialsForItem
  <2>2. FirstPrice(i) \in Vertices /\ LastPrice(i) \in Vertices /\ FirstDemand(i) \in Vertices
    BY <1>0, <2>1, Positions DEF FirstPrice, LastPrice, FirstDemand
  <2>3. Vertices = Uncleared
    <3>1. Listed = {}
      BY <1>1 DEF Listed
    <3> QED BY <1>0, <1>1, <3>1 DEF Places
  <2>4. i \in mHasSelfDependence
    BY <1>0, <1>1 DEF SplitInv
  <2>5. GraphInv' /\ SplitInv' /\ Places' /\ OrderInv' /\ Counts'
    BY <1>1, <1>3, <2>2, <2>3, <2>4, TrialsKept
  <2>6. Stages' /\ Visits'
    BY <1>1, <1>3 DEF Stages, Visits
  <2> QED BY <2>5, <2>6 DEF IInv
<1> QED BY <1>2, <1>3 DEF SplitSelfDependent

\* While sorting only an item is split that has not been reached.
LEMMA IInvBreakCycle ==
    ASSUME IInv, BreakCycle, RInv'
    PROVE  IInv'
<1>0. RInv /\ SplitInv /\ Places /\ Stages /\ Visits
  BY DEF IInv
<1>1. phase = "break" /\ justRemoved = {}
  BY <1>0 DEF BreakCycle, Stages
<1>2. PICK v \in Breakers(totalVisits) : \E i \in Item :
          /\ Owns(i, v)
          /\ \/ /\ CreateTrialsForItem(i)
                /\ phase' = "sort"
                /\ totalVisits' = totalVisits \ {FirstDemand(i), FirstPrice(i)}
                /\ UNCHANGED <<registration, justRemoved, mGlobalOrdering, toSplit, mIndexed, mCalcList>>
             \/ TrialsFail(i)
  BY DEF BreakCycle
<1>3. PICK i \in Item :
          /\ Owns(i, v)
          /\ \/ /\ CreateTrialsForItem(i)
                /\ phase' = "sort"
                /\ totalVisits' = totalVisits \ {FirstDemand(i), FirstPrice(i)}
                /\ UNCHANGED <<registration, justRemoved, mGlobalOrdering, toSplit, mIndexed, mCalcList>>
             \/ TrialsFail(i)
  BY <1>2
<1>4. CASE TrialsFail(i)
  <2>1. /\ phase' \in {"noVertex", "noTrial"} /\ UNCHANGED <<registration, edges, sorting, breaking>>
    BY <1>4 DEF TrialsFail
  <2> QED BY <1>1, <2>1, IInvPhase
<1>5. CASE /\ CreateTrialsForItem(i)
           /\ phase' = "sort"
           /\ totalVisits' = totalVisits \ {FirstDemand(i), FirstPrice(i)}
           /\ UNCHANGED <<registration, justRemoved, mGlobalOrdering, toSplit, mIndexed, mCalcList>>
  <2>1. HasPrice(i) /\ HasDemand(i)
    BY <1>5 DEF CreateTrialsForItem
  <2>2. /\ FirstPrice(i) \in Uncleared /\ LastPrice(i) \in Uncleared /\ FirstDemand(i) \in Uncleared
        /\ mDependentList[i] # {}
    BY <1>1, <1>3, <2>1, ChosenWaits
  <2>3. GraphInv' /\ SplitInv' /\ Places' /\ OrderInv' /\ Counts'
    BY <1>1, <1>5, <2>2, TrialsKept
  <2>4. Stages'
    BY <1>5 DEF Stages
  <2>5. Visits'
    <3>1. \A j, w : Owns(j, w)' = Owns(j, w)
      BY <1>5 DEF Owns, registration
    <3>2. mDependentList' = mDependentList /\ totalVisits' \subseteq totalVisits
      BY <1>5 DEF registration
    <3> QED BY <1>0, <1>5, <3>1, <3>2 DEF Visits
  <2> QED BY <2>3, <2>4, <2>5 DEF IInv
<1> QED BY <1>3, <1>4, <1>5

\* Every step keeps the invariant.
LEMMA IInvStep == IInv /\ [Next]_vars => IInv'
<1> SUFFICES ASSUME IInv, [Next]_vars PROVE IInv'
  OBVIOUS
<1>1. RInv /\ RInv' /\ Stages
  BY RInvStep DEF IInv
<1>2. ASSUME NEW d \in Declaration, AddDependency(d) PROVE IInv'
  BY <1>1, <1>2, CollectKept DEF AddDependency
<1>3. ASSUME NEW a \in Activity, ResolveActivityToDependency(a) PROVE IInv'
  BY <1>1, <1>3, CollectKept DEF ResolveActivityToDependency
<1>4. ASSUME ConnectGraph PROVE IInv'
  BY <1>4, IInvConnectGraph
<1>5. ASSUME NEW i \in Item, SplitSelfDependent(i) PROVE IInv'
  BY <1>1, <1>5, IInvSplit
<1>6. ASSUME StartSort PROVE IInv'
  BY <1>1, <1>6, IInvPhase DEF StartSort, Stages
<1>7. ASSUME StartPass PROVE IInv'
  BY <1>1, <1>7, IInvStartPass
<1>8. ASSUME NEW v \in Vertices, ListRemoved(v) PROVE IInv'
  BY <1>1, <1>8, IInvListRemoved
<1>9. ASSUME Finish PROVE IInv'
  BY <1>1, <1>9, IInvPhase DEF Finish, Stages
<1>10. ASSUME FindCycles PROVE IInv'
  BY <1>1, <1>10, IInvFindCycles
<1>11. ASSUME BreakCycle PROVE IInv'
  BY <1>1, <1>11, IInvBreakCycle
<1>12. ASSUME GiveUp PROVE IInv'
  BY <1>1, <1>12, IInvPhase DEF GiveUp, Stages
<1>13. ASSUME NEW k \in Asked, GetOrdering(k) PROVE IInv'
  <2>1. /\ phase = "ordered" /\ phase' \in {"ordered", "noMarket"} /\ justRemoved = {}
        /\ UNCHANGED <<registration, edges, sorting, breaking>>
    BY <1>1, <1>13 DEF GetOrdering, Stages
  <2> QED BY <1>1, <2>1, IInvPhase
<1>14. ASSUME UNCHANGED vars PROVE IInv'
  <2>1. UNCHANGED <<phase, registration, edges, sorting, breaking>>
    BY <1>14 DEF vars
  <2>2. CASE phase = "collect"
    BY <1>1, <2>1, <2>2, CollectKept
  <2>3. CASE phase # "collect"
    <3>1. phase' # "sort" => justRemoved = {}
      BY <1>1, <2>1 DEF Stages
    <3>2. CASE phase # "break"
      BY <1>1, <2>1, <2>3, <3>1, <3>2, IInvPhase
    <3>3. GraphInv' /\ SplitInv' /\ Places' /\ OrderInv' /\ Counts'
      BY <1>1, <2>1, <2>3, SameSort DEF breaking
    <3>4. Stages' /\ Visits'
      BY <2>1 DEF IInv, Stages, Visits, Ready, Uncleared, Owns, registration, sorting, breaking
    <3> QED BY <1>1, <3>3, <3>4 DEF IInv
  <2> QED BY <2>2, <2>3
<1> QED
  BY <1>2, <1>3, <1>4, <1>5, <1>6, <1>7, <1>8, <1>9, <1>10, <1>11, <1>12, <1>13, <1>14 DEF Next, Stop

\* At any time of createOrdering: the graph is what was connected less what the
\* split items cut, every vertex has one place, the listed ones are in order, and
\* the counts tell what is still to be waited for.
THEOREM Invariance == Spec => []IInv
<1>1. Init => IInv
  BY IInvInit
<1>2. IInv /\ [Next]_vars => IInv'
  BY IInvStep
<1> QED BY <1>1, <1>2, PTL DEF Spec

\* A demand only gets ahead of its price in an end use sector that was split.
LEMMA NoHeads ==
    ASSUME IInv, ~EndUseSplit PROVE Heads = {}
BY DEF IInv, SplitInv, EndUseSplit, Heads, Split

\* Through every restructuring by createTrialsForItem the count kept for an
\* uncleared vertex is the number of its dependencies that are not yet listed.
THEOREM CountsStayExact == Spec => []CountsExact
<1>1. IInv => CountsExact
  <2> SUFFICES ASSUME IInv, phase \in {"split", "sort", "break"}, ~EndUseSplit, NEW v \in Uncleared
               PROVE  numDependencies[v] = Cardinality({e \in edges : e.to = v /\ e.from \notin Listed})
    BY DEF CountsExact
  <2> QED BY NoHeads DEF IInv, Counts, Waiting
<1> QED BY <1>1, Invariance, PTL

\* Every vertex waits, was just removed or is listed, and only one of them, and
\* no vertex is listed twice.
THEOREM NeverClearedTwice == Spec => []ClearedOnce
<1>1. IInv => ClearedOnce
  <2> SUFFICES ASSUME IInv PROVE ClearedOnce
    OBVIOUS
  <2>1. mGlobalOrdering \in Seq(Vertices)
    BY DEF IInv, RInv, TInv, TypeOK
  <2>2. Cardinality(Listed) = Len(mGlobalOrdering)
    <3> DEFINE n == Len(mGlobalOrdering)
               f == [j \in 1..n |-> mGlobalOrdering[j]]
    <3>1. n \in Nat /\ DOMAIN mGlobalOrdering = 1..n
      BY <2>1
    <3>2. f \in [1..n -> Listed] /\ \A v \in Listed : \E j \in 1..n : f[j] = v
      BY <3>1 DEF Listed
    <3>3. \A j, k \in 1..n : f[j] = f[k] => j = k
      BY <3>1 DEF IInv, Places
    <3> HIDE DEF f, n
    <3>4. f \in Bijection(1..n, Listed)
      BY <3>2, <3>3, Fun_IsBij
    <3>5. ExistsBijection(1..n, Listed)
      BY <3>4 DEF ExistsBijection
    <3>6. IsFiniteSet(1..n) /\ Cardinality(1..n) = n
      <4>1. \A m \in Nat : (IF 1 > m THEN 0 ELSE m - 1 + 1) = m
        OBVIOUS
      <4> QED BY <3>1, <4>1, FS_Interval
    <3>7. Cardinality(Listed) = n
      BY <3>5, <3>6, FS_Bijection
    <3> QED BY <3>7 DEF n
  <2> QED BY <2>2 DEF IInv, Places, ClearedOnce
<1> QED BY <1>1, Invariance, PTL

\* Every calculation comes after those it depends on.
THEOREM OrderedByDependency == Spec => []DependenciesFirst
<1>1. IInv => DependenciesFirst
  BY NoHeads DEF IInv, OrderInv, DependenciesFirst
<1> QED BY <1>1, Invariance, PTL

-----------------------------------------------------------------------------
(* The abstract ordering *)

\* At most two vertices per activity.
NumbersBounded == mCalcVertexUIDCount <= 2 * Cardinality(registered)

\* An activity takes at most two numbers.
LEMMA NumbersBoundedStep ==
    ASSUME IInv, NumbersBounded, [Next]_vars
    PROVE  NumbersBounded'
<1>0. /\ TypeOK /\ IsFiniteSet(registered) /\ Cardinality(registered) \in Nat
      /\ mCalcVertexUIDCount \in Nat
  <2>1. TypeOK
    BY DEF IInv, RInv, TInv
  <2>2. IsFiniteSet(registered)
    BY <2>1, ConstantsAssumption, FS_Subset DEF TypeOK
  <2> QED BY <2>1, <2>2, FS_CardinalityType DEF TypeOK
<1>1. ASSUME NEW a \in Activity, ResolveActivityToDependency(a) PROVE NumbersBounded'
  <2>1. a \notin registered /\ registered' = registered \cup {a}
        /\ mCalcVertexUIDCount' = mCalcVertexUIDCount + IF a.priced THEN 2 ELSE 1
    BY <1>1 DEF ResolveActivityToDependency, CountAfter
  <2>2. Cardinality(registered') = Cardinality(registered) + 1
    BY <1>0, <2>1, FS_AddElement
  <2> QED BY <1>0, <2>1, <2>2 DEF NumbersBounded
<1>2. ASSUME UNCHANGED <<registered, mCalcVertexUIDCount>> PROVE NumbersBounded'
  BY <1>2 DEF NumbersBounded
<1> QED
  BY <1>1, <1>2 DEF Next, vars, registration, AddDependency, ConnectGraph, SplitSelfDependent, TrialsFail,
     StartSort, StartPass, ListRemoved, Finish, FindCycles, BreakCycle, GiveUp, GetOrdering, Stop

\* Nothing depends on the trial markets of an end use sector.
NoEndUseSplit == phase # "collect" => ~EndUseSplit

Numbered == 0..(2 * Cardinality(Activity) - 1)
Graph == {<<e.from, e.to>> : e \in edges}

\* So the vertices of any of the activities are vertices of the abstract ordering.
LEMMA TwiceNumbered ==
    ASSUME NEW R \in SUBSET Activity, NEW n \in Nat, n <= 2 * Cardinality(R)
    PROVE  0..(n - 1) \subseteq Numbered
<1>1. IsFiniteSet(Activity) /\ IsFiniteSet(R) /\ Cardinality(R) <= Cardinality(Activity)
  BY ConstantsAssumption, FS_Subset
<1>2. Cardinality(R) \in Nat /\ Cardinality(Activity) \in Nat
  BY <1>1, FS_CardinalityType
<1> QED BY <1>1, <1>2 DEF Numbered

\* Which edges a step adds: none to a vertex that is listed already.
LEMMA NoNewDependency ==
    ASSUME IInv, IInv', NoEndUseSplit, [Next]_vars, mGlobalOrdering' = mGlobalOrdering,
           NEW e \in edges', e \notin edges
    PROVE  e.to \notin Listed
<1>1. RInv /\ GraphInv /\ SplitInv /\ Stages /\ Places
  BY DEF IInv
<1>2. CASE phase = "collect" \/ phase = "split"
  BY <1>1, <1>2 DEF Stages, Listed
<1>3. CASE phase \notin {"collect", "split"}
  <2>1. edges' = edges \/ BreakCycle
    BY <1>3 DEF Next, vars, AddDependency, ResolveActivityToDependency, ConnectGraph, SplitSelfDependent,
                StartSort, StartPass, ListRemoved, Finish, FindCycles, GiveUp, GetOrdering, Stop
  <2>2. BreakCycle
    BY <2>1
  <2>3. phase = "break" /\ \E v \in Breakers(totalVisits) : \E i \in Item :
            Owns(i, v) /\ (CreateTrialsForItem(i) \/ TrialsFail(i))
    BY <2>2 DEF BreakCycle
  <2>4. PICK v \in Breakers(totalVisits) : \E i \in Item :
            Owns(i, v) /\ (CreateTrialsForItem(i) \/ TrialsFail(i))
    BY <2>3
  <2>5. PICK i \in Item : Owns(i, v) /\ (CreateTrialsForItem(i) \/ TrialsFail(i))
    BY <2>4
  <2>6. CreateTrialsForItem(i)
    BY <2>5 DEF TrialsFail
  <2>7. HasPrice(i) /\ HasDemand(i) /\ e = TrialEdge(i)
    BY <2>6 DEF CreateTrialsForItem, TrialEdge
  <2>8. FirstDemand(i) \in Uncleared
    BY <2>3, <2>5, <2>7, ChosenWaits
  <2>9. e.to = FirstDemand(i)
    BY <2>7, TrialIs
  <2> QED BY <1>1, <2>8, <2>9 DEF Places
<1> QED BY <1>2, <1>3

\* Only listing a vertex changes the ordering.
LEMMA OrderingGrows ==
    ASSUME [Next]_vars
    PROVE  mGlobalOrdering' = mGlobalOrdering \/ \E v \in Vertices : ListRemoved(v)
BY DEF Next, vars, sorting, AddDependency, ResolveActivityToDependency, ConnectGraph, SplitSelfDependent,
       StartSort, StartPass, Finish, FindCycles, BreakCycle, TrialsFail, GiveUp, GetOrdering, Stop

\* The vertex that is listed is new, and everything it depends on is listed.
LEMMA ListsWhatIsReady ==
    ASSUME IInv, NoEndUseSplit, NEW v \in Vertices, ListRemoved(v)
    PROVE  /\ v \notin Listed /\ \A u : <<u, v>> \in Graph => u \in Listed
           /\ mGlobalOrdering' = Append(mGlobalOrdering, v) /\ Graph' = Graph
<1>1. phase = "sort" /\ v \in justRemoved /\ mGlobalOrdering' = Append(mGlobalOrdering, v) /\ edges' = edges
  BY DEF ListRemoved
<1>2. Heads = {}
  BY <1>1, NoHeads DEF NoEndUseSplit
<1>3. v \notin Listed
  BY <1>1 DEF IInv, Places
<1>4. \A e \in edges : e.to = v => e.from \in Listed
  BY <1>1, <1>2 DEF IInv, OrderInv
<1>5. ASSUME NEW u, <<u, v>> \in Graph PROVE u \in Listed
  <2>1. PICK e \in edges : <<u, v>> = <<e.from, e.to>>
    BY <1>5 DEF Graph
  <2> QED BY <1>4, <2>1
<1>6. Graph' = Graph
  BY <1>1 DEF Graph
<1> QED BY <1>1, <1>3, <1>5, <1>6

\* The first state is one of the abstract ordering, and every step one of its
\* steps or none.
LEMMA RefinesInit == Init => Abstract!Init
BY DEF Init, Abstract!Init

LEMMA RefinesStep ==
    ASSUME IInv, IInv', NumbersBounded, NumbersBounded', NoEndUseSplit, [Next]_vars
    PROVE  [Abstract!Next]_(Abstract!vars)
<1>1. TypeOK /\ TypeOK'
  BY DEF IInv, RInv, TInv
<1>2. Graph' \in SUBSET (Numbered \X Numbered)
  <2>1. Vertices' \subseteq Numbered
    <3>1. registered' \in SUBSET Activity /\ mCalcVertexUIDCount' \in Nat
      BY <1>1 DEF TypeOK
    <3> QED BY <3>1, TwiceNumbered DEF Vertices, NumbersBounded
  <2>2. ASSUME NEW e \in edges' PROVE e.from \in Numbered /\ e.to \in Numbered
    BY <1>1, <2>1 DEF TypeOK
  <2> QED BY <2>2 DEF Graph
<1>3. CASE mGlobalOrdering' = mGlobalOrdering
  <2>1. \A e \in edges' : e \notin edges => e.to \notin Listed
    BY <1>3, NoNewDependency
  <2>2. \A p \in Graph' \ Graph : p[2] \notin Listed
    BY <2>1 DEF Graph
  <2>3. Abstract!Restructure
    BY <1>2, <1>3, <2>2 DEF Abstract!Restructure, Graph, Numbered, Listed, Abstract!Listed
  <2> QED BY <2>3 DEF Abstract!Next
<1>4. ASSUME NEW v \in Vertices, ListRemoved(v) PROVE Abstract!Next
  <2>1. v \in Numbered
    <3>1. registered \in SUBSET Activity /\ mCalcVertexUIDCount \in Nat
      BY <1>1 DEF TypeOK
    <3> QED BY <3>1, TwiceNumbered DEF Vertices, NumbersBounded
  <2>2. /\ v \notin Listed /\ \A u : <<u, v>> \in Graph => u \in Listed
        /\ mGlobalOrdering' = Append(mGlobalOrdering, v) /\ Graph' = Graph
    BY <1>4, ListsWhatIsReady
  <2>3. Abstract!List(v)
    BY <2>1, <2>2 DEF Abstract!List, Graph, Numbered, Listed, Abstract!Listed
  <2> QED BY <2>1, <2>3 DEF Abstract!Next, Numbered
<1> QED BY <1>3, <1>4, OrderingGrows

\* The finder implements the ordering World::calc relies on.
THEOREM Refinement == Spec /\ []NoEndUseSplit => ImplementsCalcOrdering
<1>1. Init => Abstract!Init
  BY RefinesInit
<1>2. Init => NumbersBounded
  <2>1. Cardinality({}) = 0
    BY FS_EmptySet
  <2> QED BY <2>1 DEF Init, NumbersBounded
<1>3. IInv /\ NumbersBounded /\ [Next]_vars => NumbersBounded'
  BY NumbersBoundedStep
<1>4. IInv /\ IInv' /\ NumbersBounded /\ NumbersBounded' /\ NoEndUseSplit /\ [Next]_vars
        => [Abstract!Next]_(Abstract!vars)
  BY RefinesStep
<1> QED
  BY <1>1, <1>2, <1>3, <1>4, Invariance, PTL DEF Spec, ImplementsCalcOrdering, Abstract!Spec

\* Where dependents come from: somebody declared the dependency, on the item
\* itself or on one of its market; items of one market that the solver does not
\* set share their dependents.
SharedInv ==
    phase # "collect" =>
       /\ \A i \in Item : \A d \in mDependentList[i] :
             \E c \in Declaration :
                /\ c.dependent = d /\ c.dependency # d
                /\ c.dependency = i \/ (MarketOf[c.dependency] = MarketOf[i] /\ MarketOf[i] # NoMarket)
       /\ \A i, j \in mDependencyItems :
             MarketOf[i] = MarketOf[j] /\ MarketOf[i] # NoMarket /\ ~SetBySolver(i) /\ ~SetBySolver(j)
                => mDependentList[i] \subseteq mDependentList[j]

\* Dependents are shared when the graph is connected, and stay.
LEMMA SharedConnectGraph ==
    ASSUME IInv, ConnectGraph PROVE SharedInv'
<1>1. /\ phase = "collect" /\ mDependentList' = SharedDependents
      /\ mDependencyItems' = mDependencyItems /\ mCanBreakCycle' = mCanBreakCycle
  BY DEF ConnectGraph
<1>2. DeclaredSoFar /\ TypeOK
  BY DEF IInv, RInv, TInv
<1>3. \A i \in Item : SharedDependents[i] = mDependentList[i] \cup
         IF i \in Grouped(i) THEN UNION {mDependentList[j] : j \in Grouped(i)} ELSE {}
  BY DEF SharedDependents
<1>4. ASSUME NEW i \in Item, NEW d \in SharedDependents[i]
      PROVE  \E c \in Declaration :
                /\ c.dependent = d /\ c.dependency # d
                /\ c.dependency = i \/ (MarketOf[c.dependency] = MarketOf[i] /\ MarketOf[i] # NoMarket)
  <2>1. \A j \in Item : \A x \in mDependentList[j] :
           \E c \in Declaration : c.dependency = j /\ c.dependent = x /\ c.dependency # x
    BY <1>1, <1>2 DEF DeclaredSoFar
  <2>2. CASE d \in mDependentList[i]
    BY <2>1, <2>2
  <2>3. CASE d \notin mDependentList[i]
    <3>1. d \in UNION {mDependentList[j] : j \in Grouped(i)}
      BY <1>3, <1>4, <2>3
    <3>2. PICK j \in Grouped(i) : d \in mDependentList[j]
      BY <3>1
    <3>3. j \in Item /\ MarketOf[j] = MarketOf[i] /\ MarketOf[i] # NoMarket
      BY <1>2, <3>2 DEF Grouped, TypeOK
    <3>4. PICK c \in Declaration : c.dependency = j /\ c.dependent = d /\ c.dependency # d
      BY <2>1, <3>2, <3>3
    <3> QED BY <3>3, <3>4
  <2> QED BY <2>2, <2>3
<1>5. ASSUME NEW i \in mDependencyItems, NEW j \in mDependencyItems,
             MarketOf[i] = MarketOf[j], MarketOf[i] # NoMarket, ~SetBySolver(i), ~SetBySolver(j)
      PROVE  SharedDependents[i] \subseteq SharedDependents[j]
  <2>1. i \in Item /\ j \in Item
    BY <1>2 DEF TypeOK
  <2>2. Grouped(i) = Grouped(j) /\ i \in Grouped(i) /\ j \in Grouped(j)
    BY <1>5 DEF Grouped, SetBySolver
  <2> QED BY <1>3, <2>1, <2>2
<1>6. \A i : SetBySolver(i)' = SetBySolver(i)
  BY <1>1 DEF SetBySolver, IsSolved
<1> QED BY <1>1, <1>4, <1>5, <1>6 DEF SharedInv

LEMMA SharedStep ==
    ASSUME IInv, SharedInv, [Next]_vars PROVE SharedInv'
<1>1. CASE ConnectGraph
  BY <1>1, SharedConnectGraph
<1>2. CASE phase' = "collect"
  BY <1>2 DEF SharedInv
<1>3. CASE phase' # "collect" /\ ~ConnectGraph
  <2>1. phase # "collect"
    BY <1>3 DEF Next, vars, AddDependency, ResolveActivityToDependency, SplitSelfDependent, StartSort, StartPass,
       ListRemoved, Finish, FindCycles, BreakCycle, GiveUp, GetOrdering, Stop, Ended
  <2>2. UNCHANGED registration
    BY <1>3, <2>1 DEF Next, vars, AddDependency, ResolveActivityToDependency, SplitSelfDependent, StartSort,
       StartPass, ListRemoved, Finish, FindCycles, BreakCycle, TrialsFail, GiveUp, GetOrdering, Stop
  <2>3. /\ mDependentList' = mDependentList /\ mDependencyItems' = mDependencyItems
        /\ mCanBreakCycle' = mCanBreakCycle
    BY <2>2 DEF registration
  <2>4. \A i : SetBySolver(i)' = SetBySolver(i)
    BY <2>3 DEF SetBySolver, IsSolved
  <2> QED BY <2>1, <2>3, <2>4 DEF SharedInv
<1> QED BY <1>1, <1>2, <1>3

\* Sharing holds in every reachable state.
LEMMA SharingInvariance == Spec => []SharedInv
<1>1. Init => SharedInv
  BY DEF Init, SharedInv
<1>2. IInv /\ SharedInv /\ [Next]_vars => SharedInv'
  BY SharedStep
<1> QED BY <1>1, <1>2, Invariance, PTL DEF Spec

-----------------------------------------------------------------------------
(* Declared dependencies *)

\* The demand of a dependent comes before the demand of an item, unless one of
\* the two was cut off.
LEMMA DemandAfterDependents ==
    ASSUME IInv, phase # "collect", NEW j \in mDependencyItems, NEW d \in mDependentList[j],
           HasDemand(j), HasDemand(d), ~SetBySolver(j), j \in Split => d \in FixedOutput
    PROVE  Before(LastDemand(d), FirstDemand(j))
<1> DEFINE e == Edge(LastDemand(d), FirstDemand(j), "depend")
<1>0. RInv /\ GraphInv /\ SplitInv /\ OrderInv
  BY DEF IInv
<1>1. j \in Item /\ d \in Item
  BY <1>0 DEF RInv, TInv, TypeOK
<1>2. e.from = LastDemand(d) /\ e.to = FirstDemand(j)
  BY DEF Edge
<1>3. DemandToDemand(e)
  BY DEF DemandToDemand
<1>4. e \in Connected
  BY <1>0, <1>3, ShapeConnected
<1>5. DemandVertexOf(d, LastDemand(d)) /\ DemandVertexOf(j, FirstDemand(j))
  BY <1>0, <1>1, Ends
<1>6. Kept(e)
  <2> SUFFICES ASSUME NEW k \in Split
               PROVE  /\ LastDemand(d) # LastPrice(k)
                      /\ FirstDemand(j) = FirstDemand(k) => FixedVertex(LastDemand(d))
    BY <1>2 DEF Kept
  <2>1. k \in Item /\ HasPrice(k) /\ HasDemand(k)
    BY <1>0 DEF Split, RInv, Registered
  <2>2. PriceVertex(k, LastPrice(k)) /\ DemandVertexOf(k, FirstDemand(k))
    BY <1>0, <2>1, Ends
  <2>3. LastDemand(d) # LastPrice(k)
    BY <1>0, <1>1, <1>5, <2>1, <2>2, OneOwner
  <2>4. ASSUME FirstDemand(j) = FirstDemand(k) PROVE FixedVertex(LastDemand(d))
    <3>1. j = k
      BY <1>0, <1>1, <1>5, <2>1, <2>2, <2>4, OneOwner
    <3>2. d \in FixedOutput
      BY <3>1
    <3> QED BY <1>0, <1>5, <3>2, DemandVertexIs
  <2> QED BY <2>3, <2>4
<1>7. e \in edges
  BY <1>0, <1>4, <1>6 DEF GraphInv
<1>8. FirstDemand(j) \notin Heads
  <2> SUFFICES ASSUME FirstDemand(j) \in Heads PROVE FALSE
    OBVIOUS
  <2>1. PICK k \in Split : mDependentList[k] = {} /\ FirstDemand(j) = FirstDemand(k) /\ k \in Item /\ HasDemand(k)
    BY HeadIs
  <2>2. DemandVertexOf(k, FirstDemand(k))
    BY <1>0, <2>1, Ends
  <2>3. j = k
    BY <1>0, <1>1, <1>5, <2>1, <2>2, OneOwner
  <2> QED BY <2>1, <2>3
<1> QED BY <1>0, <1>2, <1>7, <1>8 DEF OrderInv

\* And the price of an item before the price of a dependent.
LEMMA PriceBeforeDependents ==
    ASSUME IInv, phase # "collect", NEW j \in mDependencyItems, NEW d \in mDependentList[j],
           HasPrice(j), HasPrice(d), ~SetBySolver(j), j \notin Split
    PROVE  Before(LastPrice(j), FirstPrice(d))
<1> DEFINE e == Edge(LastPrice(j), FirstPrice(d), "depend")
<1>0. RInv /\ GraphInv /\ SplitInv /\ OrderInv
  BY DEF IInv
<1>1. j \in Item /\ d \in Item
  BY <1>0 DEF RInv, TInv, TypeOK
<1>2. e.from = LastPrice(j) /\ e.to = FirstPrice(d)
  BY DEF Edge
<1>3. PriceToPrice(e)
  BY DEF PriceToPrice
<1>4. e \in Connected
  BY <1>0, <1>3, ShapeConnected
<1>5. PriceVertex(j, LastPrice(j)) /\ PriceVertex(d, FirstPrice(d))
  BY <1>0, <1>1, Ends
<1>6. Kept(e)
  <2> SUFFICES ASSUME NEW k \in Split
               PROVE  LastPrice(j) # LastPrice(k) /\ FirstPrice(d) # FirstDemand(k)
    BY <1>2 DEF Kept
  <2>1. k \in Item /\ HasPrice(k) /\ HasDemand(k)
    BY <1>0 DEF Split, RInv, Registered
  <2>2. PriceVertex(k, LastPrice(k)) /\ DemandVertexOf(k, FirstDemand(k))
    BY <1>0, <2>1, Ends
  <2> QED BY <1>0, <1>1, <1>5, <2>1, <2>2, OneOwner
<1>7. e \in edges
  BY <1>0, <1>4, <1>6 DEF GraphInv
<1>8. FirstPrice(d) \notin Heads
  BY <1>1, <1>5, NotHead
<1> QED BY <1>0, <1>2, <1>7, <1>8 DEF OrderInv

\* What the fixed outputs are declared to depend on is not solved.
FixedOutputsUnsolved ==
    \A c \in Declaration : c.dependent \in FixedOutput => MarketOf[c.dependency] \notin Solved

\* The fixed outputs of a pass through sector are gathered before the demand of
\* the sectors that use them, with trial markets or without.
THEOREM FixedOutputsGathered ==
    ASSUME FixedOutputsUnsolved PROVE Spec => []FixedOutputBeforeDemand
<1>1. IInv /\ SharedInv => FixedOutputBeforeDemand
  <2> SUFFICES ASSUME IInv, SharedInv, phase = "ordered", NEW f \in FixedOutput, NEW i \in mDependencyItems,
                      f \in mDependentList[i], HasDemand(i), HasDemand(f)
               PROVE  Before(LastDemand(f), FirstDemand(i))
    BY DEF FixedOutputBeforeDemand
  <2>1. i \in Item
    BY DEF IInv, RInv, TInv, TypeOK
  <2>2. ~SetBySolver(i)
    BY <2>1 DEF SharedInv, FixedOutputsUnsolved, SetBySolver, IsSolved
  <2> QED BY <2>2, DemandAfterDependents
<1> QED BY <1>1, Invariance, SharingInvariance, PTL

\* The items of a market the solver sets are all cut loose, or none is.
CutTogether ==
    \A i, j \in mDependencyItems : IsSolved(i) /\ MarketOf[i] = MarketOf[j] => mCanBreakCycle[i] = mCanBreakCycle[j]

\* A declared dependency holds for every region of the market.
THEOREM DeclarationsRespected == Spec /\ []CutTogether => []DeclaredDependenciesRespected
<1>1. IInv /\ SharedInv /\ CutTogether => DeclaredDependenciesRespected
  <2> SUFFICES ASSUME IInv, SharedInv, CutTogether, phase = "ordered", NEW i \in mDependencyItems,
                      NEW d \in mDependentList[i], NEW j \in mDependencyItems,
                      j = i \/ (MarketOf[j] = MarketOf[i] /\ MarketOf[i] # NoMarket), ~CutLoose(j)
               PROVE  /\ HasPrice(j) /\ HasPrice(d) => Before(LastPrice(j), FirstPrice(d))
                      /\ HasDemand(j) /\ HasDemand(d) => Before(LastDemand(d), FirstDemand(j))
    BY DEF DeclaredDependenciesRespected
  <2>1. ~SetBySolver(j) /\ j \notin Split
    BY DEF CutLoose, SetBySolver, IInv, SplitInv
  <2>2. d \in mDependentList[j]
    <3>1. CASE j = i
      BY <3>1
    <3>2. CASE j # i
      <4>1. ~SetBySolver(i)
        BY <2>1, <3>2 DEF CutTogether, SetBySolver, IsSolved
      <4> QED BY <2>1, <3>2, <4>1 DEF SharedInv
    <3> QED BY <3>1, <3>2
  <2> QED BY <2>1, <2>2, PriceBeforeDependents, DemandAfterDependents
<1> QED BY <1>1, Invariance, SharingInvariance, PTL

-----------------------------------------------------------------------------
(* Reach finds everything *)

\* There are finitely many vertices.
LEMMA VerticesFinite ==
    ASSUME TypeOK PROVE IsFiniteSet(Vertices) /\ Cardinality(Vertices) \in Nat
<1>1. 0 \in Int /\ mCalcVertexUIDCount - 1 \in Int
  BY DEF TypeOK
<1> QED BY <1>1, FS_Interval, FS_CardinalityType DEF Vertices

\* After as many steps as there are vertices a search has nothing more to find:
\* until it stops, each step finds another vertex.
LEMMA SearchEnds ==
    ASSUME TypeOK, NEW E, NEW S \in SUBSET Vertices, \A e \in E : e.to \in Vertices,
           NEW f, IsSearch(f, E, S)
    PROVE  LET n == Cardinality(Vertices)
           IN  f[n] \subseteq Vertices /\ S \subseteq f[n] /\ UNION {Next1(E, v) : v \in f[n]} \subseteq f[n]
<1> DEFINE N == Cardinality(Vertices)
           Step(T) == UNION {Next1(E, v) : v \in T}
<1>1. N \in Nat /\ IsFiniteSet(Vertices)
  BY VerticesFinite
<1>2. f[0] = S /\ \A n \in Nat : f[n + 1] = Step(f[n])
  <2>1. f[0] = S
    BY DEF IsSearch
  <2>2. ASSUME NEW n \in Nat PROVE f[n + 1] = Step(f[n])
    <3>1. n + 1 \in Nat /\ n + 1 # 0 /\ (n + 1) - 1 = n
      OBVIOUS
    <3>2. f[n + 1] = IF n + 1 = 0 THEN S ELSE Step(f[(n + 1) - 1])
      BY <3>1 DEF IsSearch
    <3> HIDE DEF Step
    <3> QED BY <3>1, <3>2
  <2> QED BY <2>1, <2>2
<1>3. \A T : T \subseteq Step(T)
  BY DEF Next1
<1>4. \A T \in SUBSET Vertices : Step(T) \in SUBSET Vertices
  BY DEF Next1
<1> HIDE DEF N, Step
<1>5. \A n \in Nat : f[n] \in SUBSET Vertices /\ S \subseteq f[n]
  <2> DEFINE B == {n \in Nat : ~(f[n] \in SUBSET Vertices /\ S \subseteq f[n])}
  <2>1. B \in SUBSET Nat
    OBVIOUS
  <2>2. SUFFICES ASSUME B # {} PROVE FALSE
    OBVIOUS
  <2>3. PICK m \in B : \A n \in B : m <= n
    <3> HIDE DEF B
    <3> QED BY <2>1, <2>2, LeastNumber
  <2>4. m \in Nat /\ m # 0
    BY <1>2, <2>3
  <2>5. m - 1 \in Nat /\ m - 1 \notin B /\ (m - 1) + 1 = m
    BY <2>3, <2>4
  <2>6. f[m] = Step(f[m - 1]) /\ f[m - 1] \in SUBSET Vertices /\ S \subseteq f[m - 1]
    BY <1>2, <2>5
  <2> QED BY <1>3, <1>4, <2>3, <2>6
<1>6. ASSUME f[N] # f[N + 1] PROVE FALSE
  <2>1. \A n \in Nat : n <= N => f[n] # f[n + 1]
    <3> SUFFICES ASSUME NEW n \in Nat, n <= N, f[n] = f[n + 1] PROVE FALSE
      OBVIOUS
    <3> DEFINE B == {k \in Nat : n <= k /\ f[k] # f[k + 1]}
    <3>1. B \in SUBSET Nat /\ N \in B
      BY <1>1, <1>6
    <3>2. PICK m \in B : \A k \in B : m <= k
      <4> HIDE DEF B
      <4> QED BY <3>1, LeastNumber
    <3>3. m \in Nat /\ n < m /\ m - 1 \in Nat /\ n <= m - 1 /\ (m - 1) + 1 = m
      BY <3>2
    <3>4. m - 1 \notin B
      BY <3>2, <3>3
    <3>5. f[m - 1] = f[m]
      BY <3>3, <3>4
    <3>6. f[m] = Step(f[m - 1]) /\ f[m + 1] = Step(f[m])
      BY <1>2, <3>3
    <3> QED BY <3>2, <3>5, <3>6
  <2>2. \A n \in Nat : IsFiniteSet(f[n]) /\ Cardinality(f[n]) \in Nat /\ Cardinality(f[n]) <= N
    BY <1>1, <1>5, FS_Subset, FS_CardinalityType DEF N
  <2>3. \A n \in Nat : n <= N + 1 => Cardinality(f[n]) >= n
    <3> DEFINE B == {n \in Nat : n <= N + 1 /\ ~(Cardinality(f[n]) >= n)}
    <3>1. B \in SUBSET Nat
      OBVIOUS
    <3>2. SUFFICES ASSUME B # {} PROVE FALSE
      OBVIOUS
    <3>3. PICK m \in B : \A k \in B : m <= k
      <4> HIDE DEF B
      <4> QED BY <3>1, <3>2, LeastNumber
    <3>4. m \in Nat /\ m <= N + 1 /\ ~(Cardinality(f[m]) >= m) /\ Cardinality(f[m]) \in Nat
      BY <2>2, <3>3
    <3>5. m # 0
      BY <3>4
    <3>6. m - 1 \in Nat /\ m - 1 <= N /\ (m - 1) + 1 = m /\ m - 1 \notin B
      BY <1>1, <3>3, <3>4, <3>5
    <3>7. Cardinality(f[m - 1]) >= m - 1
      BY <1>1, <3>6
    <3>8. f[m] = Step(f[m - 1]) /\ f[m - 1] # f[m]
      BY <1>2, <2>1, <3>6
    <3>9. f[m - 1] \in SUBSET f[m]
      BY <1>3, <3>8
    <3>10. Cardinality(f[m - 1]) <= Cardinality(f[m]) /\ Cardinality(f[m - 1]) # Cardinality(f[m])
      BY <2>2, <3>4, <3>8, <3>9, FS_Subset
    <3>11. Cardinality(f[m - 1]) \in Nat
      BY <2>2, <3>6
    <3> QED BY <3>4, <3>7, <3>10, <3>11
  <2>4. Cardinality(f[N + 1]) >= N + 1 /\ Cardinality(f[N + 1]) <= N /\ Cardinality(f[N + 1]) \in Nat
    BY <1>1, <2>2, <2>3
  <2> QED BY <1>1, <2>4
<1>7. f[N + 1] = Step(f[N])
  BY <1>1, <1>2
<1> QED BY <1>1, <1>5, <1>6, <1>7 DEF N, Step

\* What Reach finds holds where it started and is closed under the edges.
LEMMA ReachComplete ==
    ASSUME TypeOK, NEW E, NEW S \in SUBSET Vertices, \A e \in E : e.to \in Vertices
    PROVE  /\ S \subseteq Reach(E, S) /\ Reach(E, S) \subseteq Vertices
           /\ \A e \in E : e.from \in Reach(E, S) => e.to \in Reach(E, S)
<1>1. PICK f : IsSearch(f, E, S) /\ Reach(E, S) = Vertices \cap f[Cardinality(Vertices)]
  BY ReachIs
<1> DEFINE n == Cardinality(Vertices)
<1>2. f[n] \subseteq Vertices /\ S \subseteq f[n] /\ UNION {Next1(E, v) : v \in f[n]} \subseteq f[n]
  BY <1>1, SearchEnds
<1>3. ASSUME NEW e \in E, e.from \in f[n] PROVE e.to \in f[n]
  BY <1>2, <1>3 DEF Next1
<1> QED BY <1>1, <1>2, <1>3

-----------------------------------------------------------------------------
(* Cycles, told by the sets no edge leaves *)

\* No edge leaves C.  A vertex v is on a cycle if an edge leads from v to a
\* vertex that no closed set has without v.
Closed(E, C) == \A e \in E : e.from \in C => e.to \in C
Loop(V, E, v) == \E e \in E : e.from = v /\ \A C \in SUBSET V : e.to \in C /\ Closed(E, C) => v \in C

\* Loop says of all closed sets what OnCycle says of the search.
LEMMA LoopIs ==
    ASSUME TypeOK, NEW E, NEW v, \A e \in E : e.to \in Vertices
    PROVE  OnCycle(E, v) <=> Loop(Vertices, E, v)
<1>1. ASSUME NEW e \in E, e.from = v, v \in Reach(E, {e.to}),
             NEW C \in SUBSET Vertices, e.to \in C, Closed(E, C)
      PROVE  v \in C
  <2>1. Reach(E, {e.to}) \subseteq C
    BY <1>1, ReachClosed DEF Closed
  <2> QED BY <1>1, <2>1
<1>2. ASSUME NEW e \in E, e.from = v, \A C \in SUBSET Vertices : e.to \in C /\ Closed(E, C) => v \in C
      PROVE  v \in Reach(E, {e.to})
  <2>1. {e.to} \in SUBSET Vertices
    OBVIOUS
  <2>2. e.to \in Reach(E, {e.to}) /\ Reach(E, {e.to}) \in SUBSET Vertices /\ Closed(E, Reach(E, {e.to}))
    BY <2>1, ReachComplete DEF Closed
  <2> QED BY <1>2, <2>2
<1> QED BY <1>1, <1>2 DEF OnCycle, Loop

\* More edges have more cycles.
LEMMA LoopMore ==
    ASSUME NEW V, NEW E, NEW F, E \subseteq F, NEW v, Loop(V, E, v)
    PROVE  Loop(V, F, v)
BY DEF Loop, Closed

\* An edge that leads into a set no edge leaves is on no cycle.
LEMMA LoopWithout ==
    ASSUME NEW V, NEW E, NEW t, NEW R \in SUBSET V, Closed(E, R), t.to \in R, t.from \notin R,
           \A e \in E : e.to \in V, NEW v, Loop(V, E \cup {t}, v)
    PROVE  Loop(V, E, v)
<1> DEFINE F == E \cup {t}
<1>1. PICK e \in F : e.from = v /\ \A C \in SUBSET V : e.to \in C /\ Closed(F, C) => v \in C
  BY DEF Loop
<1>2. Closed(F, R)
  BY DEF Closed
<1>3. CASE v \in R
  <2>1. e \in E /\ e.to \in R
    BY <1>1, <1>2, <1>3 DEF Closed
  <2>2. ASSUME NEW C \in SUBSET V, e.to \in C, Closed(E, C) PROVE v \in C
    <3>1. C \cap R \in SUBSET V /\ e.to \in C \cap R /\ Closed(F, C \cap R)
      BY <2>1, <2>2 DEF Closed
    <3> QED BY <1>1, <3>1
  <2> QED BY <1>1, <2>1, <2>2 DEF Loop
<1>4. CASE v \notin R
  <2>1. e \in E
    BY <1>1, <1>2, <1>4
  <2>2. ASSUME NEW C \in SUBSET V, e.to \in C, Closed(E, C) PROVE v \in C
    <3>1. C \cup R \in SUBSET V /\ e.to \in C \cup R /\ Closed(F, C \cup R)
      BY <2>2 DEF Closed
    <3> QED BY <1>1, <1>4, <3>1
  <2> QED BY <1>1, <2>1, <2>2 DEF Loop
<1> QED BY <1>3, <1>4

\* A vertex to which nothing after it leads back is on no cycle.
LEMMA NoLoop ==
    ASSUME NEW V, NEW E, NEW v, NEW C \in SUBSET V, v \notin C,
           \A e \in E : e.from = v \/ e.from \in C => e.to \in C
    PROVE  ~Loop(V, E, v)
BY DEF Loop, Closed

\* The end of an edge on a cycle is on a cycle.
LEMMA LoopNext ==
    ASSUME TypeOK, NEW E, \A e \in E : e.to \in Vertices, NEW e \in E, e.from \in Reach(E, {e.to})
    PROVE  OnCycle(E, e.from) /\ OnCycle(E, e.to)
<1> DEFINE x == e.to
           u == e.from
           D == {x} \cup {y \in Vertices : x \notin Reach(E, {y})}
<1>1. OnCycle(E, u)
  BY DEF OnCycle
<1>2. u \in Vertices /\ x \in Vertices
  <2>1. {x} \in SUBSET Vertices
    OBVIOUS
  <2> QED BY <2>1, ReachComplete
<1>3. \A y \in Vertices : y \in Reach(E, {y}) /\ \A g \in E : g.from \in Reach(E, {y}) => g.to \in Reach(E, {y})
  <2> SUFFICES ASSUME NEW y \in Vertices
               PROVE  y \in Reach(E, {y}) /\ \A g \in E : g.from \in Reach(E, {y}) => g.to \in Reach(E, {y})
    OBVIOUS
  <2>1. {y} \in SUBSET Vertices
    OBVIOUS
  <2> QED BY <2>1, ReachComplete
<1>4. ASSUME ~OnCycle(E, x), u # x PROVE FALSE
  <2>1. \A g \in E : g.from \in D => g.to \in D
    <3> SUFFICES ASSUME NEW g \in E, g.from \in D PROVE g.to \in D
      OBVIOUS
    <3>1. CASE g.from = x
      BY <1>4, <3>1 DEF OnCycle
    <3>2. CASE g.from \in Vertices /\ x \notin Reach(E, {g.from})
      <4>1. g.to \in Reach(E, {g.from})
        BY <1>3, <3>2
      <4>2. Reach(E, {g.to}) \subseteq Reach(E, {g.from})
        <5> DEFINE C == Reach(E, {g.from})
        <5>1. {g.to} \subseteq C /\ \A h \in E : h.from \in C => h.to \in C
          BY <1>3, <3>2, <4>1
        <5> HIDE DEF C
        <5>2. Reach(E, {g.to}) \subseteq C
          BY <5>1, ReachClosed
        <5> QED BY <5>2 DEF C
      <4> QED BY <3>2, <4>2
    <3> QED BY <3>1, <3>2
  <2>2. u \in D
    <3>1. {x} \subseteq D
      OBVIOUS
    <3> HIDE DEF D
    <3>2. Reach(E, {x}) \subseteq D
      BY <2>1, <3>1, ReachClosed
    <3> QED BY <3>2
  <2>3. x \in Reach(E, {u})
    BY <1>2, <1>3
  <2> QED BY <1>4, <2>2, <2>3
<1> QED BY <1>1, <1>4

-----------------------------------------------------------------------------
(* Which vertices lie on cycles *)

\* The graph of what is still waiting.
Waits == Inside(edges, Uncleared)

\* No item depends on one of its own market.
OwnMarketFree ==
    \A c \in Declaration : c.dependent # c.dependency =>
       MarketOf[c.dependent] # MarketOf[c.dependency] \/ MarketOf[c.dependent] = NoMarket

\* Then the graph has no edge from a vertex to itself.
LEMMA NoEdgeToItself ==
    ASSUME IInv, SharedInv, OwnMarketFree, phase # "collect", NEW e \in edges
    PROVE  e.from # e.to
<1>0. RInv /\ GraphInv
  BY DEF IInv
<1>1. \A i \in Item : i \notin mDependentList[i] /\ mDependentList[i] \subseteq Item
  <2>1. mDependentList \in [Item -> SUBSET Item]
    BY <1>0 DEF RInv, TInv, TypeOK
  <2>2. ASSUME NEW i \in Item, i \in mDependentList[i] PROVE FALSE
    <3>1. PICK c \in Declaration :
             /\ c.dependent = i /\ c.dependency # i
             /\ c.dependency = i \/ (MarketOf[c.dependency] = MarketOf[i] /\ MarketOf[i] # NoMarket)
      BY <2>2 DEF SharedInv
    <3> QED BY <3>1 DEF OwnMarketFree
  <2> QED BY <2>1, <2>2
<1>2. IsPrice(e.from) \/ IsDemand(e.from)
  BY <1>0, EdgeSides
<1>3. ASSUME NEW i \in Item, PriceVertex(i, e.from) PROVE e.from # e.to
  <2>1. CASE \E n \in 1..(Len(mPriceVertices[i]) - 1) :
               e.from = mPriceVertices[i][n] /\ e.to = mPriceVertices[i][n + 1]
    <3>1. PICK n \in 1..(Len(mPriceVertices[i]) - 1) :
             e.from = mPriceVertices[i][n] /\ e.to = mPriceVertices[i][n + 1]
      BY <2>1
    <3>2. n \in DOMAIN mPriceVertices[i] /\ n + 1 \in DOMAIN mPriceVertices[i] /\ n # n + 1
      BY <1>0, Positions
    <3> QED BY <1>0, <3>1, <3>2, OnePlace
  <2>2. CASE e.to = FirstDemand(i) /\ HasDemand(i)
    <3>1. DemandVertexOf(i, e.to)
      BY <1>0, <2>2, Ends
    <3> QED BY <1>0, <1>3, <3>1, OneOwner
  <2>3. CASE \E d \in mDependentList[i] : HasPrice(d) /\ e.to = FirstPrice(d)
    <3>1. PICK d \in mDependentList[i] : HasPrice(d) /\ e.to = FirstPrice(d)
      BY <2>3
    <3>2. d \in Item /\ d # i
      BY <1>1
    <3>3. PriceVertex(d, e.to)
      BY <1>0, <3>1, <3>2, Ends
    <3> QED BY <1>0, <1>3, <3>2, <3>3, OneOwner
  <2>4. CASE \E d \in mDependentList[i] : HasDemand(d) /\ e.to = FirstDemand(d)
    <3>1. PICK d \in mDependentList[i] : HasDemand(d) /\ e.to = FirstDemand(d)
      BY <2>4
    <3>2. d \in Item
      BY <1>1
    <3>3. DemandVertexOf(d, e.to)
      BY <1>0, <3>1, <3>2, Ends
    <3> QED BY <1>0, <1>3, <3>2, <3>3, OneOwner
  <2> QED BY <1>0, <1>3, <2>1, <2>2, <2>3, <2>4, OutOfPrice
<1>4. ASSUME NEW i \in Item, DemandVertexOf(i, e.from) PROVE e.from # e.to
  <2>1. CASE \E n \in 1..(Len(mDemandVertices[i]) - 1) :
               e.from = mDemandVertices[i][n + 1] /\ e.to = mDemandVertices[i][n]
    <3>1. PICK n \in 1..(Len(mDemandVertices[i]) - 1) :
             e.from = mDemandVertices[i][n + 1] /\ e.to = mDemandVertices[i][n]
      BY <2>1
    <3>2. n \in DOMAIN mDemandVertices[i] /\ n + 1 \in DOMAIN mDemandVertices[i] /\ n # n + 1
      BY <1>0, Positions
    <3> QED BY <1>0, <3>1, <3>2, OnePlace
  <2>2. CASE \E k \in Item : i \in mDependentList[k] /\ HasDemand(k) /\ e.to = FirstDemand(k)
    <3>1. PICK k \in Item : i \in mDependentList[k] /\ HasDemand(k) /\ e.to = FirstDemand(k)
      BY <2>2
    <3>2. k # i
      BY <1>1, <3>1
    <3>3. DemandVertexOf(k, e.to)
      BY <1>0, <3>1, Ends
    <3> QED BY <1>0, <1>4, <3>2, <3>3, OneOwner
  <2> QED BY <1>0, <1>4, <2>1, <2>2, OutOfDemand
<1> QED BY <1>2, <1>3, <1>4 DEF IsPrice, IsDemand

\* No cycle goes through an item that was split, whose price the solver sets or
\* that has no price: from its prices edges only lead on to demands, and before
\* its demands there are only unpriced items nothing comes before, or after them
\* there is nothing.
Loose(i) == i \in Split \/ SetBySolver(i) \/ ~HasPrice(i)

\* None of its prices.
LEMMA LoosePrices ==
    ASSUME IInv, phase # "collect", NEW i \in Item, i \in Split \/ SetBySolver(i),
           NEW m \in DOMAIN mPriceVertices[i]
    PROVE  ~Loop(Vertices, edges, mPriceVertices[i][m])
<1>0. /\ RInv /\ GraphInv /\ TypeOK /\ HasPrice(i) /\ HasDemand(i)
  <2>1. RInv /\ GraphInv /\ TypeOK /\ \A j \in Item : HasPrice(j) => HasDemand(j)
    BY DEF IInv, RInv, TInv
  <2>2. HasPrice(i)
    BY <2>1, Positions
  <2> QED BY <2>1, <2>2
<1> DEFINE v == mPriceVertices[i][m]
           Later(x) == \E n \in DOMAIN mPriceVertices[i] : m < n /\ x = mPriceVertices[i][n]
           C == {x \in Vertices : Later(x) \/ IsDemand(x)}
<1>1. PriceVertex(i, v) /\ DemandVertexOf(i, FirstDemand(i))
  BY <1>0, Ends DEF PriceVertex
<1>2. DOMAIN mPriceVertices[i] = 1..Len(mPriceVertices[i]) /\ Len(mPriceVertices[i]) \in Nat
  BY <1>0, Positions
<1>3. v \notin C
  <2>1. ~IsDemand(v)
    BY <1>0, <1>1, OneOwner DEF IsDemand
  <2>2. ~Later(v)
    BY <1>0, <1>2, OnePlace
  <2> QED BY <2>1, <2>2
<1>4. ASSUME NEW e \in edges, e.from = v \/ e.from \in C PROVE e.to \in C
  <2>1. e.to \in Vertices
    BY <1>0 DEF TypeOK
  <2>2. CASE IsDemand(e.from)
    BY <1>0, <2>1, <2>2, EdgeSides
  <2>3. ASSUME NEW k \in DOMAIN mPriceVertices[i], m <= k, e.from = mPriceVertices[i][k] PROVE e.to \in C
    <3>1. PriceVertex(i, e.from)
      BY <2>3 DEF PriceVertex
    <3>2. CASE \E n \in 1..(Len(mPriceVertices[i]) - 1) :
                 e.from = mPriceVertices[i][n] /\ e.to = mPriceVertices[i][n + 1]
      <4>1. PICK n \in 1..(Len(mPriceVertices[i]) - 1) :
               e.from = mPriceVertices[i][n] /\ e.to = mPriceVertices[i][n + 1]
        BY <3>2
      <4>2. n = k
        <5>1. n \in DOMAIN mPriceVertices[i] /\ mPriceVertices[i][n] = mPriceVertices[i][k]
          BY <1>2, <2>3, <4>1
        <5> QED BY <1>0, <2>3, <5>1, OnePlace
      <4>3. n + 1 \in DOMAIN mPriceVertices[i] /\ m < n + 1
        BY <1>2, <2>3, <4>1, <4>2
      <4> QED BY <2>1, <4>1, <4>3
    <3>3. CASE e.to = FirstDemand(i)
      BY <1>0, <1>1, <2>1, <3>3 DEF IsDemand
    <3>4. CASE \E d \in mDependentList[i] : ~HasPrice(d) /\ HasDemand(d) /\ e.to = FirstDemand(d)
      <4>1. PICK d \in mDependentList[i] : ~HasPrice(d) /\ HasDemand(d) /\ e.to = FirstDemand(d)
        BY <3>4
      <4>2. d \in Item
        BY <1>0 DEF TypeOK
      <4>3. IsDemand(e.to)
        BY <1>0, <4>1, <4>2, Ends DEF IsDemand
      <4> QED BY <2>1, <4>3
    <3> QED BY <1>0, <3>1, <3>2, <3>3, <3>4, OutOfPrice
  <2> QED BY <1>2, <2>2, <2>3, <1>4
<1>5. C \in SUBSET Vertices
  OBVIOUS
<1> HIDE DEF C
<1> QED BY <1>3, <1>4, <1>5, NoLoop

\* What leads into the demand of a loose item.
LEMMA IntoLoose ==
    ASSUME IInv, phase # "collect", NEW i \in Item, HasDemand(i), Loose(i)
    PROVE  \/ \A k \in Item : i \notin mDependentList[k]
           \/ \A e \in edges, j \in Item :
                 DemandVertexOf(j, e.from) /\ e.from = LastDemand(j) /\ e.to = FirstDemand(i)
                 /\ ~(\E n \in 1..(Len(mDemandVertices[j]) - 1) :
                         e.from = mDemandVertices[j][n + 1] /\ e.to = mDemandVertices[j][n])
                 => HasPrice(i) /\ ~HasPrice(j) /\ j \in mDependentList[i]
<1>0. RInv /\ GraphInv /\ TypeOK
  BY DEF IInv, RInv, TInv
<1>1. CASE /\ ~HasPrice(i) /\ ~SetBySolver(i) /\ mDependentList[i] # {}
  BY <1>0, <1>1 DEF RInv, UnpricedEnds
<1>2. CASE ~(~HasPrice(i) /\ ~SetBySolver(i) /\ mDependentList[i] # {})
  <2> SUFFICES ASSUME NEW e \in edges, NEW j \in Item, DemandVertexOf(j, e.from), e.to = FirstDemand(i),
                      ~(\E n \in 1..(Len(mDemandVertices[j]) - 1) :
                         e.from = mDemandVertices[j][n + 1] /\ e.to = mDemandVertices[j][n])
               PROVE  HasPrice(i) /\ ~HasPrice(j) /\ j \in mDependentList[i]
    OBVIOUS
  <2>1. PICK k \in Item : /\ j \in mDependentList[k] /\ HasDemand(k) /\ e.to = FirstDemand(k)
                          /\ (k \in Split => j \in FixedOutput)
                          /\ ~SetBySolver(k) \/ (HasPrice(k) /\ j \in LandAllocator)
    BY <1>0, OutOfDemand
  <2>2. k = i
    BY <1>0, <2>1, Ends, OneOwner
  <2>3. HasPrice(i) /\ j \in LandAllocator \cup FixedOutput
    BY <1>2, <2>1, <2>2 DEF Loose
  <2>4. ~HasPrice(j)
    BY <1>0, <2>3, OnlyDemands
  <2> QED BY <2>1, <2>2, <2>3, <2>4
<1> QED BY <1>1, <1>2

\* None of its demands.
LEMMA LooseDemands ==
    ASSUME IInv, phase # "collect", NEW i \in Item, Loose(i), NEW m \in DOMAIN mDemandVertices[i]
    PROVE  ~Loop(Vertices, edges, mDemandVertices[i][m])
<1>0. RInv /\ GraphInv /\ TypeOK /\ HasDemand(i)
  <2>1. RInv /\ GraphInv /\ TypeOK
    BY DEF IInv, RInv, TInv
  <2> QED BY <2>1, Positions
<1> DEFINE v == mDemandVertices[i][m]
           From(x) == \E n \in DOMAIN mDemandVertices[i] : m <= n /\ x = mDemandVertices[i][n]
           Unpriced(j) == HasPrice(i) /\ ~HasPrice(j) /\ j \in mDependentList[i]
           Feeds(x) == \E f \in Item : Unpriced(f) /\ DemandVertexOf(f, x)
           Past(x) == \E n \in DOMAIN mDemandVertices[i] : n < m /\ x = mDemandVertices[i][n]
<1>1. /\ DemandVertexOf(i, v) /\ DemandVertexOf(i, FirstDemand(i))
      /\ DOMAIN mDemandVertices[i] = 1..Len(mDemandVertices[i]) /\ Len(mDemandVertices[i]) \in Nat
  BY <1>0, Ends, Positions DEF DemandVertexOf
<1>2. ASSUME NEW e \in edges, NEW n \in DOMAIN mDemandVertices[i], n <= m, e.from = mDemandVertices[i][n]
      PROVE  Past(e.to) \/ \E k \in Item : i \in mDependentList[k]
  <2>1. DemandVertexOf(i, e.from)
    BY <1>2 DEF DemandVertexOf
  <2>2. CASE \E k \in 1..(Len(mDemandVertices[i]) - 1) :
               e.from = mDemandVertices[i][k + 1] /\ e.to = mDemandVertices[i][k]
    <3>1. PICK k \in 1..(Len(mDemandVertices[i]) - 1) :
             e.from = mDemandVertices[i][k + 1] /\ e.to = mDemandVertices[i][k]
      BY <2>2
    <3>2. k + 1 \in DOMAIN mDemandVertices[i] /\ mDemandVertices[i][k + 1] = mDemandVertices[i][n]
      BY <1>1, <1>2, <3>1
    <3>3. n = k + 1
      BY <1>0, <3>2, OnePlace
    <3>4. k \in DOMAIN mDemandVertices[i] /\ k < m
      BY <1>1, <1>2, <3>1, <3>3
    <3> QED BY <3>1, <3>4
  <2> QED BY <1>0, <2>1, <2>2, OutOfDemand
<1>3. CASE \A k \in Item : i \notin mDependentList[k]
  <2> DEFINE C == {x \in Vertices : Past(x)}
  <2>1. v \notin C
    BY <1>0, <1>1, OnePlace
  <2>2. ASSUME NEW e \in edges, e.from = v \/ e.from \in C PROVE e.to \in C
    <3>1. e.to \in Vertices
      BY <1>0 DEF TypeOK
    <3>2. PICK n \in DOMAIN mDemandVertices[i] : n <= m /\ e.from = mDemandVertices[i][n]
      BY <1>1, <2>2
    <3>3. Past(e.to)
      BY <1>2, <1>3, <3>2
    <3> QED BY <3>1, <3>3
  <2>3. C \in SUBSET Vertices
    OBVIOUS
  <2> HIDE DEF C
  <2> QED BY <2>1, <2>2, <2>3, NoLoop
<1>4. CASE \A e \in edges, j \in Item :
             DemandVertexOf(j, e.from) /\ e.from = LastDemand(j) /\ e.to = FirstDemand(i)
             /\ ~(\E n \in 1..(Len(mDemandVertices[j]) - 1) :
                     e.from = mDemandVertices[j][n + 1] /\ e.to = mDemandVertices[j][n])
             => HasPrice(i) /\ ~HasPrice(j) /\ j \in mDependentList[i]
  <2> DEFINE C == {x \in Vertices : IsDemand(x) /\ ~From(x) /\ ~Feeds(x)}
  <2>1. v \notin C
    BY <1>1
  <2>2. ASSUME NEW e \in edges, e.from = v \/ e.from \in C PROVE e.to \in C
    <3>1. IsDemand(e.from) /\ e.to \in Vertices
      BY <1>0, <1>1, <2>2 DEF IsDemand, TypeOK
    <3>2. IsDemand(e.to)
      BY <1>0, <3>1, EdgeSides
    <3>3. PICK j \in Item : DemandVertexOf(j, e.from)
      BY <3>1 DEF IsDemand
    <3>4. ~Unpriced(j)
      <4>1. CASE e.from = v
        BY <1>0, <1>1, <3>3, <4>1, OneOwner
      <4>2. CASE e.from \in C
        BY <3>3, <4>2
      <4> QED BY <2>2, <4>1, <4>2
    <3>5. ASSUME NEW n \in 1..(Len(mDemandVertices[j]) - 1),
                 e.from = mDemandVertices[j][n + 1], e.to = mDemandVertices[j][n]
          PROVE  e.to \in C
      <4>1. n \in DOMAIN mDemandVertices[j] /\ n + 1 \in DOMAIN mDemandVertices[j] /\ n < n + 1
        BY <1>0, Positions
      <4>2. DemandVertexOf(j, e.to)
        BY <3>5, <4>1 DEF DemandVertexOf
      <4>3. ~Feeds(e.to)
        <5> SUFFICES ASSUME NEW f \in Item, Unpriced(f), DemandVertexOf(f, e.to) PROVE FALSE
          OBVIOUS
        <5>1. f = j
          BY <1>0, <4>2, OneOwner
        <5> QED BY <3>4, <5>1
      <4>4. ~From(e.to)
        <5> SUFFICES ASSUME NEW k \in DOMAIN mDemandVertices[i], m <= k, e.to = mDemandVertices[i][k] PROVE FALSE
          OBVIOUS
        <5>1. DemandVertexOf(i, e.to)
          BY DEF DemandVertexOf
        <5>2. i = j
          BY <1>0, <4>2, <5>1, OneOwner
        <5>3. mDemandVertices[i][n] = mDemandVertices[i][k] /\ n \in DOMAIN mDemandVertices[i]
          BY <3>5, <4>1, <5>2
        <5>4. n = k
          BY <1>0, <5>3, OnePlace
        <5>5. n + 1 \in DOMAIN mDemandVertices[i] /\ m <= n + 1 /\ m # n + 1 /\ e.from = mDemandVertices[i][n + 1]
          BY <1>1, <3>5, <4>1, <5>2, <5>4
        <5>6. e.from = v
          BY <2>2, <5>5
        <5> QED BY <1>0, <5>5, <5>6, OnePlace
      <4> QED BY <3>1, <3>2, <4>3, <4>4
    <3>6. ASSUME NEW k \in Item, j \in mDependentList[k], HasDemand(k), e.to = FirstDemand(k),
                 ~SetBySolver(k) \/ (HasPrice(k) /\ j \in LandAllocator), e.from = LastDemand(j),
                 ~(\E n \in 1..(Len(mDemandVertices[j]) - 1) :
                      e.from = mDemandVertices[j][n + 1] /\ e.to = mDemandVertices[j][n])
          PROVE  e.to \in C
      <4>1. DemandVertexOf(k, e.to)
        BY <1>0, <3>6, Ends
      <4>2. ~From(e.to)
        <5> SUFFICES ASSUME NEW n \in DOMAIN mDemandVertices[i], e.to = mDemandVertices[i][n] PROVE FALSE
          OBVIOUS
        <5>1. DemandVertexOf(i, e.to)
          BY DEF DemandVertexOf
        <5>2. k = i
          BY <1>0, <4>1, <5>1, OneOwner
        <5> QED BY <1>4, <3>3, <3>4, <3>6, <5>2
      <4>3. ~Feeds(e.to)
        <5> SUFFICES ASSUME NEW f \in Item, Unpriced(f), DemandVertexOf(f, e.to) PROVE FALSE
          OBVIOUS
        <5>1. f = k
          BY <1>0, <4>1, OneOwner
        <5> QED BY <1>0, <3>6, <5>1 DEF RInv, UnpricedEnds
      <4> QED BY <3>1, <3>2, <4>2, <4>3
    <3> HIDE DEF C
    <3> QED BY <1>0, <3>3, <3>5, <3>6, OutOfDemand
  <2>3. C \in SUBSET Vertices
    OBVIOUS
  <2> HIDE DEF C
  <2> QED BY <2>1, <2>2, <2>3, NoLoop
<1> QED BY <1>0, <1>3, <1>4, IntoLoose

\* So the first price and the first demand of an item that was split are on none.
OffCycles ==
    phase # "collect" =>
       \A i \in Split : ~Loop(Vertices, edges, FirstPrice(i)) /\ ~Loop(Vertices, edges, FirstDemand(i))

\* It holds of every graph createOrdering makes.
LEMMA SplitOffCycles == IInv => OffCycles
<1> SUFFICES ASSUME IInv, phase # "collect", NEW i \in Split
             PROVE  ~Loop(Vertices, edges, FirstPrice(i)) /\ ~Loop(Vertices, edges, FirstDemand(i))
  BY DEF OffCycles
<1>1. RInv /\ i \in Item /\ HasPrice(i) /\ HasDemand(i) /\ Loose(i)
  BY DEF IInv, RInv, TInv, Split, Loose
<1>2. 1 \in DOMAIN mPriceVertices[i] /\ Len(mDemandVertices[i]) \in DOMAIN mDemandVertices[i]
  BY <1>1, Positions
<1> QED BY <1>1, <1>2, LoosePrices, LooseDemands DEF FirstPrice, FirstDemand

\* When nothing is ready and something waits there is a cycle: the one that
\* reaches most waits for something that reaches as much.
LEMMA StuckOnCycle ==
    ASSUME IInv, Stuck, Uncleared # {}
    PROVE  \E v \in Uncleared : OnCycle(Waits, v)
<1> DEFINE R(v) == Reach(Waits, {v})
           N == Cardinality(Vertices)
           T == {n \in Nat : \E v \in Uncleared : n = N - Cardinality(R(v))}
<1>0. TypeOK /\ Uncleared \subseteq Vertices /\ \A e \in Waits : e \in edges /\ e.to \in Vertices
  BY DEF IInv, RInv, TInv, TypeOK, Waits, Inside
<1>1. IsFiniteSet(Vertices) /\ N \in Nat
  BY <1>0, VerticesFinite
<1>2. \A v \in Uncleared : /\ v \in R(v) /\ R(v) \in SUBSET Vertices
                           /\ \A e \in Waits : e.from \in R(v) => e.to \in R(v)
  <2> SUFFICES ASSUME NEW v \in Uncleared
               PROVE  /\ v \in R(v) /\ R(v) \in SUBSET Vertices
                      /\ \A e \in Waits : e.from \in R(v) => e.to \in R(v)
    OBVIOUS
  <2>1. {v} \in SUBSET Vertices
    BY <1>0
  <2> QED BY <1>0, <2>1, ReachComplete
<1> HIDE DEF N
<1>3. \A v \in Uncleared : IsFiniteSet(R(v)) /\ Cardinality(R(v)) \in Nat /\ Cardinality(R(v)) <= N
  <2> HIDE DEF R
  <2> QED BY <1>1, <1>2, FS_Subset, FS_CardinalityType DEF N
<1>4. T # {} /\ T \in SUBSET Nat
  <2> HIDE DEF R
  <2> QED BY <1>1, <1>3
<1>5. PICK m \in T : \A n \in T : m <= n
  <2> HIDE DEF T
  <2> QED BY <1>4, LeastNumber
<1>6. PICK v \in Uncleared : m = N - Cardinality(R(v))
  BY <1>5
<1>7. PICK e \in edges : e.to = v /\ e.from \in Uncleared
  BY StillWaiting
<1>8. e \in Waits
  BY <1>7 DEF Waits, Inside
<1> DEFINE u == e.from
<1>9. v \in R(u)
  BY <1>2, <1>7, <1>8
<1>10. R(v) \subseteq R(u)
  <2> DEFINE C == R(u)
  <2>1. {v} \subseteq C /\ \A g \in Waits : g.from \in C => g.to \in C
    BY <1>2, <1>7, <1>9
  <2> HIDE DEF C
  <2>2. Reach(Waits, {v}) \subseteq C
    BY <1>0, <2>1, ReachClosed
  <2> QED BY <2>2 DEF C
<1>11. u \in R(v)
  <2> SUFFICES ASSUME u \notin R(v) PROVE FALSE
    OBVIOUS
  <2>1. u \in R(u) /\ u \in Uncleared
    BY <1>2, <1>7
  <2> HIDE DEF R, u
  <2>2. R(v) \in SUBSET R(u) /\ R(v) # R(u)
    BY <1>10, <2>1
  <2>3. Cardinality(R(v)) <= Cardinality(R(u)) /\ Cardinality(R(v)) # Cardinality(R(u))
    BY <1>3, <2>1, <2>2, FS_Subset
  <2>4. N - Cardinality(R(u)) \in T /\ N - Cardinality(R(u)) < m
    BY <1>1, <1>3, <1>6, <2>1, <2>3
  <2> QED BY <1>1, <1>3, <1>5, <1>6, <2>1, <2>4
<1>12. OnCycle(Waits, u)
  BY <1>7, <1>8, <1>11 DEF OnCycle
<1> QED BY <1>7, <1>12

-----------------------------------------------------------------------------
(* Giving up *)

\* Before it breaks a cycle the finder knows all the vertices that lie on one:
\* after the first search they stay among those it keeps in totalVisits.
Marked == \A v \in Uncleared : Loop(Vertices, Waits, v) => v \in totalVisits
MarkedInv ==
    /\ phase \in {"collect", "split"} => mIndexed = {} /\ totalVisits = {}
    /\ phase # "collect" => \/ mIndexed = {} /\ totalVisits = {} /\ phase # "break"
                            \/ Marked
    /\ phase = "break" => Uncleared # {}

\* What giving up says of the cycles that are left.
GaveUp ==
    phase = "unbreakable" =>
        /\ \E v \in Uncleared : Loop(Vertices, Waits, v)
        /\ \A v \in Uncleared : Loop(Vertices, Waits, v) => ~Breakable(v)

\* Both ends of what is waiting are waiting.
LEMMA WaitsType ==
    ASSUME TypeOK
    PROVE  /\ Waits \subseteq edges
           /\ \A e \in Waits : e.to \in Vertices /\ e.from \in Vertices /\ e.to \in Uncleared /\ e.from \in Uncleared
BY DEF Waits, Inside, TypeOK

\* The first search finds them all.
LEMMA SearchMarks ==
    ASSUME IInv, SharedInv, OwnMarketFree, phase # "collect", mIndexed = {},
           NEW v \in Uncleared, Loop(Vertices, Waits, v)
    PROVE  v \in StronglyConnected
<1>0. TypeOK /\ Uncleared \in SUBSET Vertices
  BY DEF IInv, RInv, TInv, TypeOK
<1>1. /\ Waits \subseteq edges
      /\ \A e \in Waits : e.to \in Vertices /\ e.from \in Vertices /\ e.to \in Uncleared /\ e.from \in Uncleared
  BY <1>0, WaitsType
<1>2. OnCycle(Waits, v)
  BY <1>0, <1>1, LoopIs
<1>3. PICK e \in Waits : e.from = v /\ v \in Reach(Waits, {e.to})
  BY <1>2 DEF OnCycle
<1> DEFINE w == e.to
           E == Inside(edges, Searched)
<1>4. w # v
  BY <1>1, <1>3, NoEdgeToItself
<1>5. Uncleared \subseteq Searched /\ Searched \in SUBSET Vertices
  <2> DEFINE F == Inside(edges, Vertices \ mIndexed)
  <2>1. \A f \in F : f.to \in Vertices
    BY DEF Inside
  <2>2. Uncleared \ mIndexed = Uncleared
    OBVIOUS
  <2> HIDE DEF F
  <2>3. Uncleared \subseteq Reach(F, Uncleared) /\ Reach(F, Uncleared) \subseteq Vertices
    BY <1>0, <2>1, ReachComplete
  <2> QED BY <2>2, <2>3 DEF Searched, F
<1>6. Waits \subseteq E /\ \A f \in E : f.to \in Vertices
  BY <1>0, <1>1, <1>5 DEF Inside
<1> HIDE DEF E
<1>7. w \in Reach(E, {v})
  <2>1. {v} \in SUBSET Vertices
    BY <1>0
  <2>2. v \in Reach(E, {v}) /\ \A f \in E : f.from \in Reach(E, {v}) => f.to \in Reach(E, {v})
    BY <1>0, <1>6, <2>1, ReachComplete
  <2> QED BY <1>3, <1>6, <2>2
<1>8. v \in Reach(E, {w})
  <2> DEFINE C == Reach(E, {w})
  <2>1. {w} \in SUBSET Vertices
    BY <1>1
  <2>2. {w} \subseteq C /\ \A f \in E : f.from \in C => f.to \in C
    BY <1>0, <1>6, <2>1, ReachComplete
  <2> HIDE DEF C
  <2>3. \A f \in Waits : f.from \in C => f.to \in C
    BY <1>6, <2>2
  <2>4. Reach(Waits, {w}) \subseteq C
    BY <1>0, <2>2, <2>3, ReachClosed
  <2> QED BY <1>3, <2>4 DEF C
<1>9. v \in Searched /\ w \in Searched \ {v}
  BY <1>1, <1>4, <1>5
<1> QED BY <1>7, <1>8, <1>9 DEF StronglyConnected, E

\* What can be reached from a vertex that can be reached can be reached.
LEMMA ReachOn ==
    ASSUME TypeOK, NEW E, \A e \in E : e.to \in Vertices, NEW y \in Vertices, NEW x \in Reach(E, {y})
    PROVE  Reach(E, {x}) \subseteq Reach(E, {y})
<1> DEFINE C == Reach(E, {y})
<1>1. {y} \in SUBSET Vertices
  OBVIOUS
<1>2. {x} \subseteq C /\ \A e \in E : e.from \in C => e.to \in C
  BY <1>1, ReachComplete
<1> HIDE DEF C
<1>3. Reach(E, {x}) \subseteq C
  BY <1>2, ReachClosed
<1> QED BY <1>3 DEF C

\* A vertex on a cycle lies on one within the marked vertices as well.
LEMMA LoopInside ==
    ASSUME IInv, Marked, NEW v \in Uncleared, Loop(Vertices, Waits, v)
    PROVE  OnCycle(Inside(edges, totalVisits), v)
<1> DEFINE M == totalVisits
           E == Inside(edges, M)
<1>0. TypeOK /\ Uncleared \in SUBSET Vertices
  BY DEF IInv, RInv, TInv, TypeOK
<1>1. /\ Waits \subseteq edges
      /\ \A e \in Waits : e.to \in Vertices /\ e.from \in Vertices /\ e.to \in Uncleared /\ e.from \in Uncleared
  BY <1>0, WaitsType
<1>2. OnCycle(Waits, v)
  BY <1>0, <1>1, LoopIs
<1>3. PICK e \in Waits : e.from = v /\ v \in Reach(Waits, {e.to})
  BY <1>2 DEF OnCycle
<1>4. \A g \in Waits : g.from \in Reach(Waits, {g.to}) => g.from \in M /\ g.to \in M
  <2> SUFFICES ASSUME NEW g \in Waits, g.from \in Reach(Waits, {g.to}) PROVE g.from \in M /\ g.to \in M
    OBVIOUS
  <2>1. OnCycle(Waits, g.from) /\ OnCycle(Waits, g.to)
    BY <1>0, <1>1, LoopNext
  <2>2. Loop(Vertices, Waits, g.from) /\ Loop(Vertices, Waits, g.to)
    BY <1>0, <1>1, <2>1, LoopIs
  <2> QED BY <1>1, <2>2 DEF Marked
<1>5. e \in E
  BY <1>1, <1>3, <1>4 DEF Inside
<1> DEFINE R == Reach(Waits, {e.to})
<1>6. e.to \in R /\ R \subseteq Vertices /\ \A g \in Waits : g.from \in R => g.to \in R
  <2>1. {e.to} \in SUBSET Vertices
    BY <1>1
  <2> QED BY <1>0, <1>1, <2>1, ReachComplete
<1>7. \A x \in Vertices : x \in Reach(Waits, {x}) /\ \A g \in Waits : g.from \in Reach(Waits, {x}) => g.to \in Reach(Waits, {x})
  <2> SUFFICES ASSUME NEW x \in Vertices
               PROVE  x \in Reach(Waits, {x})
                      /\ \A g \in Waits : g.from \in Reach(Waits, {x}) => g.to \in Reach(Waits, {x})
    OBVIOUS
  <2>1. {x} \in SUBSET Vertices
    OBVIOUS
  <2> QED BY <1>0, <1>1, <2>1, ReachComplete
<1>8. ASSUME NEW C \in SUBSET Vertices, e.to \in C, Closed(E, C) PROVE v \in C
  <2> DEFINE D == {x \in R : x \in C \/ v \notin Reach(Waits, {x})}
  <2>1. ASSUME NEW g \in Waits, g.from \in D PROVE g.to \in D
    <3>1. g.from \in R /\ g.to \in R /\ g.from \in Vertices /\ g.to \in Vertices
      BY <1>1, <1>6, <2>1
    <3>2. g.to \in Reach(Waits, {g.from})
      BY <1>7, <3>1
    <3>3. Reach(Waits, {g.to}) \subseteq Reach(Waits, {g.from})
      BY <1>0, <1>1, <3>1, <3>2, ReachOn
    <3>4. CASE v \notin Reach(Waits, {g.to})
      BY <3>1, <3>4
    <3>5. CASE v \in Reach(Waits, {g.to})
      <4>1. g.from \in C
        BY <2>1, <3>3, <3>5
      <4>2. e.to \in Reach(Waits, {v})
        BY <1>0, <1>3, <1>7
      <4>3. Reach(Waits, {v}) \subseteq Reach(Waits, {g.to})
        BY <1>0, <1>1, <3>1, <3>5, ReachOn
      <4>4. Reach(Waits, {e.to}) \subseteq Reach(Waits, {g.to})
        BY <1>0, <1>1, <3>1, <4>2, <4>3, ReachOn
      <4>5. g.from \in M /\ g.to \in M
        BY <1>4, <3>1, <4>4
      <4>6. g \in E
        BY <1>1, <4>5 DEF Inside
      <4> QED BY <1>8, <3>1, <4>1, <4>6 DEF Closed
    <3> QED BY <3>4, <3>5
  <2>2. {e.to} \subseteq D
    BY <1>6, <1>8
  <2> HIDE DEF D
  <2>3. Reach(Waits, {e.to}) \subseteq D
    BY <1>0, <2>1, <2>2, ReachClosed
  <2>4. v \in D
    BY <1>3, <2>3
  <2> QED BY <1>0, <1>7, <2>4 DEF D
<1>9. Loop(Vertices, E, v)
  BY <1>3, <1>5, <1>8 DEF Loop
<1>10. \A f \in E : f.to \in Vertices
  BY <1>0 DEF Inside, TypeOK
<1> HIDE DEF E
<1>11. OnCycle(E, v)
  BY <1>0, <1>9, <1>10, LoopIs
<1> QED BY <1>11 DEF E

\* Nothing is left to choose only if no item on a cycle may be broken.
LEMMA NoBreakers ==
    ASSUME IInv, Marked, Breakers(totalVisits) = {}, NEW v \in Uncleared, Loop(Vertices, Waits, v)
    PROVE  ~Breakable(v)
<1> DEFINE M == totalVisits
           E == Inside(edges, M)
<1>0. TypeOK /\ Uncleared \in SUBSET Vertices
  BY DEF IInv, RInv, TInv, TypeOK
<1> SUFFICES ASSUME Breakable(v) PROVE FALSE
  OBVIOUS
<1>1. v \in M
  BY DEF Marked
<1>2. OnCycle(E, v)
  BY LoopInside
<1>3. v \in Reach(E, {v})
  <2>1. {v} \in SUBSET Vertices /\ \A e \in E : e.to \in Vertices
    BY <1>0 DEF Inside, TypeOK
  <2> HIDE DEF E
  <2> QED BY <1>0, <2>1, ReachComplete
<1>4. v \in Visited(M)
  BY <1>1, <1>2, <1>3 DEF Visited
<1>5. v \in Breakers(M)
  BY <1>2, <1>4 DEF Breakers
<1> QED BY <1>5

\* When nothing is ready and something waits, some of it lies on a cycle.
LEMMA StuckLoop ==
    ASSUME IInv, Stuck, Uncleared # {}
    PROVE  \E v \in Uncleared : Loop(Vertices, Waits, v)
<1>1. TypeOK
  BY DEF IInv, RInv, TInv
<1>2. \A e \in Waits : e.to \in Vertices
  BY <1>1, WaitsType
<1>3. PICK v \in Uncleared : OnCycle(Waits, v)
  BY StuckOnCycle
<1> QED BY <1>1, <1>2, <1>3, LoopIs

\* The edges among what waits only change when an item is split.
LEMMA MarkedKept ==
    ASSUME Marked, UNCHANGED <<registration, edges, totalVisits>>, Uncleared' \subseteq Uncleared
    PROVE  Marked'
<1>1. Vertices' = Vertices /\ Waits' \subseteq Waits
  BY DEF registration, Vertices, Waits, Inside
<1>2. \A v \in Uncleared' : Loop(Vertices', Waits', v) => Loop(Vertices, Waits, v)
  BY <1>1, LoopMore
<1> QED BY <1>2 DEF Marked

\* Trial markets leave no cycle through the price or the demand of their item
\* and make no new one.
LEMMA MarkedBreak ==
    ASSUME IInv, OffCycles', Marked, phase = "break", phase' # "collect", NEW i \in Item,
           CreateTrialsForItem(i), FirstDemand(i) \in Uncleared, UNCHANGED registration,
           totalVisits' = totalVisits \ {FirstDemand(i), FirstPrice(i)}
    PROVE  Marked'
<1>0. RInv /\ GraphInv /\ SplitInv /\ TypeOK /\ Uncleared \in SUBSET Vertices
  BY DEF IInv, RInv, TInv, TypeOK
<1>1. /\ Vertices' = Vertices /\ FirstPrice(i)' = FirstPrice(i) /\ FirstDemand(i)' = FirstDemand(i)
  BY RegistrationOps
<1>2. Split' = Split \cup {i}
  BY <1>0, GraphAfterSplit
<1>3. edges' \subseteq edges \cup {TrialEdge(i)}
  BY <1>0, SplitEdges
<1>4. Uncleared' = Uncleared
  BY DEF CreateTrialsForItem, SplitCounts, Uncleared
<1>5. Waits' \subseteq Waits \cup {TrialEdge(i)} /\ Waits' \subseteq edges'
  BY <1>3, <1>4 DEF Waits, Inside
<1>6. ASSUME NEW v, Loop(Vertices, Waits', v) PROVE Loop(Vertices, Waits, v)
  <2> DEFINE R == {x \in Vertices : IsDemand(x)}
             t == TrialEdge(i)
  <2>1. Loop(Vertices, Waits \cup {t}, v)
    BY <1>5, <1>6, LoopMore
  <2>2. HasPrice(i) /\ HasDemand(i)
    BY DEF CreateTrialsForItem
  <2>3. t.from = LastPrice(i) /\ t.to = FirstDemand(i)
    BY TrialIs
  <2>4. t.to \in R
    BY <1>0, <2>2, <2>3, Ends DEF IsDemand
  <2>5. t.from \notin R
    BY <1>0, <2>2, <2>3, Ends, OneOwner DEF IsDemand
  <2>6. \A e \in Waits : e \in edges /\ e.to \in Vertices
    BY <1>0, WaitsType
  <2>7. Closed(Waits, R)
    BY <1>0, <2>6, EdgeSides DEF Closed
  <2>8. R \in SUBSET Vertices
    OBVIOUS
  <2> HIDE DEF R, t
  <2> QED BY <2>1, <2>4, <2>5, <2>6, <2>7, <2>8, LoopWithout
<1>7. ~Loop(Vertices, edges', FirstPrice(i)) /\ ~Loop(Vertices, edges', FirstDemand(i))
  BY <1>1, <1>2 DEF OffCycles
<1>8. ASSUME NEW v \in Uncleared, Loop(Vertices, Waits', v) PROVE v \in totalVisits'
  <2>1. v \in totalVisits
    BY <1>6, <1>8 DEF Marked
  <2>2. Loop(Vertices, edges', v)
    BY <1>5, <1>8, LoopMore
  <2> QED BY <1>7, <2>1, <2>2
<1> QED BY <1>1, <1>4, <1>8 DEF Marked

\* A first search marks all cycles, a later one is not made while there are any:
\* what is still marked and waits is kept.
LEMMA MarkedFindCycles ==
    ASSUME IInv, SharedInv, OwnMarketFree, MarkedInv, FindCycles
    PROVE  MarkedInv'
<1>1. /\ phase = "sort" /\ phase' = "break" /\ justRemoved = {} /\ Ready = {} /\ Uncleared # {}
      /\ totalVisits' = IF totalVisits = {} THEN StronglyConnected ELSE totalVisits \cap Uncleared
      /\ UNCHANGED <<registration, edges, sorting>>
  BY DEF FindCycles
<1>2. Uncleared' = Uncleared /\ Vertices' = Vertices /\ Waits' = Waits
  BY <1>1 DEF sorting, registration, Uncleared, Vertices, Waits, Inside
<1>3. ASSUME NEW v \in Uncleared, Loop(Vertices, Waits, v) PROVE v \in totalVisits'
  <2>1. CASE totalVisits # {}
    BY <1>1, <1>3, <2>1 DEF MarkedInv, Marked
  <2>2. CASE totalVisits = {}
    <3>1. mIndexed = {}
      BY <1>1, <1>3, <2>2 DEF MarkedInv, Marked
    <3> QED BY <1>1, <1>3, <2>2, <3>1, SearchMarks
  <2> QED BY <2>1, <2>2
<1>4. Marked'
  BY <1>2, <1>3 DEF Marked
<1> QED BY <1>1, <1>2, <1>4 DEF MarkedInv

\* Breaking a cycle unmarks only what is on no cycle any more.
LEMMA MarkedBreakCycle ==
    ASSUME IInv, OffCycles', MarkedInv, BreakCycle
    PROVE  MarkedInv' /\ phase' # "unbreakable"
<1>1. phase = "break" /\ Marked
  BY DEF BreakCycle, MarkedInv
<1>2. PICK v \in Breakers(totalVisits) : \E i \in Item :
          /\ Owns(i, v)
          /\ \/ /\ CreateTrialsForItem(i)
                /\ phase' = "sort"
                /\ totalVisits' = totalVisits \ {FirstDemand(i), FirstPrice(i)}
                /\ UNCHANGED <<registration, justRemoved, mGlobalOrdering, toSplit, mIndexed, mCalcList>>
             \/ TrialsFail(i)
  BY DEF BreakCycle
<1>3. PICK i \in Item :
          /\ Owns(i, v)
          /\ \/ /\ CreateTrialsForItem(i)
                /\ phase' = "sort"
                /\ totalVisits' = totalVisits \ {FirstDemand(i), FirstPrice(i)}
                /\ UNCHANGED <<registration, justRemoved, mGlobalOrdering, toSplit, mIndexed, mCalcList>>
             \/ TrialsFail(i)
  BY <1>2
<1>4. CASE TrialsFail(i)
  <2>1. /\ phase' \in {"noVertex", "noTrial"} /\ UNCHANGED <<registration, edges, sorting, breaking>>
    BY <1>4 DEF TrialsFail
  <2>2. Uncleared' = Uncleared /\ UNCHANGED <<registration, edges, totalVisits>>
    BY <2>1 DEF Uncleared, sorting, breaking
  <2> QED BY <1>1, <2>1, <2>2, MarkedKept DEF MarkedInv
<1>5. CASE /\ CreateTrialsForItem(i)
           /\ phase' = "sort"
           /\ totalVisits' = totalVisits \ {FirstDemand(i), FirstPrice(i)}
           /\ UNCHANGED <<registration, justRemoved, mGlobalOrdering, toSplit, mIndexed, mCalcList>>
  <2>1. HasPrice(i) /\ HasDemand(i)
    BY <1>5 DEF CreateTrialsForItem
  <2>2. FirstDemand(i) \in Uncleared
    BY <1>1, <1>3, <2>1, ChosenWaits
  <2> QED BY <1>1, <1>5, <2>2, MarkedBreak DEF MarkedInv
<1> QED BY <1>3, <1>4, <1>5

\* Every step keeps the marks.
LEMMA MarkedStep ==
    ASSUME IInv, SharedInv, OwnMarketFree, OffCycles', MarkedInv, [Next]_vars
    PROVE  MarkedInv'
<1>0. Stages
  BY DEF IInv
<1>1. ASSUME phase' = phase \/ phase' \notin {"collect", "split", "break"}, phase # "collect",
             UNCHANGED <<registration, edges, totalVisits, mIndexed>>, Uncleared' \subseteq Uncleared,
             phase' = "break" => Uncleared' = Uncleared
      PROVE  MarkedInv'
  BY <1>1, MarkedKept DEF MarkedInv
<1>2. ASSUME UNCHANGED <<registration, edges, sorting, breaking>>,
             phase' = phase \/ phase' \notin {"collect", "split", "break"}, phase # "collect"
      PROVE  MarkedInv'
  <2>1. UNCHANGED <<registration, edges, totalVisits, mIndexed>> /\ Uncleared' = Uncleared
    BY <1>2 DEF sorting, breaking, Uncleared
  <2> QED BY <1>1, <1>2, <2>1
<1>3. ASSUME phase = "collect", phase' \in {"collect", "split"}, UNCHANGED <<mIndexed, totalVisits>>
      PROVE  MarkedInv'
  BY <1>3 DEF MarkedInv
<1>4. ASSUME NEW d \in Declaration, AddDependency(d) PROVE MarkedInv'
  BY <1>3, <1>4 DEF AddDependency, breaking
<1>5. ASSUME NEW a \in Activity, ResolveActivityToDependency(a) PROVE MarkedInv'
  BY <1>3, <1>5 DEF ResolveActivityToDependency, breaking
<1>6. ASSUME ConnectGraph PROVE MarkedInv'
  BY <1>3, <1>6 DEF ConnectGraph
<1>7. ASSUME NEW i \in Item, SplitSelfDependent(i) PROVE MarkedInv'
  <2>1. CASE TrialsFail(i)
    BY <1>2, <1>7, <2>1 DEF TrialsFail, SplitSelfDependent
  <2>2. CASE ~TrialsFail(i)
    BY <1>7, <2>2 DEF SplitSelfDependent, MarkedInv
  <2> QED BY <2>1, <2>2
<1>8. ASSUME StartSort PROVE MarkedInv'
  BY <1>2, <1>8 DEF StartSort
<1>9. ASSUME StartPass PROVE MarkedInv'
  <2>1. Uncleared' \subseteq Uncleared
    BY <1>9 DEF StartPass, Uncleared
  <2> QED BY <1>1, <1>9, <2>1 DEF StartPass, breaking
<1>10. ASSUME NEW v \in Vertices, ListRemoved(v) PROVE MarkedInv'
  <2>1. Uncleared' \subseteq Uncleared
    BY <1>10 DEF ListRemoved, Uncleared
  <2> QED BY <1>1, <1>10, <2>1 DEF ListRemoved, breaking
<1>11. ASSUME Finish PROVE MarkedInv'
  BY <1>2, <1>11 DEF Finish
<1>12. ASSUME FindCycles PROVE MarkedInv'
  BY <1>12, MarkedFindCycles
<1>13. ASSUME BreakCycle PROVE MarkedInv'
  BY <1>13, MarkedBreakCycle
<1>14. ASSUME GiveUp PROVE MarkedInv'
  BY <1>2, <1>14 DEF GiveUp
<1>15. ASSUME NEW k \in Asked, GetOrdering(k) PROVE MarkedInv'
  BY <1>2, <1>15 DEF GetOrdering
<1>16. ASSUME UNCHANGED vars PROVE MarkedInv'
  <2>1. CASE phase = "collect"
    BY <1>3, <1>16, <2>1 DEF vars, breaking
  <2>2. CASE phase # "collect"
    BY <1>2, <1>16, <2>2 DEF vars
  <2> QED BY <2>1, <2>2
<1> QED
  BY <1>4, <1>5, <1>6, <1>7, <1>8, <1>9, <1>10, <1>11, <1>12, <1>13, <1>14, <1>15, <1>16 DEF Next, Stop

\* Giving up is the only way to give up, and then nothing changes any more.
LEMMA GaveUpStep ==
    ASSUME IInv, MarkedInv, GaveUp, OffCycles', [Next]_vars
    PROVE  GaveUp'
<1>1. ASSUME phase' = "unbreakable", ~GiveUp PROVE UNCHANGED vars
  <2>1. \A i \in Item : ~TrialsFail(i)
    BY <1>1 DEF TrialsFail
  <2>2. BreakCycle => FALSE
    BY <1>1, MarkedBreakCycle
  <2>3. ASSUME NEW i \in Item, SplitSelfDependent(i) PROVE FALSE
    BY <1>1, <2>1, <2>3 DEF SplitSelfDependent
  <2> QED
    BY <1>1, <2>2, <2>3 DEF Next, Stop, AddDependency, ResolveActivityToDependency, ConnectGraph, StartSort,
                            StartPass, ListRemoved, Finish, FindCycles, GetOrdering
<1>2. ASSUME UNCHANGED <<registration, edges, sorting>>
      PROVE  /\ Uncleared' = Uncleared /\ Vertices' = Vertices /\ Waits' = Waits
             /\ \A v : Breakable(v)' = Breakable(v)
  BY <1>2 DEF registration, sorting, Uncleared, Vertices, Waits, Inside, Breakable, Owns
<1>3. ASSUME UNCHANGED vars PROVE GaveUp'
  <2>1. UNCHANGED <<registration, edges, sorting>> /\ phase' = phase
    BY <1>3 DEF vars
  <2> QED BY <1>2, <2>1 DEF GaveUp
<1>4. ASSUME GiveUp PROVE GaveUp'
  <2>1. phase = "break" /\ Breakers(totalVisits) = {} /\ UNCHANGED <<registration, edges, sorting>>
    BY <1>4 DEF GiveUp
  <2>2. Marked /\ Uncleared # {} /\ Stuck
    BY <2>1 DEF MarkedInv, IInv, Stages, Stuck
  <2>3. \E v \in Uncleared : Loop(Vertices, Waits, v)
    BY <2>2, StuckLoop
  <2>4. \A v \in Uncleared : Loop(Vertices, Waits, v) => ~Breakable(v)
    BY <2>1, <2>2, NoBreakers
  <2> QED BY <1>2, <2>1, <2>3, <2>4 DEF GaveUp
<1> QED BY <1>1, <1>3, <1>4 DEF GaveUp

\* The program gives up on a cycle only when no remaining cycle goes through an
\* item that may be broken, if no item depends on one of its own market: the
\* search never marks a vertex that lies on no cycle but an edge to itself.
THEOREM GivesUpRightly ==
    ASSUME OwnMarketFree PROVE Spec => []GivesUpOnlyOnUnbreakable
<1>1. Init => MarkedInv /\ GaveUp
  BY DEF Init, MarkedInv, GaveUp
<1>2. IInv => OffCycles
  BY SplitOffCycles
<1>3. IInv /\ SharedInv /\ MarkedInv /\ GaveUp /\ OffCycles' /\ [Next]_vars => MarkedInv' /\ GaveUp'
  BY MarkedStep, GaveUpStep
<1>4. IInv /\ GaveUp => GivesUpOnlyOnUnbreakable
  <2> SUFFICES ASSUME IInv, GaveUp, phase = "unbreakable"
               PROVE  /\ \E v \in Uncleared : OnCycle(Waits, v)
                      /\ \A v \in Uncleared : OnCycle(Waits, v) => ~Breakable(v)
    BY DEF GivesUpOnlyOnUnbreakable, Waits
  <2>1. TypeOK
    BY DEF IInv, RInv, TInv
  <2>2. \A e \in Waits : e.to \in Vertices
    BY <2>1, WaitsType
  <2>3. \A v : OnCycle(Waits, v) <=> Loop(Vertices, Waits, v)
    BY <2>1, <2>2, LoopIs
  <2> QED BY <2>3 DEF GaveUp
<1> QED BY <1>1, <1>2, <1>3, <1>4, Invariance, SharingInvariance, PTL DEF Spec

-----------------------------------------------------------------------------
(* No trial markets in vain *)

\* Every cycle that is left when nothing is ready goes through an item that may
\* be broken: its vertices lie on a common cycle with one of such an item.
CyclesBreakable ==
    phase = "break" =>
        \A v \in Uncleared : OnCycle(Waits, v) =>
            \E w \in Uncleared : Breakable(w) /\ w \in Reach(Waits, {v}) /\ v \in Reach(Waits, {w})

\* Two vertices that lead to each other lie on a cycle, and on one within the
\* marked vertices as well.
LEMMA ComponentLoops ==
    ASSUME TypeOK, NEW E, \A e \in E : e.to \in Vertices, NEW v \in Vertices, NEW w \in Vertices, v # w,
           w \in Reach(E, {v}), v \in Reach(E, {w})
    PROVE  OnCycle(E, v)
<1> SUFFICES ASSUME ~OnCycle(E, v) PROVE FALSE
  OBVIOUS
<1> DEFINE D == {v} \cup {x \in Vertices : v \notin Reach(E, {x})}
<1>1. \A g \in E : g.from \in D => g.to \in D
  <2> SUFFICES ASSUME NEW g \in E, g.from \in D PROVE g.to \in D
    OBVIOUS
  <2>1. CASE g.from = v
    BY <2>1 DEF OnCycle
  <2>2. CASE g.from \in Vertices /\ v \notin Reach(E, {g.from})
    <3>1. {g.from} \in SUBSET Vertices
      BY <2>2
    <3>2. g.to \in Reach(E, {g.from})
      BY <3>1, ReachComplete
    <3>3. Reach(E, {g.to}) \subseteq Reach(E, {g.from})
      BY <2>2, <3>2, ReachOn
    <3> QED BY <2>2, <3>3
  <2> QED BY <2>1, <2>2
<1>2. {v} \subseteq D
  OBVIOUS
<1> HIDE DEF D
<1>3. Reach(E, {v}) \subseteq D
  BY <1>1, <1>2, ReachClosed
<1>4. w \in D
  BY <1>3
<1> QED BY <1>4 DEF D

\* What shares a cycle with a marked vertex is reached through marked ones.
LEMMA ComponentInside ==
    ASSUME IInv, Marked, NEW v \in Uncleared, Loop(Vertices, Waits, v),
           NEW w \in Uncleared, w \in Reach(Waits, {v}), v \in Reach(Waits, {w})
    PROVE  LET E == Inside(edges, totalVisits)
           IN  w \in Reach(E, {v}) /\ w \in totalVisits /\ OnCycle(E, w)
<1> DEFINE M == totalVisits
           E == Inside(edges, M)
<1>0. TypeOK /\ Uncleared \in SUBSET Vertices
  BY DEF IInv, RInv, TInv, TypeOK
<1>1. /\ Waits \subseteq edges
      /\ \A e \in Waits : e.to \in Vertices /\ e.from \in Vertices /\ e.to \in Uncleared /\ e.from \in Uncleared
  BY <1>0, WaitsType
<1>2. \A g \in Waits : g.from \in Reach(Waits, {g.to}) => g.from \in M /\ g.to \in M
  <2> SUFFICES ASSUME NEW g \in Waits, g.from \in Reach(Waits, {g.to}) PROVE g.from \in M /\ g.to \in M
    OBVIOUS
  <2>1. OnCycle(Waits, g.from) /\ OnCycle(Waits, g.to)
    BY <1>0, <1>1, LoopNext
  <2>2. Loop(Vertices, Waits, g.from) /\ Loop(Vertices, Waits, g.to)
    BY <1>0, <1>1, <2>1, LoopIs
  <2> QED BY <1>1, <2>2 DEF Marked
<1>3. Loop(Vertices, Waits, w)
  <2>1. CASE w = v
    BY <2>1
  <2>2. CASE w # v
    <3>1. OnCycle(Waits, w)
      BY <1>0, <1>1, <2>2, ComponentLoops
    <3> QED BY <1>0, <1>1, <3>1, LoopIs
  <2> QED BY <2>1, <2>2
<1>4. w \in M /\ OnCycle(E, w)
  BY <1>3, LoopInside DEF Marked
<1>5. \A x \in Vertices : x \in Reach(Waits, {x}) /\ \A g \in Waits : g.from \in Reach(Waits, {x}) => g.to \in Reach(Waits, {x})
  <2> SUFFICES ASSUME NEW x \in Vertices
               PROVE  x \in Reach(Waits, {x})
                      /\ \A g \in Waits : g.from \in Reach(Waits, {x}) => g.to \in Reach(Waits, {x})
    OBVIOUS
  <2>1. {x} \in SUBSET Vertices
    OBVIOUS
  <2> QED BY <1>0, <1>1, <2>1, ReachComplete
<1>6. v \in Reach(E, {v}) /\ \A g \in E : g.from \in Reach(E, {v}) => g.to \in Reach(E, {v})
  <2>1. {v} \in SUBSET Vertices /\ \A g \in E : g.to \in Vertices
    BY <1>0 DEF Inside, TypeOK
  <2> HIDE DEF E
  <2> QED BY <1>0, <2>1, ReachComplete
<1>7. w \in Reach(E, {v})
  <2> DEFINE D == {x \in Reach(Waits, {v}) : x \in Reach(E, {v}) \/ v \notin Reach(Waits, {x})}
  <2>1. ASSUME NEW g \in Waits, g.from \in D PROVE g.to \in D
    <3>1. g.from \in Reach(Waits, {v}) /\ g.to \in Reach(Waits, {v}) /\ g.from \in Vertices /\ g.to \in Vertices
      BY <1>0, <1>1, <1>5, <2>1
    <3>2. g.to \in Reach(Waits, {g.from})
      BY <1>5, <3>1
    <3>3. Reach(Waits, {g.to}) \subseteq Reach(Waits, {g.from})
      BY <1>0, <1>1, <3>1, <3>2, ReachOn
    <3>4. CASE v \notin Reach(Waits, {g.to})
      BY <3>1, <3>4
    <3>5. CASE v \in Reach(Waits, {g.to})
      <4>1. g.from \in Reach(E, {v})
        BY <2>1, <3>3, <3>5
      <4>2. Reach(Waits, {v}) \subseteq Reach(Waits, {g.to})
        BY <1>0, <1>1, <3>1, <3>5, ReachOn
      <4>3. g.from \in M /\ g.to \in M
        BY <1>2, <3>1, <4>2
      <4>4. g \in E
        BY <1>1, <4>3 DEF Inside
      <4> HIDE DEF E
      <4> QED BY <1>6, <3>1, <4>1, <4>4
    <3> QED BY <3>4, <3>5
  <2>2. {v} \subseteq D
    BY <1>0, <1>5, <1>6
  <2> HIDE DEF D, E
  <2>3. Reach(Waits, {v}) \subseteq D
    BY <1>0, <2>1, <2>2, ReachClosed
  <2>4. w \in D
    BY <2>3
  <2> QED BY <2>4 DEF D
<1> QED BY <1>4, <1>7

\* Then what is chosen lies on a cycle itself.
LEMMA ChosenOnCycle ==
    ASSUME IInv, Marked, CyclesBreakable, phase = "break", NEW v \in Breakers(totalVisits)
    PROVE  v \in Uncleared /\ Breakable(v) /\ OnCycle(Waits, v)
<1> DEFINE M == totalVisits
           E == Inside(edges, M)
<1>0. TypeOK /\ Uncleared \in SUBSET Vertices /\ M \subseteq Uncleared
  BY DEF IInv, RInv, TInv, TypeOK, Visits
<1>1. /\ Waits \subseteq edges
      /\ \A e \in Waits : e.to \in Vertices /\ e.from \in Vertices /\ e.to \in Uncleared /\ e.from \in Uncleared
  BY <1>0, WaitsType
<1>2. E \subseteq Waits /\ \A e \in E : e.to \in Vertices /\ e.to \in M
  BY <1>0 DEF Inside, Waits, TypeOK
<1>3. v \in Visited(M) /\ Breakable(v) /\ v \in M
  BY DEF Breakers, Visited
<1>4. \A x : OnCycle(E, x) => Loop(Vertices, Waits, x)
  <2> SUFFICES ASSUME NEW x, OnCycle(E, x) PROVE Loop(Vertices, Waits, x)
    OBVIOUS
  <2> HIDE DEF E
  <2>1. Loop(Vertices, E, x)
    BY <1>0, <1>2, LoopIs
  <2> QED BY <1>2, <2>1, LoopMore
<1>5. OnCycle(E, v)
  <2> SUFFICES ASSUME ~OnCycle(E, v) PROVE FALSE
    OBVIOUS
  <2>1. PICK u \in Reach(E, {v}) : OnCycle(E, u)
    BY <1>3 DEF Visited
  <2>2. Loop(Vertices, Waits, u)
    BY <1>4, <2>1
  <2>3. u \in M
    <3>1. {v} \subseteq M /\ \A e \in E : e.from \in M => e.to \in M
      BY <1>2, <1>3
    <3> HIDE DEF E, M
    <3>2. Reach(E, {v}) \subseteq M
      BY <1>0, <3>1, ReachClosed
    <3> QED BY <2>1, <3>2
  <2>4. OnCycle(Waits, u)
    BY <1>0, <1>1, <2>2, LoopIs
  <2>5. PICK w \in Uncleared : Breakable(w) /\ w \in Reach(Waits, {u}) /\ u \in Reach(Waits, {w})
    BY <1>0, <2>3, <2>4 DEF CyclesBreakable
  <2>6. w \in Reach(E, {u}) /\ w \in M /\ OnCycle(E, w)
    BY <1>0, <2>2, <2>3, <2>5, ComponentInside
  <2>7. w \in Reach(E, {v})
    <3> HIDE DEF E
    <3>1. v \in Vertices
      BY <1>0, <1>3
    <3>2. Reach(E, {u}) \subseteq Reach(E, {v})
      BY <1>0, <1>2, <2>1, <3>1, ReachOn
    <3> QED BY <2>6, <3>2
  <2>8. w \in Reach(E, {w})
    <3>1. {w} \in SUBSET Vertices
      BY <1>0
    <3> HIDE DEF E
    <3> QED BY <1>0, <1>2, <3>1, ReachComplete
  <2>9. w \in Visited(M)
    BY <2>6, <2>8 DEF Visited
  <2> QED BY <2>5, <2>6, <2>7, <2>9 DEF Breakers
<1>6. OnCycle(Waits, v)
  BY <1>0, <1>1, <1>4, <1>5, LoopIs
<1> QED BY <1>0, <1>3, <1>6

\* The marks of cycles stay right.
LEMMA MarkedAlways ==
    ASSUME OwnMarketFree PROVE Spec => []MarkedInv
<1>1. Init => MarkedInv
  BY DEF Init, MarkedInv
<1>2. IInv => OffCycles
  BY SplitOffCycles
<1>3. IInv /\ SharedInv /\ MarkedInv /\ OffCycles' /\ [Next]_vars => MarkedInv'
  BY MarkedStep
<1> QED BY <1>1, <1>2, <1>3, Invariance, SharingInvariance, PTL DEF Spec

\* Only breaking a cycle makes trial markets in the phase "break".
LEMMA BreakingTrials ==
    ASSUME phase = "break", trials' # trials, [Next]_vars
    PROVE  BreakCycle /\ \E v \in Breakers(totalVisits), i \in Item : Owns(i, v) /\ CreateTrialsForItem(i)
<1>1. trials' # trials => ~(UNCHANGED breaking) /\ ~(UNCHANGED vars)
  BY DEF breaking, vars
<1>2. BreakCycle
  BY <1>1 DEF Next, Stop, AddDependency, ResolveActivityToDependency, ConnectGraph, SplitSelfDependent, StartSort,
              StartPass, ListRemoved, Finish, FindCycles, GiveUp, GetOrdering
<1>3. \A i : TrialsFail(i) => UNCHANGED breaking
  BY DEF TrialsFail
<1> QED BY <1>1, <1>2, <1>3 DEF BreakCycle

\* If every cycle goes through an item that may be broken, trial markets are
\* created while sorting only for an item on a cycle.  (Where a cycle has none,
\* an item from which it can be reached may get them in vain.)
THEOREM SplitsOnCycles ==
    ASSUME OwnMarketFree PROVE Spec /\ []CyclesBreakable => TrialsOnlyOnCycles
<1> DEFINE A == phase = "break" /\ trials' # trials =>
                   \E v \in Uncleared, i \in Item : /\ Owns(i, v) /\ MarketOf[i] \in trials' \ trials
                                                    /\ OnCycle(Inside(edges, Uncleared), v)
<1>1. IInv /\ MarkedInv /\ CyclesBreakable /\ [Next]_vars => [A]_vars
  <2> SUFFICES ASSUME IInv, MarkedInv, CyclesBreakable, [Next]_vars, phase = "break", trials' # trials
               PROVE  \E v \in Uncleared, i \in Item : /\ Owns(i, v) /\ MarketOf[i] \in trials' \ trials
                                                       /\ OnCycle(Inside(edges, Uncleared), v)
    OBVIOUS
  <2>1. PICK v \in Breakers(totalVisits) : \E i \in Item : Owns(i, v) /\ CreateTrialsForItem(i)
    BY BreakingTrials
  <2>2. PICK i \in Item : Owns(i, v) /\ CreateTrialsForItem(i)
    BY <2>1
  <2>3. MarketOf[i] \in trials' \ trials
    BY <2>2 DEF CreateTrialsForItem, CanReset
  <2>4. v \in Uncleared /\ OnCycle(Waits, v)
    BY <2>1, ChosenOnCycle DEF MarkedInv
  <2> QED BY <2>2, <2>3, <2>4 DEF Waits
<1>2. [][A]_vars => TrialsOnlyOnCycles
  BY PTL DEF TrialsOnlyOnCycles
<1> HIDE DEF A
<1> QED BY <1>1, <1>2, Invariance, MarkedAlways, PTL DEF Spec

-----------------------------------------------------------------------------
(* Creating trial markets never fails *)

\* The items createTrialsForItem may be called for.
MayBeSplit(i) == HasPrice(i) /\ ~IsSolved(i) /\ (mCanBreakCycle[i] \/ i \in mHasSelfDependence)

\* What this asks of a configuration: items that want trial markets have a price
\* the solver does not set, and whatever may be given trial markets has a market
\* of its own that can be reset.
TrialMarkets ==
    phase # "collect" =>
       /\ \A i \in mHasSelfDependence : HasPrice(i) /\ ~IsSolved(i)
       /\ \A i, j \in Item : MayBeSplit(i) /\ MayBeSplit(j) =>
             MarketOf[i] \in Normal /\ (MarketOf[i] = MarketOf[j] => i = j)

\* The markets reset so far are those of the items split so far, and none of
\* these asks again.
TrialsInv ==
    phase # "collect" =>
       /\ \A m \in trials : \E i \in Split : MarketOf[i] = m /\ MayBeSplit(i)
       /\ toSplit \cap Split = {}
       /\ phase \in {"sort", "break"} => toSplit = {}
       /\ phase \notin {"noVertex", "noTrial"}

\* While nothing is registered, who may be split stays the same.
LEMMA MayBeSplitKept ==
    ASSUME UNCHANGED registration PROVE \A i : MayBeSplit(i)' = MayBeSplit(i)
<1>1. /\ mCanBreakCycle' = mCanBreakCycle /\ mHasSelfDependence' = mHasSelfDependence
      /\ mPriceVertices' = mPriceVertices
  BY DEF registration
<1> QED BY <1>1 DEF MayBeSplit, HasPrice, IsSolved

\* Steps that split nothing.
LEMMA TrialsInvKept ==
    ASSUME IInv, TrialsInv, phase # "collect", phase' # "collect", UNCHANGED <<registration, edges, toSplit, trials>>,
           phase' \notin {"noVertex", "noTrial"},
           phase' \in {"sort", "break"} => phase \in {"sort", "break"} \/ toSplit = {}
    PROVE  TrialsInv'
<1>1. Split' = Split
  BY SameGraph DEF IInv
<1>2. \A i : MayBeSplit(i)' = MayBeSplit(i)
  BY MayBeSplitKept
<1>3. \A m \in trials' : \E i \in Split' : MarketOf[i] = m /\ MayBeSplit(i)'
  BY <1>1, <1>2 DEF TrialsInv
<1> QED BY <1>1, <1>3 DEF TrialsInv

\* A split adds its item to those that were split.
LEMMA TrialsInvCreate ==
    ASSUME IInv, TrialsInv, phase # "collect", phase' \in {"split", "sort"}, NEW i \in Item, CreateTrialsForItem(i),
           UNCHANGED registration, MayBeSplit(i), toSplit' = toSplit \ {i}, phase' = "sort" => toSplit = {}
    PROVE  TrialsInv'
<1>1. Split' = Split \cup {i}
  BY GraphAfterSplit DEF IInv
<1>2. \A j : MayBeSplit(j)' = MayBeSplit(j)
  BY MayBeSplitKept
<1>3. trials' = trials \cup {MarketOf[i]}
  BY DEF CreateTrialsForItem
<1>4. \A m \in trials' : \E j \in Split' : MarketOf[j] = m /\ MayBeSplit(j)'
  BY <1>1, <1>2, <1>3 DEF TrialsInv
<1> QED BY <1>1, <1>4 DEF TrialsInv

\* An item that may be split and has not been can be split.
LEMMA CanBeSplit ==
    ASSUME IInv, TrialsInv, TrialMarkets, phase # "collect", NEW i \in Item, MayBeSplit(i), i \notin Split
    PROVE  ~TrialsFail(i)
<1>1. HasPrice(i) /\ HasDemand(i)
  BY DEF IInv, RInv, TInv, MayBeSplit
<1>2. MarketOf[i] \in Normal
  BY DEF TrialMarkets
<1>3. MarketOf[i] \notin trials
  <2> SUFFICES ASSUME MarketOf[i] \in trials PROVE FALSE
    OBVIOUS
  <2>1. PICK j \in Split : MarketOf[j] = MarketOf[i] /\ MayBeSplit(j)
    BY DEF TrialsInv
  <2>2. j \in Item
    BY DEF Split
  <2> QED BY <2>1, <2>2 DEF TrialMarkets
<1> QED BY <1>1, <1>2, <1>3 DEF TrialsFail, CanReset

\* An item that asked for trial markets has not been split before.
LEMMA TrialsInvSplit ==
    ASSUME IInv, TrialsInv, TrialMarkets, NEW i \in Item, SplitSelfDependent(i)
    PROVE  TrialsInv'
<1>1. phase = "split" /\ i \in toSplit /\ i \notin Split
  BY DEF SplitSelfDependent, TrialsInv
<1>2. i \in mHasSelfDependence
  BY <1>1 DEF IInv, SplitInv
<1>3. MayBeSplit(i)
  BY <1>1, <1>2 DEF TrialMarkets, MayBeSplit
<1>4. ~TrialsFail(i)
  BY <1>1, <1>3, CanBeSplit
<1>5. CreateTrialsForItem(i) /\ toSplit' = toSplit \ {i} /\ UNCHANGED <<phase, registration>>
  BY <1>4 DEF SplitSelfDependent
<1> QED BY <1>1, <1>3, <1>5, TrialsInvCreate

\* Nor has an item on a cycle.
LEMMA TrialsInvBreak ==
    ASSUME IInv, MarkedInv, CyclesBreakable, TrialsInv, TrialMarkets, BreakCycle
    PROVE  TrialsInv'
<1>0. phase = "break" /\ Marked /\ toSplit = {}
  BY DEF BreakCycle, MarkedInv, TrialsInv
<1>1. PICK v \in Breakers(totalVisits) : \E i \in Item :
          /\ Owns(i, v)
          /\ \/ /\ CreateTrialsForItem(i)
                /\ phase' = "sort"
                /\ totalVisits' = totalVisits \ {FirstDemand(i), FirstPrice(i)}
                /\ UNCHANGED <<registration, justRemoved, mGlobalOrdering, toSplit, mIndexed, mCalcList>>
             \/ TrialsFail(i)
  BY DEF BreakCycle
<1>2. PICK i \in Item :
          /\ Owns(i, v)
          /\ \/ /\ CreateTrialsForItem(i)
                /\ phase' = "sort"
                /\ totalVisits' = totalVisits \ {FirstDemand(i), FirstPrice(i)}
                /\ UNCHANGED <<registration, justRemoved, mGlobalOrdering, toSplit, mIndexed, mCalcList>>
             \/ TrialsFail(i)
  BY <1>1
<1>3. v \in Uncleared /\ Breakable(v) /\ OnCycle(Waits, v)
  BY <1>0, <1>1, ChosenOnCycle
<1>4. RInv /\ TypeOK
  BY DEF IInv, RInv, TInv
<1>5. Loop(Vertices, edges, v)
  <2>1. Waits \subseteq edges /\ \A e \in Waits : e.to \in Vertices
    BY <1>4, WaitsType
  <2>2. Loop(Vertices, Waits, v)
    BY <1>3, <1>4, <2>1, LoopIs
  <2> QED BY <2>1, <2>2, LoopMore
<1>6. ~Loose(i)
  <2>1. CASE \E n \in DOMAIN mPriceVertices[i] : mPriceVertices[i][n] = v
    <3>1. HasPrice(i)
      BY <1>4, <2>1, Positions
    <3>2. ~(i \in Split \/ SetBySolver(i))
      BY <1>0, <1>5, <2>1, LoosePrices
    <3> QED BY <3>1, <3>2 DEF Loose
  <2>2. CASE \E n \in DOMAIN mDemandVertices[i] : mDemandVertices[i][n] = v
    BY <1>0, <1>5, <2>2, LooseDemands
  <2> QED BY <1>2, <2>1, <2>2 DEF Owns
<1>7. mCanBreakCycle[i]
  <2>1. PICK j \in Item : Owns(j, v) /\ mCanBreakCycle[j]
    BY <1>3 DEF Breakable
  <2>2. i = j
    BY <1>2, <1>4, <2>1, OneOwner DEF Owns, PriceVertex, DemandVertexOf
  <2> QED BY <2>1, <2>2
<1>8. MayBeSplit(i) /\ i \notin Split
  BY <1>6, <1>7 DEF Loose, SetBySolver, MayBeSplit
<1>9. ~TrialsFail(i)
  BY <1>0, <1>8, CanBeSplit
<1>10. CreateTrialsForItem(i) /\ phase' = "sort" /\ toSplit' = toSplit \ {i} /\ UNCHANGED registration
  BY <1>0, <1>2, <1>9
<1> QED BY <1>0, <1>8, <1>10, TrialsInvCreate

\* Every step keeps the books of the trial markets.
LEMMA TrialsInvStep ==
    ASSUME IInv, IInv', MarkedInv, CyclesBreakable, TrialsInv, TrialMarkets, [Next]_vars
    PROVE  TrialsInv'
<1>1. ASSUME phase = "collect", phase' = "collect" PROVE TrialsInv'
  BY <1>1 DEF TrialsInv
<1>2. ASSUME NEW d \in Declaration, AddDependency(d) PROVE TrialsInv'
  BY <1>1, <1>2 DEF AddDependency
<1>3. ASSUME NEW a \in Activity, ResolveActivityToDependency(a) PROVE TrialsInv'
  BY <1>1, <1>3 DEF ResolveActivityToDependency
<1>4. ASSUME ConnectGraph PROVE TrialsInv'
  <2>1. phase = "collect" /\ phase' = "split" /\ trials' = trials
    BY <1>4 DEF ConnectGraph
  <2>2. trials' = {}
    BY <2>1 DEF IInv, Stages
  <2>3. Split' = {}
    BY <2>2 DEF IInv, SplitInv
  <2> QED BY <2>1, <2>2, <2>3 DEF TrialsInv
<1>5. ASSUME NEW i \in Item, SplitSelfDependent(i) PROVE TrialsInv'
  BY <1>5, TrialsInvSplit
<1>6. ASSUME StartSort PROVE TrialsInv'
  BY <1>6, TrialsInvKept DEF StartSort, breaking
<1>7. ASSUME StartPass PROVE TrialsInv'
  BY <1>7, TrialsInvKept DEF StartPass, breaking
<1>8. ASSUME NEW v \in Vertices, ListRemoved(v) PROVE TrialsInv'
  BY <1>8, TrialsInvKept DEF ListRemoved, breaking
<1>9. ASSUME Finish PROVE TrialsInv'
  BY <1>9, TrialsInvKept DEF Finish, breaking
<1>10. ASSUME FindCycles PROVE TrialsInv'
  BY <1>10, TrialsInvKept DEF FindCycles
<1>11. ASSUME BreakCycle PROVE TrialsInv'
  BY <1>11, TrialsInvBreak
<1>12. ASSUME GiveUp PROVE TrialsInv'
  BY <1>12, TrialsInvKept DEF GiveUp, breaking
<1>13. ASSUME NEW k \in Asked, GetOrdering(k) PROVE TrialsInv'
  BY <1>13, TrialsInvKept DEF GetOrdering, breaking
<1>14. ASSUME UNCHANGED vars PROVE TrialsInv'
  <2>1. UNCHANGED <<phase, registration, edges, toSplit, trials>>
    BY <1>14 DEF vars, breaking
  <2>2. CASE phase = "collect"
    BY <1>1, <2>1, <2>2
  <2>3. CASE phase # "collect"
    <3>1. phase \notin {"noVertex", "noTrial"}
      BY <2>3 DEF TrialsInv
    <3> QED BY <2>1, <2>3, <3>1, TrialsInvKept
  <2> QED BY <2>2, <2>3
<1> QED
  BY <1>2, <1>3, <1>4, <1>5, <1>6, <1>7, <1>8, <1>9, <1>10, <1>11, <1>12, <1>13, <1>14 DEF Next, Stop

\* If every cycle goes through an item that may be broken, and the items that
\* may be given trial markets each have a market that can be reset, creating
\* trial markets never aborts the program: no item is split twice.
THEOREM SplitsSucceed ==
    ASSUME OwnMarketFree PROVE Spec /\ []CyclesBreakable /\ []TrialMarkets => []TrialsSucceed
<1>1. Init => TrialsInv
  BY DEF Init, TrialsInv
<1>2. IInv /\ IInv' /\ MarkedInv /\ CyclesBreakable /\ TrialsInv /\ TrialMarkets /\ [Next]_vars => TrialsInv'
  BY TrialsInvStep
<1>3. TrialsInv => TrialsSucceed
  BY DEF TrialsInv, TrialsSucceed
<1> QED BY <1>1, <1>2, <1>3, Invariance, MarkedAlways, PTL DEF Spec

-----------------------------------------------------------------------------
(* What a price reaches *)

\* Whoever declares a dependency on another item has something to calculate.
DependentsActive ==
    \A c \in Declaration : c.dependent # c.dependency => \E a \in Activity : a.item = c.dependent

\* A price the solver sets that depends on another one has a land allocator to
\* recalculate, by which its demand is reached from it.
SolvedHaveLand ==
    phase # "collect" =>
       \A i \in Item : HasPrice(i) /\ SetBySolver(i) /\ (\E j \in Item : i \in mDependentList[j])
          => mDependentList[i] \cap LandAllocator # {}

\* Dependents have a demand.
LEMMA DependentsHaveDemand ==
    ASSUME IInv, SharedInv, DependentsActive, phase # "collect", NEW i \in Item, NEW d \in mDependentList[i]
    PROVE  d \in Item /\ HasDemand(d)
<1>1. d \in Item
  BY DEF IInv, RInv, TInv, TypeOK
<1>2. PICK c \in Declaration : c.dependent = d /\ c.dependency # d
  BY DEF SharedInv
<1>3. \E a \in Activity : a.item = d
  BY <1>2 DEF DependentsActive
<1> QED BY <1>1, <1>3 DEF IInv, RInv, Registered

\* What is closed under the edges holds a chain as soon as it holds its head.
LEMMA ChainInside ==
    ASSUME IInv, phase # "collect", NEW C, Closed(edges, C), NEW i \in Item
    PROVE  /\ HasPrice(i) /\ FirstPrice(i) \in C => \A n \in DOMAIN mPriceVertices[i] : mPriceVertices[i][n] \in C
           /\ HasDemand(i) /\ FirstDemand(i) \in C => \A n \in DOMAIN mDemandVertices[i] : mDemandVertices[i][n] \in C
<1> DEFINE P == mPriceVertices[i]
           D == mDemandVertices[i]
<1>0. RInv
  BY DEF IInv
<1>1. /\ Len(P) \in Nat /\ DOMAIN P = 1..Len(P) /\ Len(D) \in Nat /\ DOMAIN D = 1..Len(D)
  BY <1>0, Positions
<1>2. \A n \in 1..(Len(P) - 1) : P[n] \in C => P[n + 1] \in C
  <2> TAKE n \in 1..(Len(P) - 1)
  <2>1. Edge(P[n], P[n + 1], "chain") \in edges
    BY ChainsKept
  <2> QED BY <2>1 DEF Closed, Edge
<1>3. \A n \in 1..(Len(D) - 1) : D[n + 1] \in C => D[n] \in C
  <2> TAKE n \in 1..(Len(D) - 1)
  <2>1. Edge(D[n + 1], D[n], "chain") \in edges
    BY ChainsKept
  <2> QED BY <2>1 DEF Closed, Edge
<1>4. ASSUME HasPrice(i), FirstPrice(i) \in C PROVE \A n \in DOMAIN P : P[n] \in C
  <2> DEFINE T == {n \in DOMAIN P : P[n] \notin C}
  <2> SUFFICES ASSUME T # {} PROVE FALSE
    OBVIOUS
  <2>1. T \in SUBSET Nat
    BY <1>1
  <2> HIDE DEF T
  <2>2. PICK m \in T : \A n \in T : m <= n
    BY <2>1, LeastNumber
  <2>3. m \in 1..Len(P) /\ P[m] \notin C
    BY <1>1, <2>2 DEF T
  <2>4. m # 1
    BY <1>4, <2>3 DEF FirstPrice
  <2>5. m - 1 \in 1..(Len(P) - 1) /\ ~(m <= m - 1) /\ (m - 1) + 1 = m
    BY <1>1, <2>3, <2>4
  <2>6. P[m - 1] \in C
    BY <1>1, <2>2, <2>5 DEF T
  <2> QED BY <1>2, <2>3, <2>5, <2>6
<1>5. ASSUME HasDemand(i), FirstDemand(i) \in C PROVE \A n \in DOMAIN D : D[n] \in C
  <2> DEFINE T == {n \in 0..(Len(D) - 1) : D[Len(D) - n] \notin C}
  <2>1. T \in SUBSET Nat
    BY <1>1
  <2>2. \A n \in T : n \in 0..(Len(D) - 1) /\ D[Len(D) - n] \notin C
    OBVIOUS
  <2>3. \A n \in 0..(Len(D) - 1) : n \in T \/ D[Len(D) - n] \in C
    OBVIOUS
  <2> HIDE DEF T
  <2>4. T = {}
    <3> SUFFICES ASSUME T # {} PROVE FALSE
      OBVIOUS
    <3>1. PICK m \in T : \A n \in T : m <= n
      BY <2>1, LeastNumber
    <3>2. m \in 0..(Len(D) - 1) /\ D[Len(D) - m] \notin C
      BY <2>2, <3>1
    <3>3. D[Len(D)] \in C
      BY <1>5 DEF FirstDemand
    <3>4. m # 0
      <4> SUFFICES ASSUME m = 0 PROVE FALSE
        OBVIOUS
      <4>1. Len(D) - m = Len(D)
        BY <1>1
      <4> QED BY <3>2, <3>3, <4>1
    <3>5. m - 1 \in 0..(Len(D) - 1) /\ ~(m <= m - 1)
      BY <1>1, <3>2, <3>4
    <3>6. D[Len(D) - (m - 1)] \in C
      BY <2>3, <3>1, <3>5
    <3>7. Len(D) - m \in 1..(Len(D) - 1) /\ Len(D) - (m - 1) = (Len(D) - m) + 1
      BY <1>1, <3>2, <3>4
    <3> QED BY <1>3, <3>2, <3>6, <3>7
  <2>5. ASSUME NEW n \in DOMAIN D PROVE D[n] \in C
    <3>1. Len(D) - n \in 0..(Len(D) - 1) /\ Len(D) - (Len(D) - n) = n
      BY <1>1
    <3> QED BY <2>3, <2>4, <3>1
  <2> QED BY <2>5
<1> QED BY <1>4, <1>5

\* An edge that createOrdering connects stays if it neither leaves the price of
\* an item that was split nor enters its demand.
LEMMA EdgeStays ==
    ASSUME IInv, phase # "collect", NEW i \in Item, NEW e,
           \/ Fold(e) \/ PriceToPrice(e) \/ PriceToDemand(e) \/ DemandToDemand(e) \/ PriceToLand(e) \/ LandToDemand(e),
           \/ HasPrice(i) /\ i \notin Split /\ e.from = LastPrice(i)
           \/ HasDemand(i) /\ e.from = LastDemand(i),
           NEW d \in Item, \/ HasPrice(d) /\ e.to = FirstPrice(d)
                           \/ HasDemand(d) /\ d \notin Split /\ e.to = FirstDemand(d)
    PROVE  e \in edges
<1>1. RInv /\ GraphInv
  BY DEF IInv
<1>2. e \in Connected
  BY <1>1, ShapeConnected
<1>3. Kept(e)
  <2> SUFFICES ASSUME NEW k \in Split PROVE e.from # LastPrice(k) /\ e.to # FirstDemand(k)
    BY DEF Kept
  <2>1. k \in Item /\ HasPrice(k) /\ HasDemand(k)
    BY <1>1 DEF Split, RInv, TInv
  <2>2. PriceVertex(k, LastPrice(k)) /\ DemandVertexOf(k, FirstDemand(k))
    BY <1>1, <2>1, Ends
  <2>3. e.from # LastPrice(k)
    <3>1. CASE HasPrice(i) /\ i \notin Split /\ e.from = LastPrice(i)
      <4>1. PriceVertex(i, LastPrice(i))
        BY <1>1, <3>1, Ends
      <4> QED BY <1>1, <2>1, <2>2, <3>1, <4>1, OneOwner
    <3>2. CASE HasDemand(i) /\ e.from = LastDemand(i)
      <4>1. DemandVertexOf(i, LastDemand(i))
        BY <1>1, <3>2, Ends
      <4> QED BY <1>1, <2>1, <2>2, <3>2, <4>1, OneOwner
    <3> QED BY <3>1, <3>2
  <2>4. e.to # FirstDemand(k)
    <3>1. CASE HasPrice(d) /\ e.to = FirstPrice(d)
      <4>1. PriceVertex(d, FirstPrice(d))
        BY <1>1, <3>1, Ends
      <4> QED BY <1>1, <2>1, <2>2, <3>1, <4>1, OneOwner
    <3>2. CASE HasDemand(d) /\ d \notin Split /\ e.to = FirstDemand(d)
      <4>1. DemandVertexOf(d, FirstDemand(d))
        BY <1>1, <3>2, Ends
      <4> QED BY <1>1, <2>1, <2>2, <3>2, <4>1, OneOwner
    <3> QED BY <3>1, <3>2
  <2> QED BY <2>3, <2>4
<1> QED BY <1>1, <1>2, <1>3 DEF GraphInv

\* In the order the graph ends up with, a price comes before the price of a
\* dependent, to its last vertex.
LEMMA LaterPrice ==
    ASSUME IInv, phase # "collect", Vertices \subseteq Listed, NEW i \in mDependencyItems, NEW d \in mDependentList[i],
           HasPrice(i), HasPrice(d), ~SetBySolver(i), i \notin Split
    PROVE  Pos(LastPrice(i)) < Pos(LastPrice(d)) /\ Pos(LastPrice(i)) \in Nat /\ Pos(LastPrice(d)) \in Nat
<1>1. RInv /\ Places /\ d \in Item /\ i \in Item
  BY DEF IInv, RInv, TInv, TypeOK
<1>2. /\ Len(mPriceVertices[d]) \in DOMAIN mPriceVertices[d] /\ 1 \in DOMAIN mPriceVertices[d]
      /\ LastPrice(i) \in Vertices /\ FirstPrice(d) \in Vertices /\ LastPrice(d) \in Vertices
  BY <1>1, Positions DEF FirstPrice, LastPrice
<1>3. Pos(LastPrice(i)) < Pos(FirstPrice(d))
  BY <1>1, <1>2, PriceBeforeDependents, PosBefore
<1>4. Pos(FirstPrice(d)) <= Pos(LastPrice(d))
  BY <1>1, <1>2, ChainsInOrder DEF LastPrice
<1>5. Pos(LastPrice(i)) \in Nat /\ Pos(FirstPrice(d)) \in Nat /\ Pos(LastPrice(d)) \in Nat
  BY <1>1, <1>2, PosIs
<1> QED BY <1>3, <1>4, <1>5

\* Whatever is closed under the edges and holds the price of a dependent holds
\* its demand: by its own trial market, its fold back edge, the land allocator
\* it depends on, or the price and the demand of one of its own dependents.
LEMMA PriceReachesDemand ==
    ASSUME IInv, SharedInv, DependentsActive, SolvedHaveLand, phase # "collect", Vertices \subseteq Listed,
           NEW C, Closed(edges, C), NEW j \in Item, NEW i \in mDependentList[j], HasPrice(i), FirstPrice(i) \in C
    PROVE  FirstDemand(i) \in C
<1> DEFINE B == {x \in Item : /\ HasPrice(x) /\ (\E y \in Item : x \in mDependentList[y])
                              /\ FirstPrice(x) \in C /\ FirstDemand(x) \notin C}
           N == Len(mGlobalOrdering)
           T == {n \in Nat : \E x \in B : n = N - Pos(LastPrice(x))}
<1>0. RInv /\ Places
  BY DEF IInv
<1>1. N \in Nat /\ DOMAIN mGlobalOrdering = 1..N
  BY <1>0 DEF RInv, TInv, TypeOK
<1>2. ASSUME NEW x \in B
      PROVE  /\ x \in Item /\ HasPrice(x) /\ HasDemand(x) /\ x \in mDependencyItems
             /\ PriceVertex(x, LastPrice(x)) /\ LastPrice(x) \in C
             /\ N - Pos(LastPrice(x)) \in T /\ Pos(LastPrice(x)) \in Nat
  <2>1. x \in Item /\ HasPrice(x) /\ HasDemand(x) /\ x \in mDependencyItems
    BY <1>0 DEF RInv, TInv, Registered
  <2>2. Len(mPriceVertices[x]) \in DOMAIN mPriceVertices[x] /\ LastPrice(x) \in Vertices
    BY <1>0, <2>1, Positions DEF LastPrice
  <2>3. LastPrice(x) \in C
    BY <2>1, <2>2, ChainInside DEF LastPrice
  <2>4. Pos(LastPrice(x)) \in 1..N
    BY <1>0, <1>1, <2>2, PosIs
  <2>5. N - Pos(LastPrice(x)) \in Nat /\ Pos(LastPrice(x)) \in Nat
    BY <1>1, <2>4
  <2>6. PriceVertex(x, LastPrice(x))
    BY <1>0, <2>1, Ends
  <2>7. N - Pos(LastPrice(x)) \in T
    BY <2>5
  <2> QED BY <2>1, <2>3, <2>5, <2>6, <2>7
<1>3. ASSUME NEW x \in B PROVE \E y \in B : Pos(LastPrice(y)) > Pos(LastPrice(x))
  <2>0. /\ x \in Item /\ HasPrice(x) /\ HasDemand(x) /\ x \in mDependencyItems /\ LastPrice(x) \in C
        /\ FirstDemand(x) \notin C /\ \E y \in Item : x \in mDependentList[y]
    BY <1>2
  <2>1. x \notin Split
    <3> SUFFICES ASSUME x \in Split PROVE FALSE
      OBVIOUS
    <3>1. TrialEdge(x) \in edges
      BY DEF Split
    <3> QED BY <2>0, <3>1, TrialIs DEF Closed
  <2>2. \A e \in edges : e.from \in C => e.to \in C
    BY DEF Closed
  <2>3. ASSUME NEW d \in mDependentList[x] PROVE d \in Item /\ HasDemand(d)
    BY <2>0, DependentsHaveDemand
  <2>4. \A d \in Item : HasDemand(d) /\ FirstDemand(d) \in C => LastDemand(d) \in C
    <3> TAKE d \in Item
    <3> HAVE HasDemand(d) /\ FirstDemand(d) \in C
    <3>1. 1 \in DOMAIN mDemandVertices[d]
      BY <1>0, Positions
    <3> QED BY <3>1, ChainInside DEF LastDemand
  <2>5. CASE SetBySolver(x)
    <3>1. PICK l \in mDependentList[x] \cap LandAllocator : TRUE
      BY <2>0, <2>5 DEF SolvedHaveLand
    <3>2. l \in Item /\ HasDemand(l) /\ ~HasPrice(l) /\ l \notin Split
      BY <1>0, <3>1, OnlyDemands DEF Split
    <3> DEFINE e == Edge(LastPrice(x), FirstDemand(l), "land")
               g == Edge(LastDemand(l), FirstDemand(x), "land")
    <3>3. PriceToLand(e) /\ LandToDemand(g)
      BY <2>0, <2>5, <3>1 DEF PriceToLand, LandToDemand, SetBySolver
    <3>4. e.from = LastPrice(x) /\ e.to = FirstDemand(l) /\ g.from = LastDemand(l) /\ g.to = FirstDemand(x)
      BY DEF Edge
    <3> HIDE DEF e, g
    <3>5. e \in edges
      BY <2>0, <2>1, <3>2, <3>3, <3>4, EdgeStays
    <3>6. g \in edges
      BY <2>0, <2>1, <3>2, <3>3, <3>4, EdgeStays
    <3> QED BY <2>0, <2>2, <2>4, <3>2, <3>4, <3>5, <3>6
  <2>6. CASE ~SetBySolver(x) /\ mDependentList[x] = {}
    <3> DEFINE e == Edge(LastPrice(x), FirstDemand(x), "depend")
    <3>1. Fold(e)
      BY <2>0, <2>6 DEF Fold
    <3>2. e.from = LastPrice(x) /\ e.to = FirstDemand(x)
      BY DEF Edge
    <3> HIDE DEF e
    <3>3. e \in edges
      BY <2>0, <2>1, <3>1, <3>2, EdgeStays
    <3> QED BY <2>0, <2>2, <3>2, <3>3
  <2>7. CASE ~SetBySolver(x) /\ mDependentList[x] # {}
    <3>1. PICK d \in mDependentList[x] : d \in Item /\ HasDemand(d)
      BY <2>3, <2>7
    <3> DEFINE g == Edge(LastDemand(d), FirstDemand(x), "depend")
    <3>2. DemandToDemand(g) /\ g.from = LastDemand(d) /\ g.to = FirstDemand(x)
      BY <2>0, <2>7, <3>1 DEF DemandToDemand, Edge
    <3> HIDE DEF g
    <3>3. g \in edges
      BY <2>0, <2>1, <3>1, <3>2, EdgeStays
    <3>4. FirstDemand(d) \notin C
      BY <2>0, <2>2, <2>4, <3>1, <3>2, <3>3
    <3>5. HasPrice(d)
      <4> SUFFICES ASSUME ~HasPrice(d) PROVE FALSE
        OBVIOUS
      <4> DEFINE e == Edge(LastPrice(x), FirstDemand(d), "depend")
      <4>1. PriceToDemand(e) /\ e.from = LastPrice(x) /\ e.to = FirstDemand(d)
        BY <2>0, <2>7, <3>1 DEF PriceToDemand, Edge
      <4>2. d \notin Split
        BY DEF Split
      <4> HIDE DEF e
      <4>3. e \in edges
        BY <2>0, <2>1, <3>1, <4>1, <4>2, EdgeStays
      <4> QED BY <2>0, <2>2, <3>4, <4>1, <4>3
    <3>6. FirstPrice(d) \in C
      <4> DEFINE e == Edge(LastPrice(x), FirstPrice(d), "depend")
      <4>1. PriceToPrice(e) /\ e.from = LastPrice(x) /\ e.to = FirstPrice(d)
        BY <2>0, <2>7, <3>1, <3>5 DEF PriceToPrice, Edge
      <4> HIDE DEF e
      <4>2. e \in edges
        BY <2>0, <2>1, <3>1, <3>5, <4>1, EdgeStays
      <4> QED BY <2>0, <2>2, <4>1, <4>2
    <3>7. d \in B
      BY <2>0, <3>1, <3>4, <3>5, <3>6
    <3>8. Pos(LastPrice(x)) < Pos(LastPrice(d)) /\ Pos(LastPrice(x)) \in Nat /\ Pos(LastPrice(d)) \in Nat
      BY <2>0, <2>1, <2>7, <3>1, <3>5, LaterPrice
    <3> HIDE DEF B
    <3> QED BY <3>7, <3>8
  <2> QED BY <2>5, <2>6, <2>7
<1>4. B = {}
  <2> SUFFICES ASSUME B # {} PROVE FALSE
    OBVIOUS
  <2>1. T \in SUBSET Nat /\ \A n \in T : \E x \in B : n = N - Pos(LastPrice(x))
    OBVIOUS
  <2>2. T # {}
    BY <1>2
  <2> HIDE DEF T, B
  <2>3. PICK m \in T : \A n \in T : m <= n
    BY <2>1, <2>2, LeastNumber
  <2>4. PICK x \in B : m = N - Pos(LastPrice(x))
    BY <2>1
  <2>5. PICK y \in B : Pos(LastPrice(y)) > Pos(LastPrice(x))
    BY <1>3
  <2>6. N - Pos(LastPrice(y)) \in T /\ Pos(LastPrice(y)) \in Nat /\ Pos(LastPrice(x)) \in Nat
    BY <1>2
  <2>7. m <= N - Pos(LastPrice(y))
    BY <2>3, <2>6
  <2> HIDE DEF N
  <2> QED BY <1>1, <2>4, <2>5, <2>6, <2>7
<1>5. i \in Item
  BY DependentsHaveDemand
<1> QED BY <1>4, <1>5

-----------------------------------------------------------------------------
(* Entry points *)

\* Where the recalculation of an item begins.
FirstOf(d) == IF HasPrice(d) THEN FirstPrice(d) ELSE FirstDemand(d)

\* The entry points of a solved market are those its items began with, and those
\* of a trial market lead to all the dependents its item had.
EntryInv ==
    phase # "collect" =>
       /\ \A i \in mDependencyItems : MarketOf[i] # NoMarket => Entry(MarketOf[i], "price") \in DOMAIN mImpliedVertices
       /\ \A m \in trials : \E i \in Split : MarketOf[i] = m
       /\ \A i \in mDependencyItems : IsSolved(i) =>
             EntryPoints(i, mDependentList[i]) \subseteq mImpliedVertices[Entry(MarketOf[i], "price")]
       /\ \A i \in Split : \A d \in mDependentList[i] :
             HasDemand(d) => FirstOf(d) \in mImpliedVertices[Entry(MarketOf[i], "price")]

\* Items the marketplace knows a solved or a trial market of are linked.
LEMMA MarketsFound ==
    ASSUME IInv, NEW i \in Item
    PROVE  IsSolved(i) \/ i \in Split => MarketOf[i] # NoMarket
<1>1. Solved \subseteq Market /\ Normal \subseteq Market /\ NoMarket \notin Market
  BY ConstantsAssumption
<1>2. i \in Split => MarketOf[i] \in Normal
  BY DEF IInv, SplitInv
<1> QED BY <1>1, <1>2 DEF IsSolved

\* Connecting the graph gives every market its entry points.
LEMMA EntryConnectGraph ==
    ASSUME IInv, IInv', ConnectGraph PROVE EntryInv'
<1>1. /\ phase = "collect" /\ mDependentList' = SharedDependents
      /\ mDependencyItems' = mDependencyItems /\ trials' = trials
      /\ mDemandVertices' = mDemandVertices /\ mPriceVertices' = mPriceVertices
      /\ mImpliedVertices' =
            [k \in {Entry(m, "price") : m \in Linked} |->
               UNION {EntryPoints(i, SharedDependents[i]) :
                        i \in {j \in mDependencyItems : MarketOf[j] = k[1] /\ IsSolved(j)}}]
  BY DEF ConnectGraph
<1>2. trials' = {} /\ Split' = {}
  <2>1. trials = {}
    BY <1>1 DEF IInv, Stages
  <2>2. \A i \in Split' : MarketOf[i] \in trials'
    BY DEF IInv, SplitInv
  <2> QED BY <1>1, <2>1, <2>2
<1>3. \A i \in mDependencyItems : MarketOf[i] # NoMarket => Entry(MarketOf[i], "price") \in DOMAIN mImpliedVertices'
  BY <1>1 DEF Linked
<1>4. ASSUME NEW i \in mDependencyItems, IsSolved(i)
      PROVE  EntryPoints(i, SharedDependents[i]) \subseteq mImpliedVertices'[Entry(MarketOf[i], "price")]
  <2>1. i \in Item
    BY DEF IInv, RInv, TInv, TypeOK
  <2>2. Entry(MarketOf[i], "price") \in {Entry(m, "price") : m \in Linked} /\ Entry(MarketOf[i], "price")[1] = MarketOf[i]
    BY <1>4, <2>1, MarketsFound DEF Linked, Entry
  <2> QED BY <1>1, <1>4, <2>2
<1>5. \A i : EntryPoints(i, mDependentList[i])' = EntryPoints(i, SharedDependents[i])
  BY <1>1 DEF EntryPoints, HasPrice, HasDemand, FirstPrice, FirstDemand
<1>6. \A i : IsSolved(i)' = IsSolved(i)
  BY DEF IsSolved
<1> QED BY <1>1, <1>2, <1>3, <1>4, <1>5, <1>6 DEF EntryInv

\* A split leads from the trial price to all the dependents of its item.
LEMMA EntryCreate ==
    ASSUME IInv, EntryInv, phase # "collect", NEW i \in Item, CreateTrialsForItem(i), UNCHANGED registration
    PROVE  EntryInv'
<1>0. RInv /\ GraphInv /\ SplitInv
  BY DEF IInv
<1>1. Split' = Split \cup {i} /\ trials' = trials \cup {MarketOf[i]}
  BY <1>0, GraphAfterSplit DEF CreateTrialsForItem
<1>2. Splittable(i) /\ i \notin Split /\ ~SetBySolver(i) /\ i \in mDependencyItems
  BY <1>0, BeforeSplit DEF CreateTrialsForItem, Splittable
<1>3. /\ mDependencyItems' = mDependencyItems /\ mDependentList' = mDependentList
      /\ mDemandVertices' = mDemandVertices /\ mPriceVertices' = mPriceVertices
  BY DEF registration
<1> DEFINE price == Entry(MarketOf[i], "price")
           demand == Entry(MarketOf[i], "demand")
           old(k) == IF k \in DOMAIN mImpliedVertices THEN mImpliedVertices[k] ELSE {}
<1>4. mImpliedVertices' = [k \in DOMAIN mImpliedVertices \cup {demand} |->
            old(k) \cup
            (IF k = price THEN {FirstPrice(i)} \cup {e.to : e \in Released(i)}
             ELSE IF k = demand THEN {FirstDemand(i)} \cup KeptFixed(i) ELSE {})]
  BY DEF CreateTrialsForItem, SplitImplied
<1>5. /\ DOMAIN mImpliedVertices \subseteq DOMAIN mImpliedVertices'
      /\ \A k \in DOMAIN mImpliedVertices : mImpliedVertices[k] \subseteq mImpliedVertices'[k]
  BY <1>4
<1>6. MarketOf[i] # NoMarket /\ price \in DOMAIN mImpliedVertices
  <2>1. MarketOf[i] \in Normal
    BY <1>2 DEF Splittable, CanReset
  <2>2. MarketOf[i] # NoMarket
    BY <2>1, ConstantsAssumption
  <2> QED BY <1>2, <2>2 DEF EntryInv
<1>7. {e.to : e \in Released(i)} \subseteq mImpliedVertices'[price]
  BY <1>4, <1>6
<1> HIDE DEF old
<1>8. ASSUME NEW d \in mDependentList[i], HasDemand(d) PROVE FirstOf(d) \in mImpliedVertices'[price]
  <2>1. d \in Item
    BY <1>0 DEF RInv, TInv, TypeOK
  <2> DEFINE e == Edge(LastPrice(i), FirstOf(d), "depend")
  <2>2. e.from = LastPrice(i) /\ e.to = FirstOf(d)
    BY DEF Edge
  <2>3. PriceToPrice(e) \/ PriceToDemand(e)
    BY <1>2, <1>8 DEF PriceToPrice, PriceToDemand, FirstOf, Splittable
  <2>4. HasPrice(d) \/ d \notin Split
    BY DEF Split
  <2> HIDE DEF e
  <2>5. e \in edges
    BY <1>2, <1>8, <2>1, <2>2, <2>3, <2>4, EdgeStays DEF FirstOf, Splittable
  <2>6. ~DemandVertex(e.from)
    <3>1. PriceVertex(i, LastPrice(i))
      BY <1>0, <1>2, Ends DEF Splittable
    <3> QED BY <1>0, <2>2, <3>1, OneOwner, DemandVertexIs
  <2>7. e \in Released(i)
    BY <2>2, <2>5, <2>6 DEF Released, Cut, Feeding
  <2> QED BY <1>7, <2>2, <2>7
<1> HIDE DEF price, demand
<1>9. ASSUME NEW j \in Split PROVE Entry(MarketOf[j], "price") \in DOMAIN mImpliedVertices
  <2>1. j \in Item /\ j \in mDependencyItems
    BY <1>0 DEF Split, RInv, TInv, Registered
  <2> QED BY <2>1, MarketsFound DEF EntryInv
<1>10. ASSUME NEW j \in mDependencyItems, IsSolved(j)
       PROVE  EntryPoints(j, mDependentList[j]) \subseteq mImpliedVertices'[Entry(MarketOf[j], "price")]
  <2>1. j \in Item
    BY <1>0 DEF RInv, TInv, TypeOK
  <2> QED BY <1>5, <1>10, <2>1, MarketsFound DEF EntryInv
<1>11. ASSUME NEW j \in Split', NEW d \in mDependentList[j], HasDemand(d)
       PROVE  FirstOf(d) \in mImpliedVertices'[Entry(MarketOf[j], "price")]
  <2>1. CASE j = i
    BY <1>8, <1>11, <2>1 DEF price
  <2>2. CASE j # i
    BY <1>1, <1>5, <1>9, <1>11, <2>2 DEF EntryInv
  <2> QED BY <2>1, <2>2
<1>12. \A j : /\ EntryPoints(j, mDependentList[j])' = EntryPoints(j, mDependentList[j])
              /\ IsSolved(j)' = IsSolved(j) /\ HasDemand(j)' = HasDemand(j) /\ FirstOf(j)' = FirstOf(j)
  BY <1>3 DEF EntryPoints, IsSolved, HasPrice, HasDemand, FirstPrice, FirstDemand, FirstOf
<1>13. \A j \in mDependencyItems : MarketOf[j] # NoMarket => Entry(MarketOf[j], "price") \in DOMAIN mImpliedVertices'
  BY <1>5 DEF EntryInv
<1>14. \A m \in trials' : \E j \in Split' : MarketOf[j] = m
  BY <1>1 DEF EntryInv
<1> QED BY <1>3, <1>10, <1>11, <1>12, <1>13, <1>14 DEF EntryInv

\* Nothing else touches the entry points.
LEMMA EntryStep ==
    ASSUME IInv, IInv', EntryInv, [Next]_vars PROVE EntryInv'
<1>1. CASE phase' = "collect"
  BY <1>1 DEF EntryInv
<1>2. CASE ConnectGraph
  BY <1>2, EntryConnectGraph
<1>3. CASE phase' # "collect" /\ ~ConnectGraph
  <2>1. phase # "collect"
    BY <1>3 DEF Next, vars, AddDependency, ResolveActivityToDependency, SplitSelfDependent, StartSort, StartPass,
       ListRemoved, Finish, FindCycles, BreakCycle, GiveUp, GetOrdering, Stop, Ended
  <2>2. UNCHANGED registration
    BY <1>3, <2>1 DEF Next, vars, AddDependency, ResolveActivityToDependency, SplitSelfDependent, StartSort,
       StartPass, ListRemoved, Finish, FindCycles, BreakCycle, TrialsFail, GiveUp, GetOrdering, Stop
  <2>3. CASE \E i \in Item : CreateTrialsForItem(i)
    BY <2>1, <2>2, <2>3, EntryCreate
  <2>4. CASE ~\E i \in Item : CreateTrialsForItem(i)
    <3>1. UNCHANGED <<edges, trials, mImpliedVertices>>
      BY <1>3, <2>1, <2>4 DEF Next, vars, AddDependency, ResolveActivityToDependency, SplitSelfDependent, StartSort,
         StartPass, ListRemoved, Finish, FindCycles, BreakCycle, TrialsFail, GiveUp, GetOrdering, Stop, breaking
    <3>2. /\ mDependencyItems' = mDependencyItems /\ mDependentList' = mDependentList
          /\ mDemandVertices' = mDemandVertices /\ mPriceVertices' = mPriceVertices
      BY <2>2 DEF registration
    <3>3. \A j : /\ EntryPoints(j, mDependentList[j])' = EntryPoints(j, mDependentList[j])
                 /\ IsSolved(j)' = IsSolved(j) /\ HasDemand(j)' = HasDemand(j) /\ FirstOf(j)' = FirstOf(j)
      BY <3>2 DEF EntryPoints, IsSolved, HasPrice, HasDemand, FirstPrice, FirstDemand, FirstOf
    <3>4. Split' = Split
      BY <3>1, <3>2 DEF Split, HasPrice, TrialEdge, LastPrice, FirstDemand
    <3> QED BY <2>1, <3>1, <3>2, <3>3, <3>4 DEF EntryInv
  <2> QED BY <2>3, <2>4
<1> QED BY <1>1, <1>2, <1>3

-----------------------------------------------------------------------------
(* What the solver recalculates *)

\* Everything is listed once the ordering is complete, and no calculations are
\* cached before.
CacheInv ==
    /\ phase \notin {"ordered", "noMarket"} => DOMAIN mCalcList = {}
    /\ phase = "ordered" => Uncleared = {}
    /\ PriceChangeReachesDependents

\* The entry points of a market lead to the price or the demand its dependents
\* begin with.
LEMMA EntryReaches ==
    ASSUME IInv, SharedInv, EntryInv, DependentsActive, phase # "collect",
           NEW i \in mDependencyItems, MarketOf[i] \in Solved \cup trials, NEW d \in mDependentList[i],
           NEW C, Closed(edges, C), mImpliedVertices[Entry(MarketOf[i], "price")] \subseteq C
    PROVE  FirstOf(d) \in C
<1>0. RInv /\ SplitInv
  BY DEF IInv
<1>1. i \in Item /\ d \in Item /\ HasDemand(d)
  BY <1>0, DependentsHaveDemand DEF RInv, TInv, TypeOK
<1>2. CASE IsSolved(i)
  <2>1. EntryPoints(i, mDependentList[i]) \subseteq C
    BY <1>2 DEF EntryInv
  <2>2. CASE d \notin LandAllocator
    BY <1>1, <2>1, <2>2 DEF EntryPoints, FirstOf
  <2>3. CASE d \in LandAllocator
    <3>1. ~HasPrice(d) /\ d \notin Split
      BY <1>0, <2>3, OnlyDemands DEF Split
    <3>2. CASE ~HasPrice(i)
      BY <2>1, <2>3, <3>1, <3>2 DEF EntryPoints, FirstOf
    <3>3. CASE HasPrice(i)
      <4>1. Len(mPriceVertices[i]) \in DOMAIN mPriceVertices[i] /\ FirstPrice(i) \in C
        BY <1>0, <1>1, <2>1, <3>3, Positions DEF EntryPoints
      <4>2. LastPrice(i) \in C
        BY <1>1, <3>3, <4>1, ChainInside DEF LastPrice
      <4>3. i \notin Split
        <5>1. Solved \cap Normal = {}
          BY ConfigurationAssumption
        <5> QED BY <1>0, <1>2, <5>1 DEF SplitInv, IsSolved
      <4> DEFINE e == Edge(LastPrice(i), FirstDemand(d), "land")
      <4>4. PriceToLand(e) /\ e.from = LastPrice(i) /\ e.to = FirstDemand(d)
        BY <1>2, <2>3, <3>3 DEF PriceToLand, Edge
      <4> HIDE DEF e
      <4>5. e \in edges
        BY <1>1, <3>1, <3>3, <4>3, <4>4, EdgeStays
      <4> QED BY <3>1, <4>2, <4>4, <4>5 DEF Closed, FirstOf
    <3> QED BY <3>2, <3>3
  <2> QED BY <2>2, <2>3
<1>3. CASE ~IsSolved(i)
  <2>1. MarketOf[i] \in trials
    BY <1>3 DEF IsSolved
  <2>2. PICK j \in Split : MarketOf[j] = MarketOf[i]
    BY <2>1 DEF EntryInv
  <2>3. j \in mDependencyItems
    BY <1>0 DEF Split, RInv, TInv, Registered
  <2>4. MarketOf[i] # NoMarket
    BY <2>2, MarketsFound DEF Split
  <2>5. ~SetBySolver(i) /\ ~SetBySolver(j)
    BY <1>3, <2>2 DEF SetBySolver, IsSolved
  <2>6. d \in mDependentList[j]
    BY <2>2, <2>3, <2>4, <2>5 DEF SharedInv
  <2> QED BY <1>1, <2>2, <2>6 DEF EntryInv
<1> QED BY <1>2, <1>3

\* What the search from the entry points finds holds all of a dependent.
LEMMA OrderingReaches ==
    ASSUME IInv, SharedInv, EntryInv, DependentsActive, SolvedHaveLand, phase = "ordered", Uncleared = {},
           NEW i \in mDependencyItems, MarketOf[i] \in Solved \cup trials,
           Entry(MarketOf[i], "price") \in DOMAIN mImpliedVertices, NEW d \in mDependentList[i]
    PROVE  /\ \A n \in DOMAIN mPriceVertices[d] : mPriceVertices[d][n] \in PartialOrdering(Entry(MarketOf[i], "price"))
           /\ \A n \in DOMAIN mDemandVertices[d] : mDemandVertices[d][n] \in PartialOrdering(Entry(MarketOf[i], "price"))
<1> DEFINE k == Entry(MarketOf[i], "price")
           C == Reach(edges, mImpliedVertices[k])
<1>0. RInv /\ TypeOK /\ i \in Item
  BY DEF IInv, RInv, TInv, TypeOK
<1>1. Vertices = Listed
  BY DEF IInv, Places, Stages
<1>2. mImpliedVertices[k] \in SUBSET Vertices /\ \A e \in edges : e.to \in Vertices
  BY <1>0 DEF TypeOK
<1> HIDE DEF k
<1>3. mImpliedVertices[k] \subseteq C /\ C \subseteq Vertices /\ \A e \in edges : e.from \in C => e.to \in C
  BY <1>0, <1>2, ReachComplete
<1>4. PartialOrdering(k) = C
  BY <1>1, <1>3 DEF PartialOrdering
<1> HIDE DEF C
<1>5. Closed(edges, C)
  BY <1>3 DEF Closed
<1>6. FirstOf(d) \in C
  BY <1>3, <1>5, EntryReaches DEF k
<1>7. d \in Item /\ HasDemand(d)
  BY <1>0, DependentsHaveDemand
<1>8. FirstDemand(d) \in C
  BY <1>0, <1>1, <1>5, <1>6, PriceReachesDemand DEF FirstOf
<1>9. \A n \in DOMAIN mDemandVertices[d] : mDemandVertices[d][n] \in C
  BY <1>5, <1>7, <1>8, ChainInside
<1>10. \A n \in DOMAIN mPriceVertices[d] : mPriceVertices[d][n] \in C
  <2>1. CASE HasPrice(d)
    BY <1>5, <1>6, <1>7, <2>1, ChainInside DEF FirstOf
  <2>2. CASE ~HasPrice(d)
    BY <1>0, <1>7, <2>2, Positions
  <2> QED BY <2>1, <2>2
<1> QED BY <1>4, <1>9, <1>10 DEF k

\* A new partial ordering is one of these.
LEMMA CacheGetOrdering ==
    ASSUME IInv, SharedInv, EntryInv, DependentsActive, SolvedHaveLand, CacheInv, NEW k \in Asked, GetOrdering(k)
    PROVE  CacheInv'
<1>1. /\ phase = "ordered" /\ Uncleared = {} /\ phase' \in {"ordered", "noMarket"} /\ Uncleared' = {}
      /\ mDependencyItems' = mDependencyItems /\ mDependentList' = mDependentList
      /\ mDemandVertices' = mDemandVertices /\ mPriceVertices' = mPriceVertices
  BY DEF GetOrdering, CacheInv, registration, sorting, Uncleared
<1>2. CASE mCalcList' = mCalcList
  BY <1>1, <1>2 DEF CacheInv, PriceChangeReachesDependents
<1>3. CASE k \in DOMAIN mImpliedVertices /\ k \notin DOMAIN mCalcList
  <2>1. mCalcList' = [j \in DOMAIN mCalcList \cup {k} |-> IF j = k THEN PartialOrdering(k) ELSE mCalcList[j]]
    BY <1>3 DEF GetOrdering
  <2>2. /\ DOMAIN mCalcList' = DOMAIN mCalcList \cup {k} /\ mCalcList'[k] = PartialOrdering(k)
        /\ \A j \in DOMAIN mCalcList : mCalcList'[j] = mCalcList[j]
    BY <1>3, <2>1
  <2>3. ASSUME NEW i \in mDependencyItems, k = Entry(MarketOf[i], "price"), NEW d \in mDependentList[i]
        PROVE  /\ \A n \in DOMAIN mPriceVertices[d] : mPriceVertices[d][n] \in PartialOrdering(k)
               /\ \A n \in DOMAIN mDemandVertices[d] : mDemandVertices[d][n] \in PartialOrdering(k)
    <3>1. MarketOf[i] \in Solved \cup trials
      <4>1. k = <<MarketOf[i], "price">>
        BY <2>3 DEF Entry
      <4>2. k \in {<<m, "price">> : m \in Solved \cup trials} \/ k \in {<<m, "demand">> : m \in trials}
        BY DEF Asked, Entry
      <4>3. "price" # "demand"
        OBVIOUS
      <4> QED BY <4>1, <4>2, <4>3
    <3> QED BY <1>1, <1>3, <2>3, <3>1, OrderingReaches
  <2>4. PriceChangeReachesDependents'
    <3> SUFFICES ASSUME NEW j \in DOMAIN mCalcList', NEW i \in mDependencyItems, j = Entry(MarketOf[i], "price"),
                        NEW d \in mDependentList[i]
                 PROVE  /\ \A n \in DOMAIN mPriceVertices[d] : mPriceVertices[d][n] \in mCalcList'[j]
                        /\ \A n \in DOMAIN mDemandVertices[d] : mDemandVertices[d][n] \in mCalcList'[j]
      BY <1>1 DEF PriceChangeReachesDependents
    <3>1. CASE j = k
      BY <2>2, <2>3, <3>1
    <3>2. CASE j # k
      BY <2>2, <3>2 DEF CacheInv, PriceChangeReachesDependents
    <3> QED BY <3>1, <3>2
  <2> QED BY <1>1, <2>4 DEF CacheInv
<1> QED BY <1>2, <1>3 DEF GetOrdering

\* Nothing else is cached, or changes what a cached ordering has to hold.
LEMMA CacheStep ==
    ASSUME IInv, SharedInv, EntryInv, DependentsActive, SolvedHaveLand, CacheInv, [Next]_vars
    PROVE  CacheInv'
<1>1. CASE \E k \in Asked : GetOrdering(k)
  BY <1>1, CacheGetOrdering
<1>2. CASE UNCHANGED vars
  <2>1. /\ phase' = phase /\ mCalcList' = mCalcList /\ Uncleared' = Uncleared
        /\ mDependencyItems' = mDependencyItems /\ mDependentList' = mDependentList
        /\ mDemandVertices' = mDemandVertices /\ mPriceVertices' = mPriceVertices
    BY <1>2 DEF vars, registration, sorting, Uncleared
  <2> QED BY <2>1 DEF CacheInv, PriceChangeReachesDependents
<1>3. CASE Next /\ ~(\E k \in Asked : GetOrdering(k)) /\ ~UNCHANGED vars
  <2>1. phase \notin {"ordered", "noMarket"} /\ mCalcList' = mCalcList /\ phase' # "noMarket"
    BY <1>3 DEF Next, AddDependency, ResolveActivityToDependency, ConnectGraph, SplitSelfDependent, StartSort,
       StartPass, ListRemoved, Finish, FindCycles, BreakCycle, TrialsFail, GiveUp, Stop
  <2>2. DOMAIN mCalcList' = {}
    BY <2>1 DEF CacheInv
  <2>3. phase' = "ordered" => Uncleared' = {}
    BY <1>3, <2>1 DEF Next, AddDependency, ResolveActivityToDependency, ConnectGraph, SplitSelfDependent, StartSort,
       StartPass, ListRemoved, Finish, FindCycles, BreakCycle, TrialsFail, GiveUp, Stop, sorting, Uncleared
  <2> QED BY <2>2, <2>3 DEF CacheInv, PriceChangeReachesDependents
<1> QED BY <1>1, <1>2, <1>3

\* Whoever declared a dependency on a price is recalculated, price and demands,
\* when the solver changes it: if all who declare one have something to
\* calculate, and a solved price that depends on others has a land allocator
\* among its dependents.
THEOREM PriceChangesReach ==
    ASSUME DependentsActive PROVE Spec /\ []SolvedHaveLand => []PriceChangeReachesDependents
<1>1. Init => EntryInv /\ CacheInv
  BY DEF Init, EntryInv, CacheInv, PriceChangeReachesDependents
<1>2. IInv /\ IInv' /\ SharedInv /\ SolvedHaveLand /\ EntryInv /\ CacheInv /\ [Next]_vars => EntryInv' /\ CacheInv'
  BY EntryStep, CacheStep
<1>3. CacheInv => PriceChangeReachesDependents
  BY DEF CacheInv
<1> QED BY <1>1, <1>2, <1>3, Invariance, SharingInvariance, PTL DEF Spec

=============================================================================
