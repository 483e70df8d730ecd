-------------------------- MODULE CalcOrdering_proofs --------------------------
(***************************************************************************)
(* What every implementation of CalcOrdering inherits.                     *)
(***************************************************************************)
EXTENDS CalcOrdering, Integers, TLAPS

\* The vertices of the extended list are those listed before and v.
LEMMA ListedAfterList ==
    ASSUME TypeOK, NEW v \in Vertex, List(v)
    PROVE  /\ order' = Append(order, v) /\ Len(order') = Len(order) + 1 /\ Len(order) \in Nat
           /\ order'[Len(order) + 1] = v
           /\ \A j \in 1..Len(order) : j \in DOMAIN order /\ order'[j] = order[j]
           /\ DOMAIN order' = 1..(Len(order) + 1) /\ DOMAIN order = 1..Len(order)
           /\ graph' = graph
BY DEF TypeOK, List

\* The graph joins calculations and the list holds nothing else.
THEOREM TypeCorrect == Spec => []TypeOK
<1>1. Init => TypeOK
  BY DEF Init, TypeOK
<1>2. TypeOK /\ [Next]_vars => TypeOK'
  BY DEF TypeOK, Next, List, Restructure, vars
<1> QED
  BY <1>1, <1>2, PTL DEF Spec

\* No calculation is listed twice: one pass over the list computes each price
\* and each demand once.
THEOREM ListedOnce == Spec => []NoneTwice
<1>1. Init => NoneTwice
  BY DEF Init, NoneTwice
<1>2. TypeOK /\ NoneTwice /\ [Next]_vars => NoneTwice'
  <2> SUFFICES ASSUME TypeOK, NoneTwice, [Next]_vars PROVE NoneTwice'
    OBVIOUS
  <2>1. CASE Restructure \/ UNCHANGED vars
    BY <2>1 DEF Restructure, vars, NoneTwice
  <2>2. ASSUME NEW v \in Vertex, List(v) PROVE NoneTwice'
    <3>1. \A j \in DOMAIN order : order[j] # v
      BY <2>2 DEF List, Listed
    <3> QED BY <2>2, <3>1, ListedAfterList DEF NoneTwice
  <2> QED BY <2>1, <2>2 DEF Next
<1> QED
  BY <1>1, <1>2, TypeCorrect, PTL DEF Spec

\* Whatever a listed calculation depends on was listed before it, however often
\* the graph was restructured below the list.
THEOREM OrderRespected == Spec => []DependenciesFirst
<1>1. Init => DependenciesFirst
  BY DEF Init, DependenciesFirst
<1>2. TypeOK /\ DependenciesFirst /\ [Next]_vars => DependenciesFirst'
  <2> SUFFICES ASSUME TypeOK, DependenciesFirst, [Next]_vars PROVE DependenciesFirst'
    OBVIOUS
  <2>1. CASE UNCHANGED vars
    BY <2>1 DEF vars, DependenciesFirst
  <2>2. CASE Restructure
    <3> SUFFICES ASSUME NEW j \in DOMAIN order, NEW u \in Vertex, <<u, order[j]>> \in graph'
                 PROVE  \E i \in 1..(j - 1) : order[i] = u
      BY <2>2 DEF Restructure, DependenciesFirst
    <3>1. order[j] \in Listed
      BY DEF Listed
    <3>2. <<u, order[j]>> \in graph
      BY <2>2, <3>1 DEF Restructure
    <3> QED BY <3>2 DEF DependenciesFirst
  <2>3. ASSUME NEW v \in Vertex, List(v) PROVE DependenciesFirst'
    <3> SUFFICES ASSUME NEW j \in 1..(Len(order) + 1), NEW u \in Vertex, <<u, order'[j]>> \in graph
                 PROVE  \E i \in 1..(j - 1) : order'[i] = u
      BY <2>3, ListedAfterList DEF DependenciesFirst
    <3>1. CASE j \in 1..Len(order)
      <4>1. j \in DOMAIN order /\ <<u, order[j]>> \in graph
        BY <2>3, <3>1, ListedAfterList
      <4>2. PICK i \in 1..(j - 1) : order[i] = u
        BY <4>1 DEF DependenciesFirst
      <4>3. i \in 1..Len(order)
        BY <2>3, <3>1, ListedAfterList
      <4> QED BY <2>3, <4>2, <4>3, ListedAfterList
    <3>2. CASE j = Len(order) + 1
      <4>1. PICK i \in DOMAIN order : order[i] = u
        BY <2>3, <3>2, ListedAfterList DEF List, Listed
      <4> QED BY <2>3, <3>2, <4>1, ListedAfterList
    <3> QED BY <2>3, <3>1, <3>2, ListedAfterList
  <2> QED BY <2>1, <2>2, <2>3 DEF Next
<1> QED
  BY <1>1, <1>2, TypeCorrect, PTL DEF Spec

================================================================================
