--------------------------- MODULE FlowGraph_proofs ---------------------------
(***************************************************************************)
(* For every graph, number of threads and number of calls: the parallel    *)
(* World::calc calculates each activity once per call and never before, or *)
(* together with, one it depends on, and it implements WorldCalc.          *)
(***************************************************************************)
EXTENDS FlowGraph, FiniteSetTheorems, WellFoundedInduction, TLAPS

-----------------------------------------------------------------------------
(* The graph                                                               *)

\* Every nonempty set of vertices has a smallest one.
LEMMA SmallestVertex ==
    ASSUME ConstantsAssumption, NEW T \in SUBSET Vertex, T # {}
    PROVE  \E v \in T : \A u \in T : ~(u < v)
<1>1. IsWellFoundedOn(OpToRel(<, Nat), Nat)
  BY NatLessThanWellFounded
<1>2. T \subseteq Nat
  BY DEF ConstantsAssumption, Vertex
<1>3. \E v \in T : \A u \in T : <<u, v>> \notin OpToRel(<, Nat)
  BY <1>1, <1>2, WFMin, Zenon
<1> QED
  BY <1>2, <1>3 DEF OpToRel

\* The edges of the flow graph lead from the head or a smaller vertex to a
\* vertex, and a vertex has finitely many of them.
LEMMA FlowEdgesType ==
    ASSUME ConstantsAssumption, TypeOK
    PROVE  /\ \A e \in FlowEdges : /\ e = <<e[1], e[2]>> /\ e[2] \in Vertex
                                   /\ e[1] = Head \/ (e[1] \in Vertex /\ e[1] < e[2])
           /\ \A v \in Vertex : EdgesInto(v) # {}
           /\ \A v \in Vertex : IsFiniteSet(EdgesInto(v))
<1>1. \A e \in FlowEdges : /\ e = <<e[1], e[2]>> /\ e[2] \in Vertex
                           /\ e[1] = Head \/ (e[1] \in Vertex /\ e[1] < e[2])
  BY DEF FlowEdges, HeadEdges, TypeOK
<1>2. ASSUME NEW v \in Vertex PROVE EdgesInto(v) # {}
  <2>1. CASE IsSourceNode(v)
    <3>1. <<Head, v>> \in EdgesInto(v)
      BY <2>1 DEF EdgesInto, FlowEdges, HeadEdges
    <3> QED BY <3>1
  <2>2. CASE ~IsSourceNode(v)
    <3>1. PICK u \in Vertex : <<u, v>> \in mOutEdges
      BY <2>2 DEF IsSourceNode
    <3>2. <<u, v>> \in EdgesInto(v)
      BY <3>1 DEF EdgesInto, FlowEdges
    <3> QED BY <3>2
  <2> QED BY <2>1, <2>2
<1>3. ASSUME NEW v \in Vertex PROVE IsFiniteSet(EdgesInto(v))
  <2>1. Size \in Int /\ 0 \in Int /\ 1 \in Int
    BY DEF ConstantsAssumption
  <2>2. IsFiniteSet(0..Size) /\ IsFiniteSet(1..Size)
    BY <2>1, FS_Interval
  <2>3. IsFiniteSet((0..Size) \X (1..Size))
    BY <2>2, FS_Product
  <2>4. EdgesInto(v) \subseteq (0..Size) \X (1..Size)
    BY <1>1, <2>1 DEF EdgesInto, Vertex, Head
  <2> QED BY <2>3, <2>4, FS_Subset
<1> QED BY <1>1, <1>2, <1>3

\* The head feeds only vertices nobody else feeds, and no edge leads to it.
LEMMA GraphUnchanged ==
    ASSUME mOutEdges' = mOutEdges
    PROVE  /\ FlowEdges' = FlowEdges /\ HeadEdges' = HeadEdges
           /\ \A v \in Vertex : EdgesInto(v)' = EdgesInto(v) /\ EdgesOutOf(v)' = EdgesOutOf(v)
BY DEF FlowEdges, HeadEdges, IsSourceNode, EdgesInto, EdgesOutOf

-----------------------------------------------------------------------------
(* Type correctness                                                        *)

LEMMA TypeInit == ConstantsAssumption /\ Init => TypeOK
<1> SUFFICES ASSUME ConstantsAssumption, Init PROVE TypeOK
  OBVIOUS
<1>1. mOutEdges \subseteq {e \in Vertex \X Vertex : e[1] < e[2]}
  BY DEF Init
<1>2. call \in 0..MaxCalls /\ mCalcCounter \in Nat
  BY DEF Init, ConstantsAssumption
<1>5. calling \in BOOLEAN /\ aCalcList \subseteq Vertex
  BY DEF Init
<1>3. inFlight \subseteq FlowEdges
  BY DEF Init
<1>4. /\ received \in [Vertex -> Nat] /\ spawned \in [Vertex -> Nat]
      /\ running \in [Vertex -> Nat] /\ calculated \in [Vertex -> Nat]
  BY DEF Init
<1> QED BY <1>1, <1>2, <1>3, <1>4, <1>5 DEF TypeOK

LEMMA TypeStep ==
    ASSUME ConstantsAssumption, TypeOK, [Next]_vars
    PROVE  TypeOK'
<1>1. \A e \in FlowEdges : e[2] \in Vertex
  BY FlowEdgesType
<1>2. CASE \E list \in CalcLists : Calc(list)
  <2>1. PICK list \in CalcLists : Calc(list)
    BY <1>2
  <2>2. IsFiniteSet(Vertex)
    BY FS_Interval, 1 \in Int, Size \in Int DEF Vertex, ConstantsAssumption
  <2>3. list \subseteq Vertex /\ Cardinality(list) \in Nat
    BY <2>2, FS_Subset, FS_CardinalityType DEF ConstantsAssumption
  <2>4. inFlight' \subseteq FlowEdges'
    BY <2>1, GraphUnchanged DEF Calc, FlowEdges
  <2>5. call' \in 0..MaxCalls /\ mCalcCounter' \in Nat
    BY <2>1, <2>3 DEF Calc, TypeOK, ConstantsAssumption
  <2> QED BY <2>1, <2>3, <2>4, <2>5 DEF Calc, TypeOK
<1>3. CASE \E e \in inFlight : Deliver(e)
  <2>1. PICK e \in inFlight : Deliver(e)
    BY <1>3
  <2>2. e[2] \in Vertex
    BY <1>1 DEF TypeOK
  <2>3. inFlight' \subseteq FlowEdges'
    BY <2>1, GraphUnchanged DEF Deliver, TypeOK
  <2>4. received' \in [Vertex -> Nat] /\ spawned' \in [Vertex -> Nat]
    BY <2>1, <2>2 DEF Deliver, TypeOK
  <2> QED BY <2>1, <2>3, <2>4 DEF Deliver, TypeOK
<1>4. ASSUME NEW v \in Vertex, Start(v) PROVE TypeOK'
  <2>1. inFlight' \subseteq FlowEdges'
    BY <1>4, GraphUnchanged DEF Start, TypeOK
  <2>2. spawned' \in [Vertex -> Nat] /\ running' \in [Vertex -> Nat]
    BY <1>4 DEF Start, TypeOK
  <2> QED BY <1>4, <2>1, <2>2 DEF Start, TypeOK
<1>5. ASSUME NEW v \in Vertex, Finish(v) PROVE TypeOK'
  <2>1. inFlight' \subseteq FlowEdges'
    BY <1>5, GraphUnchanged DEF Finish, TypeOK, EdgesOutOf
  <2>2. running' \in [Vertex -> Nat] /\ calculated' \in [Vertex -> Nat]
    BY <1>5 DEF Finish, TypeOK
  <2> QED BY <1>5, <2>1, <2>2 DEF Finish, TypeOK
<1>6. CASE Return
  BY <1>6, GraphUnchanged DEF Return, TypeOK
<1>7. CASE UNCHANGED vars
  BY <1>7, GraphUnchanged DEF vars, TypeOK
<1> QED
  BY <1>2, <1>3, <1>4, <1>5, <1>6, <1>7 DEF Next, Threads, Stop

\* Every variable of the parallel calculation keeps its type.
THEOREM TypeCorrect == Spec => []TypeOK
<1>1. Init => TypeOK
  BY TypeInit, ConstantsAssumption
<1>2. TypeOK /\ [Next]_vars => TypeOK'
  BY TypeStep, ConstantsAssumption
<1> QED
  BY <1>1, <1>2, PTL DEF Spec

-----------------------------------------------------------------------------
(* The inductive invariant, one lemma for each action                      *)

LEMMA InvInit == ConstantsAssumption /\ Init => IInv
BY TypeInit DEF Init, IInv, Idle

\* A new call: all messages are those of the head, and nothing has arrived.
LEMMA InvCalc ==
    ASSUME ConstantsAssumption, IInv, TypeOK', NEW list \in CalcLists, Calc(list)
    PROVE  IInv'
<1>1. /\ calling' /\ call' = call + 1 /\ call \in Nat /\ inFlight' = HeadEdges
      /\ calculated' = calculated /\ spawned' = spawned /\ running' = running
      /\ received' = received /\ mOutEdges' = mOutEdges
  BY DEF Calc, IInv, TypeOK, ConstantsAssumption
<1>2. /\ \A v \in Vertex : /\ calculated[v] = call /\ received[v] = 0
                           /\ spawned[v] = 0 /\ running[v] = 0
  BY DEF Calc, IInv, Idle
<1>3. \A e \in inFlight' : SourceDone(e)'
  BY <1>1 DEF SourceDone, HeadEdges, Head
<1>4. ASSUME NEW v \in Vertex PROVE Waiting(v)'
  <2>1. /\ \A e \in EdgesInto(v) : /\ e = <<e[1], e[2]>>
                                   /\ e[1] = Head \/ (e[1] \in Vertex /\ e[1] < e[2])
        /\ EdgesInto(v) # {}
    BY FlowEdgesType DEF IInv, EdgesInto
  <2>2. EdgesInto(v)' = EdgesInto(v)
    BY <1>1, GraphUnchanged
  <2>3. ASSUME NEW e \in EdgesInto(v) PROVE ~(SourceDone(e)' /\ e \notin inFlight')
    <3>1. CASE e[1] = Head
      <4>1. e \notin mOutEdges
        BY <3>1 DEF IInv, TypeOK, Vertex, Head
      <4>2. e \in HeadEdges
        BY <4>1 DEF EdgesInto, FlowEdges
      <4> QED BY <1>1, <4>2
    <3>2. CASE e[1] \in Vertex
      <4>1. e[1] # Head
        BY <3>2 DEF Vertex, Head
      <4> QED BY <1>1, <1>2, <3>2, <4>1 DEF SourceDone
    <3> QED BY <2>1, <3>1, <3>2
  <2>4. Arrived(v)' = {}
    BY <2>2, <2>3 DEF Arrived
  <2>5. Cardinality(Arrived(v)') = 0
    BY <2>4, FS_EmptySet
  <2> QED BY <1>1, <1>2, <2>1, <2>2, <2>4, <2>5 DEF Waiting
<1> QED
  BY <1>1, <1>3, <1>4 DEF IInv

\* A message arrives at a vertex that waits for it; no other vertex notices.
LEMMA InvDeliver ==
    ASSUME ConstantsAssumption, IInv, TypeOK', NEW e \in inFlight, Deliver(e)
    PROVE  IInv'
<1> DEFINE v == e[2]
<1>1. /\ mOutEdges' = mOutEdges /\ call' = call /\ calling' = calling
      /\ calculated' = calculated /\ running' = running /\ inFlight' = inFlight \ {e}
  BY DEF Deliver
<1>2. e \in FlowEdges /\ v \in Vertex /\ e \in EdgesInto(v)
  BY FlowEdgesType DEF IInv, TypeOK, EdgesInto
<1>3. calling /\ SourceDone(e) /\ Waiting(v)
  BY <1>2 DEF IInv, Idle, Fired, Arrived
<1>4. \A f : SourceDone(f)' <=> SourceDone(f)
  BY <1>1 DEF SourceDone
<1>5. \A w \in Vertex : EdgesInto(w)' = EdgesInto(w)
  BY <1>1, GraphUnchanged
<1>6. ASSUME NEW w \in Vertex, w # v PROVE Waiting(w)' \/ Fired(w)'
  <2>1. e \notin EdgesInto(w)
    BY <1>6 DEF EdgesInto
  <2>2. Arrived(w)' = Arrived(w)
    BY <1>1, <1>4, <1>5, <2>1 DEF Arrived
  <2>3. received'[w] = received[w] /\ spawned'[w] = spawned[w]
    BY <1>2, <1>6 DEF Deliver, IInv, TypeOK
  <2>4. Waiting(w) \/ Fired(w)
    BY <1>3 DEF IInv
  <2>5. CASE Waiting(w)
    BY <1>1, <1>5, <2>2, <2>3, <2>5 DEF Waiting
  <2>6. CASE Fired(w)
    BY <1>1, <1>5, <2>2, <2>3, <2>6 DEF Fired
  <2> QED BY <2>4, <2>5, <2>6
<1>7. Waiting(v)' \/ Fired(v)'
  <2>1. IsFiniteSet(EdgesInto(v)) /\ Arrived(v) \subseteq EdgesInto(v)
    BY <1>2, FlowEdgesType DEF IInv, Arrived
  <2>2. IsFiniteSet(Arrived(v)) /\ e \notin Arrived(v)
    BY <2>1, FS_Subset DEF Arrived
  <2>3. Arrived(v)' = Arrived(v) \cup {e}
    BY <1>1, <1>2, <1>3, <1>4, <1>5 DEF Arrived
  <2>4. Cardinality(Arrived(v)') = received[v] + 1
    <3>1. Cardinality(Arrived(v) \cup {e}) = Cardinality(Arrived(v)) + 1
      BY <2>2, FS_AddElement
    <3>2. received[v] = Cardinality(Arrived(v))
      BY <1>3 DEF Waiting
    <3> QED BY <2>3, <3>1, <3>2
  <2>5. Arrived(v)' \subseteq EdgesInto(v)
    BY <1>2, <2>1, <2>3
  <2>6. CASE received[v] + 1 = Cardinality(EdgesInto(v))
    <3>1. Arrived(v)' = EdgesInto(v)
      BY <2>1, <2>4, <2>5, <2>6, FS_Subset
    <3>2. received'[v] = 0 /\ spawned'[v] = 1
      BY <1>2, <1>3, <2>6 DEF Deliver, Waiting, IInv, TypeOK
    <3> QED BY <1>1, <1>2, <1>3, <1>5, <3>1, <3>2 DEF Fired, Waiting
  <2>7. CASE received[v] + 1 # Cardinality(EdgesInto(v))
    <3>1. Arrived(v)' # EdgesInto(v)
      BY <2>4, <2>7
    <3>2. received'[v] = received[v] + 1 /\ spawned'[v] = 0
      BY <1>2, <1>3, <2>7 DEF Deliver, Waiting, IInv, TypeOK
    <3> QED BY <1>1, <1>2, <1>3, <1>5, <2>4, <3>1, <3>2 DEF Waiting
  <2> QED BY <2>6, <2>7
<1>8. \A f \in inFlight' : SourceDone(f)'
  BY <1>1, <1>3, <1>4 DEF IInv
<1> QED
  BY <1>1, <1>3, <1>6, <1>7, <1>8 DEF IInv

\* A thread takes up a vertex that has fired.
LEMMA InvStart ==
    ASSUME ConstantsAssumption, IInv, TypeOK', NEW v \in Vertex, Start(v)
    PROVE  IInv'
<1>1. /\ mOutEdges' = mOutEdges /\ call' = call /\ calling' = calling
      /\ calculated' = calculated /\ received' = received /\ inFlight' = inFlight
  BY DEF Start
<1>2. calling /\ Fired(v) /\ spawned[v] = 1 /\ running[v] = 0 /\ calculated[v] = call - 1
  BY DEF Start, IInv, Idle, Waiting, Fired
<1>3. \A w \in Vertex : EdgesInto(w)' = EdgesInto(w) /\ Arrived(w)' = Arrived(w)
  BY <1>1, GraphUnchanged DEF Arrived, SourceDone
<1>4. spawned'[v] = 0 /\ running'[v] = 1
  BY <1>2 DEF Start, IInv, TypeOK
<1>5. Fired(v)'
  BY <1>1, <1>2, <1>3, <1>4 DEF Fired
<1>6. ASSUME NEW w \in Vertex, w # v PROVE Waiting(w)' \/ Fired(w)'
  <2>1. spawned'[w] = spawned[w] /\ running'[w] = running[w]
    BY <1>6 DEF Start, IInv, TypeOK
  <2>2. Waiting(w) \/ Fired(w)
    BY <1>2 DEF IInv
  <2>3. CASE Waiting(w)
    BY <1>1, <1>3, <2>1, <2>3 DEF Waiting
  <2>4. CASE Fired(w)
    BY <1>1, <1>3, <2>1, <2>4 DEF Fired
  <2> QED BY <2>2, <2>3, <2>4
<1>7. \A f \in inFlight' : SourceDone(f)'
  BY <1>1, <1>2 DEF IInv, SourceDone
<1> QED
  BY <1>1, <1>2, <1>5, <1>6, <1>7 DEF IInv

\* A vertex is done.  Its successors have their message under way, so what has
\* arrived anywhere is the same as before.
LEMMA InvFinish ==
    ASSUME ConstantsAssumption, IInv, TypeOK', NEW v \in Vertex, Finish(v)
    PROVE  IInv'
<1>1. /\ mOutEdges' = mOutEdges /\ call' = call /\ calling' = calling
      /\ spawned' = spawned /\ received' = received
      /\ inFlight' = inFlight \cup EdgesOutOf(v) /\ call \in Nat
  BY DEF Finish, IInv, TypeOK, ConstantsAssumption
<1>2. calling /\ call > 0 /\ Fired(v) /\ spawned[v] = 0 /\ running[v] = 1 /\ calculated[v] = call - 1
  BY DEF Finish, IInv, Idle, Waiting, Fired
<1>3. /\ running'[v] = 0 /\ calculated'[v] = call /\ v # Head
      /\ \A w \in Vertex \ {v} : running'[w] = running[w] /\ calculated'[w] = calculated[w]
  BY <1>1, <1>2 DEF Finish, IInv, TypeOK, Vertex, Head
<1>4. \A f \in FlowEdges : SourceDone(f)' <=> SourceDone(f) \/ f[1] = v
  BY <1>1, <1>2, <1>3, FlowEdgesType DEF SourceDone, IInv
<1>5. \A f \in FlowEdges : f[1] = v => ~SourceDone(f) /\ f \in EdgesOutOf(v)
  BY <1>1, <1>2, <1>3 DEF SourceDone, EdgesOutOf
<1>6. \A w \in Vertex : EdgesInto(w)' = EdgesInto(w)
  BY <1>1, GraphUnchanged
<1>7. ASSUME NEW w \in Vertex PROVE Arrived(w)' = Arrived(w)
  <2>1. \A f \in EdgesInto(w) : f \in FlowEdges
    BY DEF EdgesInto
  <2>2. \A f \in EdgesOutOf(v) : f[1] = v
    BY DEF EdgesOutOf
  <2>3. \A f \in EdgesInto(w) : SourceDone(f)' /\ f \notin inFlight' <=> SourceDone(f) /\ f \notin inFlight
    BY <1>1, <1>4, <1>5, <2>1, <2>2
  <2> QED BY <1>6, <2>3 DEF Arrived
<1>8. Fired(v)'
  BY <1>1, <1>2, <1>3, <1>6, <1>7 DEF Fired
<1>9. ASSUME NEW w \in Vertex, w # v PROVE Waiting(w)' \/ Fired(w)'
  <2>1. Waiting(w) \/ Fired(w)
    BY <1>2 DEF IInv
  <2>2. CASE Waiting(w)
    BY <1>1, <1>3, <1>6, <1>7, <1>9, <2>2 DEF Waiting
  <2>3. CASE Fired(w)
    BY <1>1, <1>3, <1>6, <1>7, <1>9, <2>3 DEF Fired
  <2> QED BY <2>1, <2>2, <2>3
<1>10. ASSUME NEW f \in inFlight' PROVE SourceDone(f)'
  <2>1. f \in FlowEdges /\ (f \in inFlight \/ f[1] = v)
    BY <1>1, <1>10 DEF EdgesOutOf, IInv, TypeOK
  <2> QED BY <1>2, <1>4, <2>1 DEF IInv
<1> QED
  BY <1>1, <1>2, <1>8, <1>9, <1>10 DEF IInv

\* If the flow graph is idle, every vertex has been calculated: the smallest one
\* that has not would still wait for a message of a smaller one.
LEMMA IdleMeansDone ==
    ASSUME ConstantsAssumption, IInv, calling, Idle
    PROVE  \A v \in Vertex : calculated[v] = call /\ received[v] = 0
<1>1. \A v \in Vertex : Waiting(v) \/ (Fired(v) /\ calculated[v] = call /\ received[v] = 0)
  BY DEF IInv, Idle, Fired
<1> DEFINE late == {v \in Vertex : calculated[v] # call}
<1>2. ASSUME late # {} PROVE FALSE
  <2>1. PICK v \in late : \A u \in late : ~(u < v)
    BY <1>2, SmallestVertex
  <2>2. Arrived(v) # EdgesInto(v)
    BY <1>1, <2>1 DEF Waiting
  <2>3. PICK e \in EdgesInto(v) : ~SourceDone(e)
    BY <2>2 DEF Arrived, Idle
  <2>4. e[1] \in late /\ e[1] < v
    BY <2>3, FlowEdgesType DEF SourceDone, EdgesInto, IInv
  <2> QED BY <2>1, <2>4
<1>3. \A v \in Vertex : calculated[v] = call
  BY <1>2
<1>4. \A v \in Vertex : calculated[v] # call - 1
  BY <1>3 DEF IInv, TypeOK, ConstantsAssumption
<1> QED
  BY <1>1, <1>3, <1>4 DEF Waiting

LEMMA InvReturn ==
    ASSUME ConstantsAssumption, IInv, TypeOK', Return
    PROVE  IInv'
<1>1. \A v \in Vertex : calculated[v] = call /\ received[v] = 0
  BY IdleMeansDone DEF Return
<1> QED
  BY <1>1 DEF Return, IInv, Idle

LEMMA InvStep ==
    ASSUME ConstantsAssumption, IInv, [Next]_vars
    PROVE  IInv'
<1>1. TypeOK'
  BY TypeStep DEF IInv
<1>2. CASE UNCHANGED vars
  <2>1. \A v \in Vertex : /\ EdgesInto(v)' = EdgesInto(v) /\ Arrived(v)' = Arrived(v)
                          /\ Waiting(v)' = Waiting(v) /\ Fired(v)' = Fired(v)
    BY <1>2, GraphUnchanged DEF vars, Arrived, SourceDone, Waiting, Fired
  <2> QED BY <1>1, <1>2, <2>1 DEF vars, IInv, Idle, SourceDone
<1> QED
  BY <1>1, <1>2, InvCalc, InvDeliver, InvStart, InvFinish, InvReturn DEF Next, Threads, Stop

\* The inductive invariant holds throughout.
THEOREM Invariance == Spec => []IInv
<1>1. Init => IInv
  BY InvInit, ConstantsAssumption
<1>2. IInv /\ [Next]_vars => IInv'
  BY InvStep, ConstantsAssumption
<1> QED
  BY <1>1, <1>2, PTL DEF Spec

-----------------------------------------------------------------------------
(* What the callers see                                                    *)

\* When World::calc is not running, every activity has been calculated once for
\* each call made.
THEOREM OncePerCall == Spec => []CalculatedOnce
<1>1. IInv => CalculatedOnce
  BY DEF IInv, CalculatedOnce
<1> QED
  BY <1>1, Invariance, PTL

\* An activity in calc() is in no other thread, and all it depends on has been
\* calculated in this call and is not being calculated.
THEOREM PredecessorsFirst == Spec => []PredecessorsDone
<1>1. IInv => PredecessorsDone
  <2> SUFFICES ASSUME IInv, NEW v \in Busy
               PROVE  /\ running[v] = 1 /\ calculated[v] = call - 1
                      /\ \A u \in Vertex : <<u, v>> \in mOutEdges =>
                            calculated[u] = call /\ running[u] = 0
    BY DEF PredecessorsDone
  <2>1. v \in Vertex /\ running[v] > 0
    BY DEF Busy
  <2>2. calling /\ Fired(v) /\ running[v] = 1 /\ calculated[v] = call - 1
    BY <2>1 DEF IInv, Idle, Waiting, Fired
  <2>3. ASSUME NEW u \in Vertex, <<u, v>> \in mOutEdges
        PROVE  calculated[u] = call /\ running[u] = 0
    <3>1. <<u, v>> \in EdgesInto(v)
      BY <2>3 DEF EdgesInto, FlowEdges
    <3>2. SourceDone(<<u, v>>)
      BY <2>2, <3>1 DEF Fired, Arrived
    <3>3. calculated[u] = call
      BY <3>2 DEF SourceDone, Vertex, Head
    <3>4. calculated[u] # call - 1
      BY <3>3 DEF IInv, TypeOK
    <3> QED BY <2>2, <3>3, <3>4 DEF IInv, Waiting, Fired
  <2> QED BY <2>2, <2>3
<1> QED
  BY <1>1, Invariance, PTL

LEMMA RefinesInit == Init => Abstract!Init
<1> SUFFICES ASSUME Init PROVE Abstract!Init
  OBVIOUS
<1>1. mOutEdges \in SUBSET (Vertex \X Vertex) /\ calling = FALSE
  BY DEF Init
<1>2. {v \in Vertex : calculated[v] < call} = {}
  BY DEF Init
<1> QED BY <1>1, <1>2 DEF Abstract!Init

LEMMA RefinesStep ==
    ASSUME ConstantsAssumption, IInv, IInv', [Next]_vars
    PROVE  [Abstract!Next]_(Abstract!vars)
<1> DEFINE todo == {v \in Vertex : calculated[v] < call}
<1>1. ASSUME NEW list \in CalcLists, Calc(list) PROVE Abstract!Calc(Vertex)
  <2>1. todo' = Vertex
    BY <1>1 DEF Calc, IInv, TypeOK, ConstantsAssumption
  <2> QED BY <1>1, <2>1 DEF Calc, Abstract!Calc
<1>2. ASSUME NEW v \in Vertex, Finish(v) PROVE Abstract!Calculate(v)
  <2>1. calling /\ call > 0 /\ call \in Nat /\ Fired(v) /\ calculated[v] = call - 1
    BY <1>2 DEF Finish, IInv, TypeOK, ConstantsAssumption, Idle, Waiting, Fired
  <2>2. v \in todo
    BY <2>1
  <2>3. ASSUME NEW u \in todo PROVE <<u, v>> \notin mOutEdges
    <3>1. SUFFICES ASSUME <<u, v>> \in mOutEdges PROVE FALSE
      OBVIOUS
    <3>2. <<u, v>> \in Arrived(v)
      BY <2>1, <3>1 DEF Fired, EdgesInto, FlowEdges
    <3>3. calculated[u] = call
      BY <3>2 DEF Arrived, SourceDone, Vertex, Head
    <3> QED BY <2>1, <3>3
  <2>4. todo' = todo \ {v}
    <3>1. calculated'[v] = call /\ \A w \in Vertex \ {v} : calculated'[w] = calculated[w]
      BY <1>2, <2>1 DEF Finish, IInv, TypeOK
    <3>2. call' = call
      BY <1>2 DEF Finish
    <3> QED BY <2>1, <3>1, <3>2
  <2> QED BY <1>2, <2>2, <2>3, <2>4 DEF Finish, Abstract!Calculate
<1>3. CASE Return
  <2>1. todo = {}
    BY <1>3, IdleMeansDone DEF Return, IInv, TypeOK, ConstantsAssumption
  <2>2. todo' = todo
    BY <1>3 DEF Return
  <2> QED BY <1>3, <2>1, <2>2 DEF Return, Abstract!Return, Abstract!Next
<1>4. ASSUME \/ \E e \in inFlight : Deliver(e)
             \/ \E v \in Vertex : Start(v)
             \/ UNCHANGED vars
      PROVE  UNCHANGED (Abstract!vars)
  <2>1. UNCHANGED <<mOutEdges, calling, calculated, call>>
    BY <1>4 DEF Deliver, Start, vars
  <2> QED BY <2>1 DEF Abstract!vars
<1> QED
  BY <1>1, <1>2, <1>3, <1>4 DEF Next, Threads, Stop, Abstract!Next

\* The parallel World::calc implements what the callers of World::calc rely on.
THEOREM Refinement == Spec => ImplementsWorldCalc
<1>1. Init => Abstract!Init
  BY RefinesInit
<1>2. IInv /\ IInv' /\ [Next]_vars => [Abstract!Next]_(Abstract!vars)
  BY RefinesStep, ConstantsAssumption
<1> QED
  BY <1>1, <1>2, Invariance, PTL DEF Spec, ImplementsWorldCalc, Abstract!Spec

===============================================================================
