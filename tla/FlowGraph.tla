------------------------------ MODULE FlowGraph ------------------------------
(***************************************************************************)
(* The parallel World::calc: GcamParallel::makeTBBFlowGraph turns the      *)
(* finder's graph into a TBB flow graph with one continue_node for each    *)
(* calculation and a broadcast node, the head, in front of those nobody    *)
(* feeds; World::calc sends one message to the head and waits for the      *)
(* graph to fall idle.                                                     *)
(*                                                                         *)
(* A vertex is its position in mGlobalOrdering, so by the finder's         *)
(* DependenciesFirst every edge leads to a larger number.  The flow graph  *)
(* library is external: a continue_node counts messages, fires when it has *)
(* one for each edge into it, and then starts counting anew.               *)
(***************************************************************************)
EXTENDS Integers, FiniteSets

CONSTANTS
    Size,              \* mGlobalOrdering.size()
    MaxParallelism,    \* max-parallelism, the number of threads
    CalcLists,         \* what callers pass for aCalcList; Vertex is the null pointer
    MaxCalls           \* bound: calls of World::calc

Vertex == 1..Size
Head == 0

ASSUME ConstantsAssumption ==
    /\ Size \in Nat /\ MaxCalls \in Nat /\ MaxParallelism \in Nat \ {0}
    /\ CalcLists \subseteq SUBSET Vertex

VARIABLES
    mOutEdges,         \* the finder's graph
    call,              \* calls of World::calc so far
    calling,           \* one of them has not returned
    aCalcList,         \* what its caller asked for
    mCalcCounter,      \* the solver's count of the work, in units of 1 / Size
    inFlight,          \* messages on their way along an edge
    received,          \* continue_node: messages counted
    spawned,           \* continue_node: tasks waiting for a thread
    running,           \* activities in calc()
    calculated         \* how often an activity has finished calc()

vars == <<mOutEdges, call, calling, aCalcList, mCalcCounter, inFlight, received,
          spawned, running, calculated>>

\* makeTBBFlowGraph: a vertex no edge leads to is a source, fed by the head.
IsSourceNode(v) == \A u \in Vertex : <<u, v>> \notin mOutEdges
HeadEdges == {<<Head, v>> : v \in {s \in Vertex : IsSourceNode(s)}}
\* Mutant: the source nodes are connected to the head only.
FlowEdgesWithoutSources == HeadEdges \cup {e \in mOutEdges : ~IsSourceNode(e[1])}

\* Mutant: of the dependencies of an activity only the last one is connected.
FlowEdgesFromLast ==
    HeadEdges \cup {e \in mOutEdges : \A f \in mOutEdges : f[2] = e[2] => f[1] <= e[1]}

FlowEdges == mOutEdges \cup HeadEdges
EdgesInto(v) == {e \in FlowEdges : e[2] = v}
EdgesOutOf(v) == {e \in FlowEdges : e[1] = v}

Idle == inFlight = {} /\ \A v \in Vertex : spawned[v] = 0 /\ running[v] = 0
Busy == {v \in Vertex : running[v] > 0}

Init ==
    /\ mOutEdges \in SUBSET {e \in Vertex \X Vertex : e[1] < e[2]}
    /\ call = 0 /\ calling = FALSE /\ aCalcList = {} /\ mCalcCounter = 0
    /\ inFlight = {}
    /\ received = [v \in Vertex |-> 0] /\ spawned = [v \in Vertex |-> 0]
    /\ running = [v \in Vertex |-> 0] /\ calculated = [v \in Vertex |-> 0]

\* mHead.try_put.  Only the counter looks at the list.
Calc(list) ==
    /\ ~calling /\ call < MaxCalls
    /\ calling' = TRUE /\ call' = call + 1 /\ aCalcList' = list
    /\ mCalcCounter' = mCalcCounter + Cardinality(list)
    /\ inFlight' = HeadEdges
    /\ UNCHANGED <<mOutEdges, received, spawned, running, calculated>>

\* A continue_node counts a message and fires with the last one it waits for.
Deliver(e) ==
    /\ e \in inFlight
    /\ inFlight' = inFlight \ {e}
    /\ LET v == e[2] IN
       IF received[v] + 1 = Cardinality(EdgesInto(v))
       THEN /\ received' = [received EXCEPT ![v] = 0]
            /\ spawned' = [spawned EXCEPT ![v] = @ + 1]
       ELSE /\ received' = [received EXCEPT ![v] = @ + 1]
            /\ UNCHANGED spawned
    /\ UNCHANGED <<mOutEdges, call, calling, aCalcList, mCalcCounter, running, calculated>>

Start(v) ==
    /\ spawned[v] > 0 /\ Cardinality(Busy) < MaxParallelism
    /\ spawned' = [spawned EXCEPT ![v] = @ - 1]
    /\ running' = [running EXCEPT ![v] = @ + 1]
    /\ UNCHANGED <<mOutEdges, call, calling, aCalcList, mCalcCounter, inFlight, received, calculated>>

\* Mutant: an activity that waits until it is the only one running.
FinishAlone(v) ==
    /\ running[v] > 0 /\ Busy = {v}
    /\ running' = [running EXCEPT ![v] = @ - 1]
    /\ calculated' = [calculated EXCEPT ![v] = @ + 1]
    /\ inFlight' = inFlight \cup EdgesOutOf(v)
    /\ UNCHANGED <<mOutEdges, call, calling, aCalcList, mCalcCounter, received, spawned>>

Finish(v) ==
    /\ running[v] > 0
    /\ running' = [running EXCEPT ![v] = @ - 1]
    /\ calculated' = [calculated EXCEPT ![v] = @ + 1]
    /\ inFlight' = inFlight \cup EdgesOutOf(v)
    /\ UNCHANGED <<mOutEdges, call, calling, aCalcList, mCalcCounter, received, spawned>>

\* Mutant: World::calc does not wait for the tasks that have started.
ReturnWhileRunning ==
    /\ calling /\ inFlight = {} /\ \A v \in Vertex : spawned[v] = 0
    /\ calling' = FALSE
    /\ UNCHANGED <<mOutEdges, call, aCalcList, mCalcCounter, inFlight, received, spawned,
                   running, calculated>>

\* wait_for_all.
Return ==
    /\ calling /\ Idle
    /\ calling' = FALSE
    /\ UNCHANGED <<mOutEdges, call, aCalcList, mCalcCounter, inFlight, received, spawned,
                   running, calculated>>

Threads == \/ \E e \in inFlight : Deliver(e)
           \/ \E v \in Vertex : Start(v) \/ Finish(v)
           \/ Return

Stop == ~calling /\ call = MaxCalls /\ UNCHANGED vars

Next == Threads \/ (\E list \in CalcLists : Calc(list)) \/ Stop

Spec == Init /\ [][Next]_vars

\* The worker threads and the waiting caller keep going.
FairSpec == Spec /\ WF_vars(Threads)

-----------------------------------------------------------------------------
(* Properties                                                              *)

\* The type of every variable.
TypeOK ==
    /\ mOutEdges \subseteq {e \in Vertex \X Vertex : e[1] < e[2]}
    /\ call \in 0..MaxCalls /\ calling \in BOOLEAN
    /\ aCalcList \subseteq Vertex /\ mCalcCounter \in Nat
    /\ inFlight \subseteq FlowEdges
    /\ received \in [Vertex -> Nat] /\ spawned \in [Vertex -> Nat]
    /\ running \in [Vertex -> Nat] /\ calculated \in [Vertex -> Nat]

\* When World::calc comes back every activity has been calculated once for each
\* call, so no call leaves a node half full for the next one.
CalculatedOnce == ~calling => \A v \in Vertex : calculated[v] = call

\* While an activity is being calculated, everything it depends on has already
\* been calculated in this call, and neither that nor itself is being changed
\* by another thread.
PredecessorsDone ==
    \A v \in Busy :
        /\ running[v] = 1 /\ calculated[v] = call - 1
        /\ \A u \in Vertex : <<u, v>> \in mOutEdges => calculated[u] = call /\ running[u] = 0

\* Every call of World::calc returns.
CallsReturn == calling ~> ~calling

\* The parallel calculation implements what callers of World::calc rely on.
Abstract == INSTANCE WorldCalc WITH
    graph <- mOutEdges,
    todo <- {v \in Vertex : calculated[v] < call}
ImplementsWorldCalc == Abstract!Spec

-----------------------------------------------------------------------------
(* Why it works: the inductive invariant of FlowGraph_proofs.              *)

\* The edges into v over which this call's message has arrived.
SourceDone(e) == e[1] = Head \/ calculated[e[1]] = call
Arrived(v) == {e \in EdgesInto(v) : SourceDone(e) /\ e \notin inFlight}

Waiting(v) == /\ calculated[v] = call - 1 /\ spawned[v] = 0 /\ running[v] = 0
              /\ received[v] = Cardinality(Arrived(v)) /\ Arrived(v) # EdgesInto(v)

Fired(v) == /\ Arrived(v) = EdgesInto(v) /\ received[v] = 0
            /\ \/ calculated[v] = call - 1 /\ spawned[v] = 1 /\ running[v] = 0
               \/ calculated[v] = call - 1 /\ spawned[v] = 0 /\ running[v] = 1
               \/ calculated[v] = call /\ spawned[v] = 0 /\ running[v] = 0

\* Between calls nothing is left over.  During a call a vertex waits, with the
\* count its continue_node should have, or has fired just once.
IInv ==
    /\ TypeOK
    /\ ~calling => /\ Idle
                   /\ \A v \in Vertex : calculated[v] = call /\ received[v] = 0
    /\ calling => /\ call > 0
                  /\ \A e \in inFlight : SourceDone(e)
                  /\ \A v \in Vertex : Waiting(v) \/ Fired(v)

=============================================================================
