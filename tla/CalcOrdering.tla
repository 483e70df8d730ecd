---------------------------- MODULE CalcOrdering ----------------------------
(***************************************************************************)
(* What MarketDependencyFinder::createOrdering promises to World::calc: a  *)
(* list of calculations that grows one vertex at a time, holds no vertex   *)
(* twice, and never places a vertex before one it depends on.  While the   *)
(* list grows the graph may still be restructured (cycles are broken by    *)
(* creating trial markets), but only below the part that is already fixed: *)
(* a vertex that is in the list gains no new dependency.                   *)
(***************************************************************************)
EXTENDS Naturals, Sequences

CONSTANT Vertex            \* the price and demand calculations

VARIABLES graph,           \* dependencies: <<u, v>> if v needs u first
          order            \* the calculations listed so far

vars == <<graph, order>>

Listed == {order[j] : j \in DOMAIN order}

TypeOK == /\ graph \subseteq Vertex \X Vertex
          /\ order \in Seq(Vertex)

Init == /\ graph \in SUBSET (Vertex \X Vertex)
        /\ order = <<>>

\* A vertex is listed once everything it depends on is in the list.
List(v) == /\ v \notin Listed
           /\ \A u \in Vertex : <<u, v>> \in graph => u \in Listed
           /\ order' = Append(order, v)
           /\ UNCHANGED graph

\* Dependencies are dropped anywhere and added only on vertices not yet listed.
Restructure == /\ graph' \in SUBSET (Vertex \X Vertex)
               /\ \A e \in graph' \ graph : e[2] \notin Listed
               /\ UNCHANGED order

Next == Restructure \/ \E v \in Vertex : List(v)

Spec == Init /\ [][Next]_vars

-----------------------------------------------------------------------------
\* No calculation is listed twice, so one pass over the list computes each
\* price and each demand once.
NoneTwice == \A i, j \in DOMAIN order : order[i] = order[j] => i = j

\* Whatever a listed calculation depends on was listed before it.
DependenciesFirst ==
    \A j \in DOMAIN order, u \in Vertex :
        <<u, order[j]>> \in graph => \E i \in 1..(j - 1) : order[i] = u

=============================================================================
