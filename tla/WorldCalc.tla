------------------------------ MODULE WorldCalc ------------------------------
(***************************************************************************)
(* What a caller of World::calc relies on, whichever overload it uses: the *)
(* call comes back after every calculation it was asked for has been done, *)
(* each one once, and each one after those of the asked for calculations   *)
(* that it depends on.                                                     *)
(***************************************************************************)
CONSTANT Vertex            \* the price and demand calculations

VARIABLES graph,           \* dependencies: <<u, v>> if v needs u first
          calling,         \* a caller is waiting in World::calc
          todo             \* calculations asked for and not yet done

vars == <<graph, calling, todo>>

TypeOK == /\ graph \subseteq Vertex \X Vertex
          /\ calling \in BOOLEAN
          /\ todo \subseteq Vertex

Init == /\ graph \in SUBSET (Vertex \X Vertex)
        /\ calling = FALSE
        /\ todo = {}

Calc(asked) == /\ ~calling
               /\ calling' = TRUE
               /\ todo' = asked
               /\ UNCHANGED graph

Calculate(v) == /\ v \in todo
                /\ \A u \in todo : <<u, v>> \notin graph
                /\ todo' = todo \ {v}
                /\ UNCHANGED <<graph, calling>>

Return == /\ calling /\ todo = {}
          /\ calling' = FALSE
          /\ UNCHANGED <<graph, todo>>

Next == \/ \E asked \in SUBSET Vertex : Calc(asked)
        \/ \E v \in Vertex : Calculate(v)
        \/ Return

Spec == Init /\ [][Next]_vars

=============================================================================
