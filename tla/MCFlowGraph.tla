---------------------------- MODULE MCFlowGraph ----------------------------
(***************************************************************************)
(* Instances of FlowGraph: all graphs on a few vertices.                   *)
(***************************************************************************)
EXTENDS FlowGraph

\* No list, and a list with one calculation only.
EitherList == {Vertex, {1}}

=============================================================================
