--------------------------- MODULE DependencyOrder ---------------------------
(***************************************************************************)
(* What DepGraph::topological_sort promises its callers, with no word of   *)
(* how: the sources are handed out one at a time, each after everything it *)
(* depends on, and the sort gives up only on a graph that has a cycle.     *)
(***************************************************************************)
EXTENDS Sequences, Functions

CONSTANT Files

VARIABLES
    graph,      \* [nodes |-> the sources, deps |-> what each depends on]
    order,      \* the sources handed out so far
    verdict     \* "pending", then "ordered", "cyclic" or "failed"

vars == <<graph, order, verdict>>

Graphs == [nodes : SUBSET Files, deps : [Files -> SUBSET Files]]

\* A set of nodes each of which waits for another one of the set.
Stuck(S) == S # {} /\ \A f \in S : graph.deps[f] \cap S # {}

Init ==
    /\ graph \in Graphs
    /\ order = <<>>
    /\ verdict = "pending"

Emit(f) ==
    /\ verdict = "pending"
    /\ f \in graph.nodes \ Range(order)
    /\ graph.deps[f] \cap graph.nodes \subseteq Range(order)
    /\ order' = Append(order, f)
    /\ UNCHANGED <<graph, verdict>>

Accept ==
    /\ verdict = "pending"
    /\ Range(order) = graph.nodes
    /\ verdict' = "ordered"
    /\ UNCHANGED <<graph, order>>

Reject ==
    /\ verdict = "pending"
    /\ \E S \in SUBSET graph.nodes : Stuck(S)
    /\ verdict' = "cyclic"
    /\ UNCHANGED <<graph, order>>

\* A source that cannot be read or parsed: nothing has been handed out yet.
Fail ==
    /\ verdict = "pending"
    /\ order = <<>>
    /\ verdict' = "failed"
    /\ UNCHANGED <<graph, order>>

Next == (\E f \in Files : Emit(f)) \/ Accept \/ Reject \/ Fail

Spec == Init /\ [][Next]_vars
=============================================================================
