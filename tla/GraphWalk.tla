----------------------------- MODULE GraphWalk -----------------------------
(***************************************************************************)
(* What the user is promised of a workflow: the program, not the model,    *)
(* decides where to go.  The nodes that are entered form a walk of the     *)
(* declared graph from its start node, one edge at a time, and once the    *)
(* walk has stopped it stays stopped.                                      *)
(***************************************************************************)
EXTENDS Sequences, Naturals

CONSTANTS Nodes, Start,
          Successors      \* [Nodes -> targets of the node's edges]

VARIABLES path, walking

walkVars == <<path, walking>>

Init == path = <<Start>> /\ walking = TRUE

Follow ==
    /\ walking
    /\ \E n \in Successors[path[Len(path)]] : path' = Append(path, n)
    /\ walking' = TRUE

Stop == walking /\ walking' = FALSE /\ path' = path

Next == Follow \/ Stop

Spec == Init /\ [][Next]_walkVars
=============================================================================
