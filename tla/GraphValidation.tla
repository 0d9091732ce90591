-------------------------- MODULE GraphValidation --------------------------
(***************************************************************************)
(* The reachability check of WorkflowDefinition._validate_graph            *)
(* (workflow/types.py).  The validator pops a node from a stack, skips it  *)
(* when it was seen before, and otherwise pushes the targets of its edges  *)
(* that exist and have not been seen.  A definition is accepted only when  *)
(* its start node exists, every edge target exists and every node was      *)
(* reached; the engine relies on that and looks nodes up unguarded.        *)
(*                                                                         *)
(* The graph is chosen by the initial state, so that one run covers every  *)
(* definition over a small set of names, malformed ones included.  What is *)
(* reached does not depend on the order in which names are popped, so the  *)
(* stack is the set of names pushed and not yet popped; popping a second   *)
(* copy of a name, which the code skips, is a stuttering step here.        *)
(*                                                                         *)
(* A parallel node has a specification of its branches; the validator      *)
(* parses it, and refuses one that is malformed or names no branch.        *)
(***************************************************************************)

CONSTANT Names        \* node names a definition may mention

VARIABLES
    start,      \* start_node, possibly not a node
    targets,    \* [nodes -> set of edge targets], possibly not nodes
    parallel,   \* [nodes -> what each one's parallel field holds]
    stack, reachable,
    verdict     \* "checking", "accepted" or "rejected"

vars == <<start, targets, parallel, stack, reachable, verdict>>

Nodes == DOMAIN targets

\* Nothing, a specification with branches, one whose branches are an empty
\* dictionary, and a dictionary that is no specification at all.
Specs == {"none", "branches", "empty", "malformed"}

Init ==
    /\ start \in Names
    /\ \E nodes \in SUBSET Names :
         targets \in [nodes -> SUBSET Names] /\ parallel \in [nodes -> Specs]
    /\ stack = {start} \cap Nodes
    /\ reachable = {}
    /\ verdict = "checking"

----------------------------------------------------------------------------
\* Variant: targets are filtered against the names already on the stack.
PushSeenOnly(current) ==
    stack' = (stack \ {current}) \union (targets[current] \cap stack)

\* The popped name is marked first, so a self-loop is not pushed again.
Push(current) ==
    stack' = (stack \ {current})
             \union ((targets[current] \cap Nodes) \ reachable')

Visit ==
    \E current \in stack :
        /\ reachable' = reachable \union {current}
        /\ Push(current)
        /\ UNCHANGED <<start, targets, parallel, verdict>>

\* ParallelSpec raises on a dictionary of another shape and on one without
\* branches; a node that is not parallel is not looked at.
Parses(n) == parallel[n] \notin {"empty", "malformed"}

Valid ==
    /\ start \in Nodes
    /\ \A n \in Nodes : targets[n] \subseteq Nodes /\ Parses(n)
    /\ Nodes \ reachable = {}

Conclude ==
    /\ stack = {}
    /\ verdict = "checking"
    /\ verdict' = IF Valid THEN "accepted" ELSE "rejected"
    /\ UNCHANGED <<start, targets, parallel, stack, reachable>>

Done == verdict # "checking" /\ UNCHANGED vars

Next == Visit \/ Conclude \/ Done

Spec == Init /\ [][Next]_vars

----------------------------------------------------------------------------
(* Properties *)

\* The type of the variables: the search only ever holds existing names.
TypeOK ==
    /\ start \in Names
    /\ Nodes \subseteq Names
    /\ targets \in [Nodes -> SUBSET Names]
    /\ parallel \in [Nodes -> Specs]
    /\ stack \subseteq Nodes
    /\ reachable \subseteq Nodes
    /\ verdict \in {"checking", "accepted", "rejected"}

\* A set of names that holds the start node and the targets of its members.
ClosedFromStart(S) ==
    /\ start \in S
    /\ \A n \in S : targets[n] \cap Nodes \subseteq S

\* The search owes every unseen target of a seen name: what it has seen or
\* still holds contains the start node and the targets of all it has seen.
SearchOwesTheRest ==
    start \in Nodes =>
        /\ start \in reachable \union stack
        /\ \A n \in reachable :
               targets[n] \cap Nodes \subseteq reachable \union stack

\* The search never goes beyond what the start node reaches: every closed set
\* of names contains all it has seen or holds.
SearchStaysInside ==
    \A S \in SUBSET Nodes : ClosedFromStart(S) => reachable \union stack \subseteq S

\* A definition the engine can execute: the start node and all targets exist,
\* a node with a parallel field has branches to run, and a closed set of names
\* can only be the whole graph, which is to say that every node is reachable.
WellFormed ==
    /\ start \in Nodes
    /\ \A n \in Nodes : targets[n] \subseteq Nodes
    /\ \A n \in Nodes : parallel[n] # "none" => parallel[n] = "branches"
    /\ \A S \in SUBSET Nodes : ClosedFromStart(S) => S = Nodes

\* The validator accepts the well-formed definitions and no other, cyclic graphs
\* and self-loops included (types.py:147-183, parallel.py:43-48).
VerdictIsRight ==
    /\ verdict = "accepted" => WellFormed
    /\ verdict = "rejected" => ~ WellFormed
=============================================================================
