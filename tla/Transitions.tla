---------------------------- MODULE Transitions ----------------------------
(***************************************************************************)
(* How a finished node selects its successor: workflow/evaluator.py over   *)
(* the conditions and edges of workflow/types.py.                          *)
(*                                                                         *)
(* A condition is [type, value, negate]; an edge is [target, when,         *)
(* priority]; a node result is [signal, tools, text].  A final text is one *)
(* of a few model values, and MatchesOf[p] is the set of texts in which    *)
(* the pattern p is found: that is all an edge can tell about a text.      *)
(***************************************************************************)
EXTENDS Integers, Sequences

CONSTANTS
    NoNode,       \* evaluate_transitions returned None
    NoSignal,     \* no decision was captured
    MatchesOf,    \* [well-formed pattern -> texts it is found in]
    Malformed     \* patterns that are no regular expression: re.search raises

ConditionTypes == {"signal", "output_matches", "tool_was_called", "always"}

Hit(cond, result) ==
    \/ cond.type = "signal"
       /\ result.signal # NoSignal
       /\ result.signal = cond.value
    \/ cond.type = "output_matches"
       /\ cond.value \notin Malformed
       /\ result.text \in MatchesOf[cond.value]
    \/ cond.type = "tool_was_called" /\ cond.value \in result.tools
    \/ cond.type = "always"

Matches(cond, result) == Hit(cond, result) # cond.negate

\* The order of the stable descending sort: edge i is looked at before edge j.
Precedes(edges, i, j) ==
    \/ edges[i].priority > edges[j].priority
    \/ edges[i].priority = edges[j].priority /\ i < j

\* No edge that is looked at before edge i matches.
Reached(edges, result, i) ==
    \A j \in DOMAIN edges :
        Precedes(edges, j, i) => ~ Matches(edges[j].when, result)

\* The scan reaches a pattern that does not compile: evaluate_transitions raises.
Raises(edges, result) ==
    \E i \in DOMAIN edges :
        /\ edges[i].when.type = "output_matches"
        /\ edges[i].when.value \in Malformed
        /\ Reached(edges, result, i)

\* The edge the scan stops at: it matches and no earlier one does.
FirstMatch(edges, result) ==
    {i \in DOMAIN edges :
        Matches(edges[i].when, result) /\ Reached(edges, result, i)}

EvaluateTransitions(edges, result) ==
    IF FirstMatch(edges, result) = {}
    THEN NoNode
    ELSE edges[CHOOSE i \in FirstMatch(edges, result) : TRUE].target

SignalDecisions(edges) ==
    {edges[i].when.value : i \in {k \in DOMAIN edges :
        edges[k].when.type = "signal"}}

IsTerminal(edges) == edges = <<>>
=============================================================================
