-------------------------- MODULE MCWorkflowEngine --------------------------
(* A small graph with every kind of edge: it starts with a fan-out, which   *)
(* is also the target of a loop, has a second loop inside, an edge whose    *)
(* pattern does not compile, and a node from which no edge may match.       *)
EXTENDS WorkflowEngine, TLC

CONSTANTS assess, inspect, fan, report,   \* nodes
          ok, deep, odd,                  \* decisions; no edge reads the last
          bash, issues, broken,           \* a tool and two patterns
          found, other                    \* texts

When(type, value) == [type |-> type, value |-> value, negate |-> FALSE]
Unless(type, value) == [type |-> type, value |-> value, negate |-> TRUE]
Edge(target, when, priority) ==
    [target |-> target, when |-> when, priority |-> priority]

MCMatchesOf == issues :> {found}
MCMaxTurns == [n \in Nodes |-> IF n = report THEN 1 ELSE 2]

\* assess signals; inspect goes back to assess unless it used bash, and to the
\* fan-out when it found issues; the fan-out reads a broken pattern when no
\* branch used bash.
MCEdgesOf ==
    (fan :> <<Edge(report, When("output_matches", broken), 0),
              Edge(assess, When("tool_was_called", bash), 1)>>)
    @@ (assess :> <<Edge(report, When("signal", ok), 0),
                    Edge(inspect, When("signal", deep), 1)>>)
    @@ (inspect :> <<Edge(assess, Unless("tool_was_called", bash), 0),
                     Edge(fan, When("output_matches", issues), 1)>>)
    @@ (report :> <<>>)

MCWhenOf ==
    fan :> ("lint" :> When("always", "")
            @@ "tests" :> When("tool_was_called", bash)
            @@ "docs" :> Unless("signal", deep))

MCGatesOf == fan :> {"tests"}
=============================================================================
