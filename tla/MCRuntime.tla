----------------------------- MODULE MCRuntime -----------------------------
(* An outer workflow whose first node has hooks and may start the inner one,  *)
(* and whose second node declares nothing; the inner one scopes all it can,   *)
(* but for a branch at its end that declares nothing.                         *)
EXTENDS Runtime

Hook(id, tool) == [id |-> id, tool |-> tool]
Nothing == [tools |-> {}, servers |-> {}, skills |-> {}, hooks |-> {}]
Node(named, servers, served, own, interactive, next) ==
    [tools |-> named, servers |-> servers, skills |-> served, hooks |-> own,
     interactive |-> interactive, branch |-> FALSE, next |-> next]

MCOwner == [t \in {"mcp_db_query"} |-> "db"]
MCCarries == [t \in {"mcp_db_query"} |-> {"db"}]
MCSettingsHooks == {Hook("audit", "any")}
MCPlugins == [p \in {"extra"} |-> [skills |-> {"tests"}, hooks |-> {Hook("lint", "write")}]]

MCNodeSpecs ==
    [n \in {"plan", "free", "apply", "check", "survey"} |->
        CASE n = "plan" -> Node({"read", Ask, WorkflowTool}, {}, {}, {Hook("outer", "any")}, FALSE, {"free"})
          [] n = "free" -> Node({}, {}, {}, {}, TRUE, {})
          [] n = "apply" -> Node({Ask, "write"}, {"db"}, {}, {Hook("inner", "write")}, TRUE, {"check", "survey"})
          [] n = "check" -> Node({}, {"db"}, {}, {}, FALSE, {})
          [] n = "survey" -> [Node({}, {}, {}, {}, FALSE, {}) EXCEPT !.branch = TRUE]]

MCGlobals ==
    [w \in {"outer", "inner"} |->
        IF w = "inner" THEN [Nothing EXCEPT !.skills = {"style"}] ELSE Nothing]

MCWorkflowNodes == [w \in {"outer", "inner"} |-> IF w = "outer" THEN {"plan"} ELSE {"apply"}]
=============================================================================
