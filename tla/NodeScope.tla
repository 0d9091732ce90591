----------------------------- MODULE NodeScope -----------------------------
(***************************************************************************)
(* What one node of a workflow may use: _build_node_context                *)
(* (workflow/engine.py), the permission check of a call                    *)
(* (permissions/checker.py), the hooks that match it (hooks/registry.py)   *)
(* and the names of the tools of MCP servers (mcp/adapter.py).             *)
(*                                                                         *)
(* A registry is the set of the names in it; the skills its skill tool     *)
(* serves, and the node its signal tool answers to, are kept beside it.    *)
(***************************************************************************)
EXTENDS FiniteSets

CONSTANTS
    Plain,          \* built-in tools other than the ones named below
    ReadOnly,       \* tools whose is_read_only is true
    McpTools, Servers,
    Owner,          \* [McpTools -> Servers]
    Carries,        \* [McpTools -> SUBSET Servers]: whose prefix mcp_<server>_ a name begins with
    Skills,
    AllowedTools, DeniedTools,   \* the permission settings
    NodeSpecs,      \* [node -> its fields]; a branch is a node that is interactive as
                    \* its parallel node is, and goes on where that goes on
    Globals         \* [workflow -> its global_... fields]

Modes == {"default", "plan", "full_auto"}

Ask == "ask_user_question"
WorkflowTool == "workflow"
SkillTool == "skill"
SignalTool == "workflow_signal"

Tools == Plain \union McpTools \union {Ask, WorkflowTool, SkillTool, SignalTool}

ASSUME ScopeAssumption ==
    /\ {Ask, WorkflowTool, SkillTool, SignalTool} \cap (Plain \union McpTools) = {}
    /\ ReadOnly \subseteq Tools /\ {Ask, SkillTool, SignalTool} \subseteq ReadOnly
    /\ ReadOnly \cap (McpTools \union {WorkflowTool}) = {}
    /\ Carries \in [McpTools -> SUBSET Servers]
    /\ \A t \in McpTools : Owner[t] \in Carries[t]

----------------------------------------------------------------------------
(* Registries *)

\* A tool is let in by its name or its server's; a node that names neither
\* gets every tool.
InScope(t, tools, servers) ==
    \/ t \in tools
    \/ t \in McpTools /\ Carries[t] \cap servers # {}
    \/ tools = {} /\ servers = {}

\* A node that names no skill serves all of them.
ScopedSkills(w, n, skills) ==
    LET allowed == NodeSpecs[n].skills \union Globals[w].skills
    IN  IF allowed = {} THEN skills ELSE skills \cap allowed

\* A node with edges gets a signal tool of its own, which replaces an inherited
\* one; terminal nodes and branches get none.
Signals(n) == NodeSpecs[n].next # {} /\ ~ NodeSpecs[n].branch

\* The session's skill tool is replaced by the node's own, which is there
\* whenever it has something to serve.
ScopedTools(w, n, full, skills) ==
    {t \in full \ {SkillTool} :
        InScope(t, NodeSpecs[n].tools \union Globals[w].tools,
                   NodeSpecs[n].servers \union Globals[w].servers)}
      \union (IF ScopedSkills(w, n, skills) = {} THEN {} ELSE {SkillTool})
      \union (IF Signals(n) THEN {SignalTool} ELSE {})

----------------------------------------------------------------------------
(* Hooks *)

\* Variant: the session's hooks are not copied into the node's registry.
ScopedHooksOwn(w, n, registry, executor) ==
    LET own == NodeSpecs[n].hooks \union Globals[w].hooks
    IN  IF own = {} THEN executor ELSE own

\* Hooks of its own give a node a new registry made from the session's; a node
\* without any keeps the executor it inherits.
ScopedHooks(w, n, registry, executor) ==
    LET own == NodeSpecs[n].hooks \union Globals[w].hooks
    IN  IF own = {} THEN executor ELSE registry \union own

\* get_matching for the two events of a tool call.
Matching(hooks, t) == {h \in hooks : h.tool \in {"any", t}}

----------------------------------------------------------------------------
(* Permissions *)

\* PermissionChecker.evaluate: the lists come first, then the rules on paths
\* and commands (ruled: one of them denies this call), then the mode.
Evaluate(t, mode, ruled) ==
    CASE t \in DeniedTools -> "deny"
      [] t \in AllowedTools \ DeniedTools -> "allow"
      [] t \notin AllowedTools \union DeniedTools /\ ruled -> "deny"
      [] OTHER ->
           IF mode = "full_auto" \/ t \in ReadOnly THEN "allow"
           ELSE IF mode = "plan" THEN "deny" ELSE "confirm"
=============================================================================
