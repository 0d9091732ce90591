SPECIFICATION Spec
CONSTANTS
    Plain = {"read", "write", "bash"}
    ReadOnly = {"read", "ask_user_question", "skill", "workflow_signal"}
    McpTools = {"mcp_db_query"}
    Servers = {"db"}
    Owner <- MCOwner
    Carries <- MCCarries
    Skills = {"style", "tests"}
    AllowedTools = {"mcp_db_query"}
    DeniedTools = {"bash"}
    NodeSpecs <- MCNodeSpecs
    Globals <- MCGlobals
    WorkflowNodes <- MCWorkflowNodes
    SettingsHooks <- MCSettingsHooks
    Plugins <- MCPlugins
    MaxLines = 2
    MaxDepth = 3
INVARIANTS NoWriteUnasked ScopeRespected HooksFollowTheNode
CHECK_DEADLOCK FALSE
