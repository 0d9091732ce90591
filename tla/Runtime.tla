------------------------------ MODULE Runtime ------------------------------
(***************************************************************************)
(* The runtime of one session (ui/runtime.py): what it is built from, the  *)
(* permission mode and where it is kept, the three ways a line runs tools  *)
(* (a turn of the main agent, a workflow the user starts with /<name>, a   *)
(* workflow the agent starts with the workflow tool, which may start       *)
(* another), and what reaches a call on each of them: registry, hooks,     *)
(* prompts and permission checker (engine/query.py, tools/workflow_tool).  *)
(*                                                                         *)
(* A line is a stack of frames, the running one on top.  Calls are one     *)
(* step; AgentLoop has their interleavings.                                *)
(***************************************************************************)
EXTENDS NodeScope, Naturals, Sequences, SequencesExt

CONSTANTS
    WorkflowNodes,     \* [workflow -> its nodes]
    SettingsHooks,
    Plugins,           \* [plugin -> its skills and hooks]
    MaxLines, MaxDepth \* bounds: lines of a session; frames of a line

Workflows == DOMAIN WorkflowNodes
None == "none"      \* no workflow, no node, no skill

\* The loader accepts a workflow only if its edges lead to nodes.
ASSUME RuntimeAssumption ==
    /\ MaxLines \in Nat \ {0} /\ MaxDepth \in Nat \ {0}
    /\ None \notin Workflows \union DOMAIN NodeSpecs
    /\ \A w \in Workflows : WorkflowNodes[w] \subseteq DOMAIN NodeSpecs
    /\ \A n \in DOMAIN NodeSpecs :
         /\ NodeSpecs[n].interactive \in BOOLEAN /\ NodeSpecs[n].branch \in BOOLEAN
         /\ NodeSpecs[n].next \subseteq DOMAIN NodeSpecs

Frontends == {"host", "print"}   \* the terminal's backend host; leeway -p

VARIABLES
    frontend,
    tools, skills,     \* the session's registry and skill registry
    hooks,             \* the session's hook registry
    file,              \* permission.mode in settings.json
    checker,           \* mode of the query engine's PermissionChecker
    toolChecker,       \* mode of the PermissionChecker the workflow tool was built with
    stack,
    lines,
    \* history variables
    entered,           \* the modes of the session and of the file when the line began
    last               \* the last call the line has executed, in a set of at most one

sessionVars == <<frontend, tools, skills, hooks, toolChecker>>
vars == <<sessionVars, file, checker, stack, lines, entered, last>>

\* A registry: the names in it and, if its signal tool is there, the frame whose
\* node had it made and will read what it captures.
SessionTools == [names |-> tools, signal |-> 0]

\* tool_metadata: called is whether it is the metadata of a call, which names a
\* registry and a prompt that override those of the context.
SessionMetadata ==
    [called |-> FALSE, registry |-> SessionTools, ask |-> FALSE, executor |-> hooks]

\* What __post_init__ of an engine keeps: where it runs and what it was given.
Frame(depth, workflow, node, mode, prompts, full, metadata) ==
    [depth |-> depth, workflow |-> workflow, node |-> node, checker |-> mode,
     prompts |-> prompts, full |-> full, metadata |-> metadata]

Top == Last(stack)

----------------------------------------------------------------------------
(* build_runtime *)

\* Servers that do not connect bring no tools.
RegisterMcpTools(connected) == {t \in McpTools : Owner[t] \in connected}

\* What the plugins that load bring, to the registries everything reads.
LoadSkills(found, loaded) == found \union UNION {Plugins[p].skills : p \in loaded}
LoadHooks(loaded) == SettingsHooks \union UNION {Plugins[p].hooks : p \in loaded}

\* The skill tool comes with the skills of the user and the project, before the
\* plugins are loaded.
Init ==
    \E connected \in SUBSET Servers, found \in SUBSET Skills, loaded \in SUBSET DOMAIN Plugins :
        /\ frontend \in Frontends
        /\ tools = Plain \union {Ask} \union RegisterMcpTools(connected)
                    \union (IF found = {} THEN {} ELSE {SkillTool})
                    \union (IF Workflows = {} THEN {} ELSE {WorkflowTool})
        /\ skills = LoadSkills(found, loaded) /\ hooks = LoadHooks(loaded)
        /\ file \in Modes /\ checker = file /\ toolChecker = file
        /\ stack = <<>> /\ lines = 0
        /\ entered = [session |-> checker, settings |-> file] /\ last = {}

\* A print session takes one line and ends.
Accepting ==
    stack = <<>> /\ lines < IF frontend = "print" THEN 1 ELSE MaxLines

----------------------------------------------------------------------------
(* The permission mode *)

\* /permissions set <mode>: the settings and the query engine, not the workflow tool.
SetMode ==
    /\ Accepting
    /\ \E mode \in Modes : file' = mode /\ checker' = mode
    /\ lines' = lines + 1
    /\ UNCHANGED <<sessionVars, stack, entered, last>>

\* Another session that shares the settings file sets its mode.
EditSettings ==
    /\ file' \in Modes
    /\ UNCHANGED <<sessionVars, checker, stack, lines, entered, last>>

----------------------------------------------------------------------------
(* Frames *)

\* A line begins; what is known of the one before is forgotten.
Enter == entered' = [session |-> checker, settings |-> file] /\ last' = {}

\* handle_line: a line that is no command.
StartTurn ==
    /\ Accepting
    /\ lines' = lines + 1
    /\ stack' = <<Frame(1, None, None, checker, TRUE, SessionTools, SessionMetadata)>>
    /\ Enter
    /\ UNCHANGED <<sessionVars, file, checker>>

\* /<name> <context>: with the mode in the settings file and the session's prompts.
StartWorkflow ==
    /\ Accepting
    /\ lines' = lines + 1
    /\ \E w \in Workflows : \E n \in WorkflowNodes[w] :
         stack' = <<Frame(1, w, n, file, TRUE, SessionTools, SessionMetadata)>>
    /\ Enter
    /\ UNCHANGED <<sessionVars, file, checker>>

\* A transition to a node with a context of its own.
MoveOn ==
    /\ stack # <<>> /\ Top.node # None
    /\ \E n \in NodeSpecs[Top.node].next :
         stack' = [stack EXCEPT ![Len(stack)].node = n]
    /\ UNCHANGED <<sessionVars, file, checker, lines, entered, last>>

\* The turn or the workflow is over, with an answer or an exception; its caller,
\* if any, goes on.
EndFrame ==
    /\ stack # <<>>
    /\ stack' = Front(stack)
    /\ UNCHANGED <<sessionVars, file, checker, lines, entered, last>>

\* The line is cancelled: every frame is unwound.
CancelLine ==
    /\ stack # <<>>
    /\ stack' = <<>>
    /\ UNCHANGED <<sessionVars, file, checker, lines, entered, last>>

----------------------------------------------------------------------------
(* Calls *)

\* Variant: workflows that are started by calls get the session's registry.
RegistryOfSession(f) ==
    IF f.node = None THEN f.full
    ELSE [names |-> ScopedTools(f.workflow, f.node, tools, skills),
          signal |-> IF Signals(f.node) THEN f.depth ELSE 0]

\* The registry of a frame's context.
Registry(f) ==
    IF f.node = None THEN f.full
    ELSE LET names == ScopedTools(f.workflow, f.node, f.full.names, skills)
         IN  [names |-> names,
              signal |-> IF Signals(f.node) THEN f.depth
                         ELSE IF SignalTool \in names THEN f.full.signal ELSE 0]

\* Its skills, its prompts and its hooks.
Served(f) == IF f.node = None THEN skills ELSE ScopedSkills(f.workflow, f.node, skills)
AskPrompt(f) == f.prompts /\ (IF f.node = None THEN TRUE ELSE NodeSpecs[f.node].interactive)
PermissionPrompt(f) ==
    f.prompts /\ (IF f.node = None THEN TRUE
                  ELSE NodeSpecs[f.node].interactive \/ NodeSpecs[f.node].branch)
Executor(f) ==
    IF f.node = None THEN f.metadata.executor
    ELSE ScopedHooks(f.workflow, f.node, hooks, f.metadata.executor)

\* The metadata a call sees: what its frame was given overrides the context's own.
CallMetadata(f) ==
    [called |-> TRUE,
     registry |-> IF f.metadata.called THEN f.metadata.registry ELSE Registry(f),
     ask |-> IF f.metadata.called THEN f.metadata.ask ELSE AskPrompt(f),
     executor |-> Executor(f)]

\* Variant: without a prompt there is nobody to say no.
PermittedUnlessRefused(f, t, yes) ==
    \E ruled \in BOOLEAN :
        \/ Evaluate(t, f.checker, ruled) = "allow" /\ ~ yes
        \/ Evaluate(t, f.checker, ruled) = "confirm" /\ yes = PermissionPrompt(f)

\* _execute_tool_call up to the execution: the call is allowed, or the prompt says yes.
Permitted(f, t, yes) ==
    \E ruled \in BOOLEAN :
        \/ Evaluate(t, f.checker, ruled) = "allow" /\ ~ yes
        \/ Evaluate(t, f.checker, ruled) = "confirm" /\ PermissionPrompt(f) /\ yes

\* A print session answers for the user: yes to every permission, nothing to
\* every question.
Executed(f, t, skill, yes) ==
    [depth |-> f.depth, workflow |-> f.workflow, node |-> f.node, tool |-> t, skill |-> skill,
     signal |-> Registry(f).signal, nested |-> f.metadata.called,
     outermost |-> [workflow |-> stack[1].workflow, node |-> stack[1].node],
     yes |-> IF ~ yes THEN "needless" ELSE IF frontend = "print" THEN "print" ELSE "user",
     asked |-> frontend # "print" /\ t = Ask /\ CallMetadata(f).ask,
     hooks |-> Matching(Executor(f), t)]

CallTool ==
    /\ stack # <<>>
    /\ \E t \in Registry(Top).names \ {WorkflowTool, SkillTool}, yes \in BOOLEAN :
        /\ Permitted(Top, t, yes)
        /\ last' = {Executed(Top, t, None, yes)}
    /\ UNCHANGED <<sessionVars, file, checker, stack, lines, entered>>

LoadSkill ==
    /\ stack # <<>> /\ SkillTool \in Registry(Top).names
    /\ Permitted(Top, SkillTool, FALSE)
    /\ \E s \in Served(Top) : last' = {Executed(Top, SkillTool, s, FALSE)}
    /\ UNCHANGED <<sessionVars, file, checker, stack, lines, entered>>

\* WorkflowTool.execute: the checker the tool was built with, no prompts, and
\* the registry and the metadata of the call.
CallWorkflow ==
    /\ stack # <<>> /\ Len(stack) < MaxDepth /\ WorkflowTool \in Registry(Top).names
    /\ \E yes \in BOOLEAN, w \in Workflows : \E n \in WorkflowNodes[w] :
        /\ Permitted(Top, WorkflowTool, yes)
        /\ last' = {Executed(Top, WorkflowTool, None, yes)}
        /\ stack' = Append(stack, Frame(Len(stack) + 1, w, n, toolChecker, FALSE,
                                        CallMetadata(Top).registry, CallMetadata(Top)))
    /\ UNCHANGED <<sessionVars, file, checker, lines, entered>>

----------------------------------------------------------------------------
Next ==
    \/ SetMode \/ EditSettings
    \/ StartTurn \/ StartWorkflow \/ MoveOn \/ EndFrame \/ CancelLine
    \/ CallTool \/ LoadSkill \/ CallWorkflow

Spec == Init /\ [][Next]_vars

----------------------------------------------------------------------------
(* Properties *)

\* What a frame may hold.
HookSets ==
    {SettingsHooks} \union {Plugins[p].hooks : p \in DOMAIN Plugins}
        \union {NodeSpecs[n].hooks : n \in DOMAIN NodeSpecs}
        \union {Globals[w].hooks : w \in Workflows}

Hooks == UNION HookSets

Registries == [names : SUBSET Tools, signal : 0..MaxDepth]

Metadata == [called : BOOLEAN, registry : Registries, ask : BOOLEAN, executor : SUBSET Hooks]

Frames ==
    {f \in [depth : 1..MaxDepth,
            workflow : Workflows \union {None}, node : DOMAIN NodeSpecs \union {None},
            checker : Modes, prompts : BOOLEAN, full : Registries, metadata : Metadata] :
        f.node # None => f.workflow # None}

\* The type of the variables.
TypeOK ==
    /\ frontend \in Frontends /\ tools \subseteq Tools /\ hooks \subseteq Hooks
    /\ file \in Modes /\ checker \in Modes /\ toolChecker \in Modes
    /\ entered \in [session : Modes, settings : Modes] /\ lines \in 0..MaxLines
    /\ stack \in Seq(Frames) /\ Len(stack) <= MaxDepth

\* Whichever way a tool is reached, one that changes something and is not on the
\* allow list runs as the mode that governs its line demands: without a question
\* in full_auto, after a yes in the default mode, and not at all in plan mode; a
\* tool on the deny list never runs.  A turn is governed by the session's mode, a
\* workflow of the user by the one in the settings file, both as the line begins,
\* and a workflow the agent starts, however deep, by the mode the session was
\* built with: there nobody is asked, so that in the default mode nothing changes.
\* The yes is the user's except in a print session (checker.py:52-106;
\* query.py:150-196; app.py:75-79; workflow_tool.py:84-96; runtime.py:178).
NoWriteUnasked ==
    \A call \in last :
        LET mode == IF call.nested THEN toolChecker
                    ELSE IF call.node = None THEN entered.session ELSE entered.settings
        IN  /\ call.tool \notin DeniedTools
            /\ call.tool \notin ReadOnly \union AllowedTools =>
                 IF call.yes = "needless" THEN mode = "full_auto"
                 ELSE /\ mode = "default" /\ ~ call.nested
                      /\ call.yes = IF frontend = "print" THEN "print" ELSE "user"

\* docs/permissions.md:7: in the default mode nothing is written or executed
\* unless the user is asked.
DefaultAsks ==
    entered = [session |-> "default", settings |-> "default"] =>
        \A call \in last :
            call.tool \in Plain \ (ReadOnly \union AllowedTools) => call.yes # "needless"

\* What a node and its workflow declare lets this tool in, or nothing is declared.
Declared(w, n, t) ==
    LET named == NodeSpecs[n].tools \union Globals[w].tools
        servers == NodeSpecs[n].servers \union Globals[w].servers
    IN  \/ t \in named
        \/ t \in McpTools /\ Carries[t] \cap servers # {}
        \/ named \union servers = {}

\* A node calls the tools that it declares and its own skill and signal tool, and
\* loads the skills it declares.  A workflow that was started by a call reaches
\* nothing, at any depth, that the outermost node of the line did not have: its
\* nodes can only narrow the registry further.  The signal tool a call reaches
\* captures for the node itself if it has edges; one that has none gets to another
\* node's only if it declares it, or nothing, and then to the outermost one's
\* (engine.py:349-447; query.py:198-202; workflow_tool.py:77-95).
ScopeRespected ==
    \A call \in last :
        /\ call.node # None =>
             /\ \/ Declared(call.workflow, call.node, call.tool)
                \/ call.tool = SkillTool
                \/ call.tool = SignalTool /\ Signals(call.node)
             /\ call.tool = SkillTool =>
                  LET served == NodeSpecs[call.node].skills \union Globals[call.workflow].skills
                  IN  call.skill \in skills /\ (served # {} => call.skill \in served)
        /\ call.nested /\ call.tool \notin {SkillTool, SignalTool} =>
             /\ call.tool \in tools
             /\ call.outermost.node # None =>
                  Declared(call.outermost.workflow, call.outermost.node, call.tool)
        /\ call.tool = SignalTool =>
             /\ call.node # None
             /\ IF Signals(call.node) THEN call.signal = call.depth
                ELSE /\ call.nested /\ call.signal = 1
                     /\ call.outermost.node # None /\ Signals(call.outermost.node)

\* docs/workflows.md:134: a node signals only for itself, and what its own edges
\* are waiting for.
SignalsAreOwn ==
    \A call \in last :
        call.tool = SignalTool /\ ~ NodeSpecs[call.node].branch => call.signal = call.depth

\* The hooks of the session see every call, a node's and its workflow's see
\* every call of the node; no other hook does, except that a node without hooks
\* of its own inherits those of the node whose call its workflow is: they are gone
\* when the session is back to a turn or a workflow of the user
\* (engine.py:425-447, query.py:203-230).
HooksFollowTheNode ==
    \A call \in last :
        LET own == IF call.node = None THEN {}
                   ELSE NodeSpecs[call.node].hooks \union Globals[call.workflow].hooks
        IN  /\ Matching(hooks \union own, call.tool) \subseteq call.hooks
            /\ (~ call.nested \/ own # {}) =>
                 call.hooks = Matching(hooks \union own, call.tool)

\* docs/workflows.md:108: a node that is not interactive asks the user no question.
SilentWhenNotInteractive ==
    \A call \in last : call.node # None /\ call.asked => NodeSpecs[call.node].interactive
=============================================================================
