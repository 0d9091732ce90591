---------------------------- MODULE RuntimeProofs ----------------------------
(***************************************************************************)
(* For every set of tools, nodes, workflows, plugins and settings, and any *)
(* number of lines and frames: what a call may do, which tools it may be   *)
(* to and which hooks see it, whichever way it is reached.                 *)
(*                                                                         *)
(* A call is judged by the frame it comes from.  So the invariant is about *)
(* the frames: which mode governs them, that those of a call have no       *)
(* prompts, that the hooks they were given include the session's, and      *)
(* that the registry they were given, at any depth, is the one the         *)
(* outermost frame has.                                                    *)
(***************************************************************************)
EXTENDS Runtime, SequenceTheorems, TLAPS

\* The mode that governs a frame, its prompts and its hooks.
FrameIsTrue(f) ==
    /\ f.metadata.called <=> f.depth # 1
    /\ f.metadata.called => ~ f.prompts /\ f.node # None
    /\ hooks \subseteq f.metadata.executor
    /\ ~ f.metadata.called => f.metadata.executor = hooks
    /\ f.checker = IF f.metadata.called THEN toolChecker
                   ELSE IF f.node = None THEN entered.session ELSE entered.settings

\* The registry of a frame, under the outermost frame of its line.
StandsOn(f, first) ==
    /\ f.full = IF f.depth = 1 THEN SessionTools ELSE Registry(first)
    /\ f.metadata.called => f.metadata.registry = Registry(first)

FramesAreTrue ==
    \A i \in DOMAIN stack :
        stack[i].depth = i /\ FrameIsTrue(stack[i]) /\ StandsOn(stack[i], stack[1])

IInv ==
    /\ TypeOK /\ SignalTool \notin tools /\ FramesAreTrue
    /\ NoWriteUnasked /\ ScopeRespected /\ HooksFollowTheNode

----------------------------------------------------------------------------
(* Frames and stacks *)

LEMMA TopIsFrame ==
    ASSUME IInv, stack # <<>>
    PROVE  /\ Top \in Frames /\ FrameIsTrue(Top) /\ Top.depth = Len(stack) /\ Top = stack[Len(stack)]
           /\ stack[1] \in Frames /\ stack[1].depth = 1
           /\ StandsOn(Top, stack[1]) /\ StandsOn(stack[1], stack[1])
           /\ FrameIsTrue(stack[1]) /\ Len(stack) \in 1..MaxDepth
  <1>1. Len(stack) \in Nat \ {0} /\ DOMAIN stack = 1..Len(stack)
    BY EmptySeq, LenProperties DEF IInv, TypeOK
  <1>2. Top = stack[Len(stack)] /\ Len(stack) \in DOMAIN stack /\ 1 \in DOMAIN stack
    BY <1>1 DEF Top, Last
  <1>3. Top \in Frames /\ stack[1] \in Frames
    BY <1>1, <1>2, ElementOfSeq DEF IInv, TypeOK
  <1>4. Len(stack) \in 1..MaxDepth
    BY <1>1, RuntimeAssumption DEF IInv, TypeOK
  <1> QED
    BY <1>2, <1>3, <1>4 DEF IInv, FramesAreTrue

LEMMA FrontKeeps ==
    ASSUME NEW s \in Seq(Frames), s # <<>>
    PROVE  /\ Front(s) \in Seq(Frames) /\ Len(Front(s)) < Len(s)
           /\ \A i \in DOMAIN Front(s) : i \in DOMAIN s /\ Front(s)[i] = s[i]
  <1>1. Len(s) \in Nat \ {0} /\ DOMAIN s = 1..Len(s)
    BY EmptySeq, LenProperties
  <1>2. \A i \in 1..Len(s) - 1 : s[i] \in Frames
    BY <1>1, ElementOfSeq
  <1>3. /\ Front(s) \in Seq(Frames) /\ Len(Front(s)) = Len(s) - 1
        /\ \A i \in 1..Len(s) - 1 : Front(s)[i] = s[i]
    BY <1>1, <1>2, SubSeqProperties DEF Front
  <1> QED
    BY <1>1, <1>3, LenProperties

LEMMA PushKeeps ==
    ASSUME NEW s \in Seq(Frames), NEW f \in Frames
    PROVE  /\ Append(s, f) \in Seq(Frames) /\ Len(Append(s, f)) = Len(s) + 1
           /\ \A i \in DOMAIN Append(s, f) :
                 Append(s, f)[i] = f \/ (i \in DOMAIN s /\ Append(s, f)[i] = s[i])
  <1>1. /\ Append(s, f) \in Seq(Frames) /\ Len(Append(s, f)) = Len(s) + 1
        /\ \A i \in 1..Len(s) : Append(s, f)[i] = s[i]
        /\ Append(s, f)[Len(s) + 1] = f
    BY AppendProperties
  <1> QED
    BY <1>1, LenProperties

\* What a frame is given at its start.
LEMMA FrameHasType ==
    ASSUME NEW depth \in 1..MaxDepth,
           NEW w \in Workflows \union {None}, NEW n \in DOMAIN NodeSpecs \union {None},
           NEW mode \in Modes, NEW prompts \in BOOLEAN, NEW full \in Registries,
           NEW metadata \in Metadata, n # None => w # None
    PROVE  Frame(depth, w, n, mode, prompts, full, metadata) \in Frames
  BY DEF Frame, Frames

\* A step that changes the stack of a session, and neither its last call nor
\* anything the session was built with.
LEMMA StackPreserves ==
    ASSUME IInv, stack' \in Seq(Frames), Len(stack') <= MaxDepth, lines' \in 0..MaxLines,
           \A i \in DOMAIN stack' :
              /\ stack'[i].depth = i /\ FrameIsTrue(stack'[i])
              /\ StandsOn(stack'[i], stack'[1]),
           UNCHANGED <<sessionVars, file, checker, entered, last>>
    PROVE  IInv'
  <1>1. TypeOK' /\ SignalTool \notin tools'
    BY DEF IInv, TypeOK, sessionVars
  <1>2. FramesAreTrue'
    <2> SUFFICES ASSUME NEW i \in DOMAIN stack'
                 PROVE  /\ stack'[i].depth = i /\ FrameIsTrue(stack[i])'
                        /\ StandsOn(stack[i], stack[1])'
      BY DEF FramesAreTrue
    <2>2. FrameIsTrue(stack[i])'
      BY DEF FrameIsTrue, sessionVars
    <2>3. StandsOn(stack[i], stack[1])'
      BY DEF StandsOn, SessionTools, Registry, sessionVars
    <2> QED
      BY <2>2, <2>3
  <1>3. NoWriteUnasked' /\ ScopeRespected' /\ HooksFollowTheNode'
    BY DEF IInv, NoWriteUnasked, ScopeRespected, HooksFollowTheNode, sessionVars
  <1> QED
    BY <1>1, <1>2, <1>3 DEF IInv

----------------------------------------------------------------------------
(* The registry and the hooks of a frame *)

LEMMA RegistryHasType ==
    ASSUME TypeOK, NEW f \in Frames
    PROVE  Registry(f) \in Registries /\ SessionTools \in Registries
  <1>1. /\ f.full \in Registries /\ f.depth \in 1..MaxDepth
        /\ f.full.names \subseteq Tools /\ f.full.signal \in 0..MaxDepth
        /\ 0 \in 0..MaxDepth /\ 1..MaxDepth \subseteq 0..MaxDepth
    BY RuntimeAssumption DEF Frames, Registries
  <1>2. ScopedTools(f.workflow, f.node, f.full.names, skills) \subseteq Tools
    BY <1>1 DEF ScopedTools, Tools
  <1>3. SessionTools \in Registries
    BY <1>1 DEF SessionTools, Registries, TypeOK
  <1>4. Registry(f) \in Registries
    BY <1>1, <1>2 DEF Registry, Registries
  <1> QED
    BY <1>3, <1>4

\* The outermost frame has what the session has, scoped once.
LEMMA FirstRegistry ==
    ASSUME SignalTool \notin tools, NEW first, first.depth = 1, StandsOn(first, first),
           NEW t \in Registry(first).names
    PROVE  /\ first.node # None =>
                \/ Declared(first.workflow, first.node, t)
                \/ t = SkillTool \/ (t = SignalTool /\ Signals(first.node))
           /\ t \notin {SkillTool, SignalTool} =>
                t \in tools /\ (first.node # None => Declared(first.workflow, first.node, t))
           /\ t = SignalTool =>
                first.node # None /\ Signals(first.node) /\ Registry(first).signal = 1
  <1>1. first.full.names = tools
    BY DEF StandsOn, SessionTools
  <1>2. CASE first.node = None
    BY <1>1, <1>2 DEF Registry
  <1>3. CASE first.node # None
    <2>1. Registry(first).names = ScopedTools(first.workflow, first.node, tools, skills)
      BY <1>1, <1>3 DEF Registry
    <2>2. \/ t = SkillTool \/ (t = SignalTool /\ Signals(first.node))
          \/ t \in tools /\ Declared(first.workflow, first.node, t)
      BY <2>1 DEF ScopedTools, InScope, Declared
    <2>3. Signals(first.node) => Registry(first).signal = 1
      BY <1>3 DEF Registry
    <2>4. SkillTool # SignalTool
      BY DEF SkillTool, SignalTool
    <2> QED
      BY <1>3, <2>2, <2>3, <2>4
  <1> QED
    BY <1>2, <1>3

\* Below it every node scopes what the outermost frame has.
LEMMA RegistryIsTrue ==
    ASSUME SignalTool \notin tools,
           NEW first, first.depth = 1, StandsOn(first, first),
           NEW f, StandsOn(f, first), f.depth = 1 => f = first, f.depth # 1 => f.node # None,
           NEW t \in Registry(f).names
    PROVE  /\ f.node # None =>
                \/ Declared(f.workflow, f.node, t)
                \/ t = SkillTool \/ (t = SignalTool /\ Signals(f.node))
           /\ t \notin {SkillTool, SignalTool} =>
                t \in tools /\ (first.node # None => Declared(first.workflow, first.node, t))
           /\ t = SignalTool =>
                /\ f.node # None
                /\ IF Signals(f.node) THEN Registry(f).signal = f.depth
                   ELSE /\ f.depth # 1 /\ Registry(f).signal = 1
                        /\ first.node # None /\ Signals(first.node)
  <1>1. CASE f.depth = 1
    BY <1>1, FirstRegistry
  <1>2. CASE f.depth # 1
    <2>1. f.full = Registry(first) /\ f.node # None
      BY <1>2 DEF StandsOn
    <2>2. Registry(f).names = ScopedTools(f.workflow, f.node, Registry(first).names, skills)
      BY <2>1 DEF Registry
    <2>3. \/ t = SkillTool \/ (t = SignalTool /\ Signals(f.node))
          \/ t \in Registry(first).names /\ Declared(f.workflow, f.node, t)
      BY <2>2 DEF ScopedTools, InScope, Declared
    <2>4. ASSUME t = SignalTool
          PROVE  IF Signals(f.node) THEN Registry(f).signal = f.depth
                 ELSE Registry(f).signal = Registry(first).signal /\ t \in Registry(first).names
      <3>1. t # SkillTool
        BY <2>4 DEF SkillTool, SignalTool
      <3>2. CASE Signals(f.node)
        BY <2>1, <3>2 DEF Registry
      <3>3. CASE ~ Signals(f.node)
        <4>1. SignalTool \in ScopedTools(f.workflow, f.node, f.full.names, skills)
          BY <2>1, <2>2, <2>4
        <4>2. Registry(f).signal = f.full.signal
          BY <2>1, <3>3, <4>1 DEF Registry
        <4> QED
          BY <2>1, <2>3, <3>1, <3>3, <4>2
      <3> QED
        BY <3>2, <3>3
    <2>5. t \in Registry(first).names =>
            /\ t \notin {SkillTool, SignalTool} =>
                 t \in tools /\ (first.node # None => Declared(first.workflow, first.node, t))
            /\ t = SignalTool =>
                 first.node # None /\ Signals(first.node) /\ Registry(first).signal = 1
      BY FirstRegistry
    <2> QED
      BY <1>2, <2>1, <2>3, <2>4, <2>5
  <1> QED
    BY <1>1, <1>2

LEMMA HooksIncludeDeclared ==
    ASSUME NEW n \in DOMAIN NodeSpecs, NEW w \in Workflows
    PROVE  NodeSpecs[n].hooks \subseteq Hooks /\ Globals[w].hooks \subseteq Hooks
  <1>1. NodeSpecs[n].hooks \in HookSets /\ Globals[w].hooks \in HookSets
    BY DEF HookSets
  <1> QED
    BY <1>1 DEF Hooks

LEMMA ExecutorIsTrue ==
    ASSUME TypeOK, NEW f \in Frames, FrameIsTrue(f)
    PROVE  LET own == IF f.node = None THEN {}
                      ELSE NodeSpecs[f.node].hooks \union Globals[f.workflow].hooks
           IN  /\ Executor(f) \in SUBSET Hooks
               /\ hooks \union own \subseteq Executor(f)
               /\ ~ f.metadata.called \/ own # {} => Executor(f) = hooks \union own
  <1> DEFINE own == IF f.node = None THEN {}
                    ELSE NodeSpecs[f.node].hooks \union Globals[f.workflow].hooks
  <1>1. /\ f.node # None => f.node \in DOMAIN NodeSpecs /\ f.workflow \in Workflows
        /\ f.metadata.executor \subseteq Hooks /\ hooks \subseteq Hooks
    BY DEF Frames, Metadata, TypeOK
  <1>2. own \subseteq Hooks
    <2>1. CASE f.node = None
      BY <2>1
    <2>2. CASE f.node # None
      <3>1. NodeSpecs[f.node].hooks \subseteq Hooks /\ Globals[f.workflow].hooks \subseteq Hooks
        BY <1>1, <2>2, HooksIncludeDeclared
      <3> QED
        BY <2>2, <3>1
    <2> QED
      BY <2>1, <2>2
  <1>3. Executor(f) = IF own = {} THEN f.metadata.executor ELSE hooks \union own
    BY DEF Executor, ScopedHooks
  <1> HIDE DEF own
  <1>4. /\ Executor(f) \in SUBSET Hooks
        /\ hooks \union own \subseteq Executor(f)
        /\ ~ f.metadata.called \/ own # {} => Executor(f) = hooks \union own
    BY <1>1, <1>2, <1>3 DEF FrameIsTrue
  <1> QED
    BY <1>4 DEF own

LEMMA CallMetadataIsTrue ==
    ASSUME TypeOK, NEW f \in Frames, FrameIsTrue(f)
    PROVE  /\ CallMetadata(f) \in Metadata /\ CallMetadata(f).called
           /\ hooks \subseteq CallMetadata(f).executor
           /\ CallMetadata(f).registry \in Registries
  <1>1. AskPrompt(f) \in BOOLEAN /\ f.metadata \in Metadata
    BY RuntimeAssumption DEF AskPrompt, Frames
  <1>2. Registry(f) \in Registries
    BY RegistryHasType
  <1>3. Executor(f) \in SUBSET Hooks /\ hooks \subseteq Executor(f)
    BY ExecutorIsTrue
  <1> QED
    BY <1>1, <1>2, <1>3 DEF CallMetadata, Metadata

----------------------------------------------------------------------------
(* Calls *)

\* A call that is permitted is to a tool the settings allow, or one that
\* changes nothing, or one the mode or a prompt lets through.
LEMMA PermittedCall ==
    ASSUME NEW f \in Frames, NEW t \in Tools, NEW yes \in BOOLEAN, Permitted(f, t, yes)
    PROVE  /\ t \notin DeniedTools
           /\ t \notin ReadOnly \union AllowedTools =>
                IF yes THEN f.checker = "default" /\ f.prompts ELSE f.checker = "full_auto"
  <1>1. f.checker \in {"default", "plan", "full_auto"}
    BY DEF Frames, Modes
  <1>2. PICK ruled \in BOOLEAN :
          \/ Evaluate(t, f.checker, ruled) = "allow" /\ ~ yes
          \/ Evaluate(t, f.checker, ruled) = "confirm" /\ PermissionPrompt(f) /\ yes
    BY DEF Permitted
  <1>3. t \notin DeniedTools
    BY <1>2 DEF Evaluate
  <1>4. ASSUME t \notin ReadOnly \union AllowedTools
        PROVE  Evaluate(t, f.checker, ruled) =
                 IF ruled THEN "deny"
                 ELSE IF f.checker = "full_auto" THEN "allow"
                 ELSE IF f.checker = "plan" THEN "deny" ELSE "confirm"
    BY <1>3, <1>4 DEF Evaluate
  <1>5. ASSUME t \notin ReadOnly \union AllowedTools
        PROVE  IF yes THEN f.checker = "default" /\ f.prompts ELSE f.checker = "full_auto"
    <2>1. ~ ruled
      BY <1>2, <1>4, <1>5
    <2>2. CASE yes
      BY <1>1, <1>2, <1>4, <1>5, <2>1, <2>2 DEF PermissionPrompt
    <2>3. CASE ~ yes
      BY <1>1, <1>2, <1>4, <1>5, <2>1, <2>3
    <2> QED
      BY <2>2, <2>3
  <1> QED
    BY <1>3, <1>5

\* What is executed keeps what is said of the last call.
LEMMA ExecutedPreserves ==
    ASSUME IInv, stack # <<>>,
           NEW t \in Registry(Top).names, NEW skill, NEW yes \in BOOLEAN, Permitted(Top, t, yes),
           t = SkillTool => skill \in Served(Top),
           last' = {Executed(Top, t, skill, yes)}, UNCHANGED <<sessionVars, entered>>
    PROVE  NoWriteUnasked' /\ ScopeRespected' /\ HooksFollowTheNode'
  <1> DEFINE f == Top
             call == Executed(f, t, skill, yes)
             first == stack[1]
  <1>0. /\ f \in Frames /\ FrameIsTrue(f) /\ f.depth = Len(stack) /\ f = stack[Len(stack)]
        /\ first.depth = 1 /\ StandsOn(first, first) /\ StandsOn(f, first)
        /\ t \in Registry(f).names
    BY TopIsFrame
  <1>1. /\ call.workflow = f.workflow /\ call.node = f.node /\ call.tool = t
        /\ call.skill = skill /\ call.nested = f.metadata.called
        /\ call.depth = f.depth /\ call.signal = Registry(f).signal
        /\ call.outermost.workflow = first.workflow /\ call.outermost.node = first.node
        /\ call.hooks = Matching(Executor(f), t)
        /\ call.yes = IF ~ yes THEN "needless" ELSE IF frontend = "print" THEN "print" ELSE "user"
    BY DEF Executed
  <1>2. last' = {call}
    OBVIOUS
  <1> HIDE DEF call
  <1>3. TypeOK /\ t \in Tools
    BY <1>0, RegistryHasType DEF IInv, Registries
  <1>4. NoWriteUnasked'
    <2>1. /\ t \notin DeniedTools
          /\ t \notin ReadOnly \union AllowedTools =>
               IF yes THEN f.checker = "default" /\ f.prompts ELSE f.checker = "full_auto"
      BY <1>0, <1>3, PermittedCall
    <2>2. /\ f.checker = IF f.metadata.called THEN toolChecker
                         ELSE IF f.node = None THEN entered.session ELSE entered.settings
          /\ f.metadata.called => ~ f.prompts
      BY <1>0 DEF FrameIsTrue
    <2>3. entered' = entered /\ frontend' = frontend /\ toolChecker' = toolChecker
      BY DEF sessionVars
    <2> HIDE DEF f
    <2>4. CASE yes
      BY <1>1, <1>2, <2>1, <2>2, <2>3, <2>4 DEF NoWriteUnasked
    <2>5. CASE ~ yes
      BY <1>1, <1>2, <2>1, <2>2, <2>3, <2>5 DEF NoWriteUnasked
    <2> QED
      BY <2>4, <2>5
  <1>5. ScopeRespected'
    <2>1. skills' = skills /\ tools' = tools
      BY DEF sessionVars
    <2>2. (f.depth = 1 => f = first) /\ (f.metadata.called <=> f.depth # 1)
          /\ (f.depth # 1 => f.node # None)
      BY <1>0 DEF FrameIsTrue
    <2>3. /\ f.node # None =>
               \/ Declared(f.workflow, f.node, t)
               \/ t = SkillTool \/ (t = SignalTool /\ Signals(f.node))
          /\ t \notin {SkillTool, SignalTool} =>
               t \in tools /\ (first.node # None => Declared(first.workflow, first.node, t))
          /\ t = SignalTool =>
               /\ f.node # None
               /\ IF Signals(f.node) THEN Registry(f).signal = f.depth
                  ELSE /\ f.depth # 1 /\ Registry(f).signal = 1
                       /\ first.node # None /\ Signals(first.node)
      <3>1. /\ SignalTool \notin tools /\ first.depth = 1 /\ StandsOn(first, first)
            /\ StandsOn(f, first) /\ t \in Registry(f).names
            /\ (f.depth = 1 => f = first) /\ (f.depth # 1 => f.node # None)
        BY <1>0, <2>2 DEF IInv
      <3> HIDE DEF f, first
      <3> QED
        BY <3>1, RegistryIsTrue
    <2>4. f.node # None /\ t = SkillTool =>
            LET served == NodeSpecs[f.node].skills \union Globals[f.workflow].skills
            IN  skill \in skills /\ (served # {} => skill \in served)
      BY DEF Served, ScopedSkills
    <2> HIDE DEF f, first
    <2> QED
      BY <1>1, <1>2, <2>1, <2>2, <2>3, <2>4 DEF ScopeRespected
  <1>6. HooksFollowTheNode'
    <2> DEFINE own == IF f.node = None THEN {}
                      ELSE NodeSpecs[f.node].hooks \union Globals[f.workflow].hooks
    <2>1. /\ hooks \union own \subseteq Executor(f)
          /\ ~ f.metadata.called \/ own # {} => Executor(f) = hooks \union own
      BY <1>0, <1>3, ExecutorIsTrue
    <2>2. /\ Matching(hooks \union own, t) \subseteq Matching(Executor(f), t)
          /\ ~ f.metadata.called \/ own # {} =>
               Matching(Executor(f), t) = Matching(hooks \union own, t)
      BY <2>1 DEF Matching
    <2>3. hooks' = hooks
      BY DEF sessionVars
    <2> QED
      BY <1>1, <1>2, <2>2, <2>3 DEF HooksFollowTheNode
  <1> QED
    BY <1>4, <1>5, <1>6

----------------------------------------------------------------------------
(* The steps *)

LEMMA InitEstablishes == Init => IInv
  <1> SUFFICES ASSUME Init PROVE IInv
    OBVIOUS
  <1> PICK connected \in SUBSET Servers, found \in SUBSET Skills, loaded \in SUBSET DOMAIN Plugins :
        /\ frontend \in Frontends
        /\ tools = Plain \union {Ask} \union RegisterMcpTools(connected)
                    \union (IF found = {} THEN {} ELSE {SkillTool})
                    \union (IF Workflows = {} THEN {} ELSE {WorkflowTool})
        /\ hooks = LoadHooks(loaded)
        /\ file \in Modes /\ checker = file /\ toolChecker = file
        /\ stack = <<>> /\ lines = 0
        /\ entered = [session |-> checker, settings |-> file] /\ last = {}
    BY DEF Init
  <1>1. tools \subseteq Tools /\ SignalTool \notin tools
    BY ScopeAssumption DEF RegisterMcpTools, Tools, Ask, WorkflowTool, SkillTool, SignalTool
  <1>2. hooks \subseteq Hooks
    <2>1. SettingsHooks \in HookSets /\ \A p \in loaded : Plugins[p].hooks \in HookSets
      BY DEF HookSets
    <2> QED
      BY <2>1 DEF LoadHooks, Hooks
  <1>3. stack \in Seq(Frames) /\ Len(stack) = 0 /\ DOMAIN stack = {}
    BY EmptySeq, LenProperties
  <1>4. TypeOK
    BY <1>1, <1>2, <1>3, RuntimeAssumption DEF TypeOK
  <1>5. FramesAreTrue
    BY <1>3 DEF FramesAreTrue
  <1>6. NoWriteUnasked /\ ScopeRespected /\ HooksFollowTheNode
    BY DEF NoWriteUnasked, ScopeRespected, HooksFollowTheNode
  <1> QED
    BY <1>1, <1>4, <1>5, <1>6 DEF IInv

\* Frames are judged by what the session was built with and the line began with.
LEMMA SameFrames ==
    ASSUME FramesAreTrue, UNCHANGED <<sessionVars, stack, entered>>
    PROVE  FramesAreTrue'
  <1> SUFFICES ASSUME NEW i \in DOMAIN stack
               PROVE  /\ stack'[i].depth = i /\ FrameIsTrue(stack[i])'
                      /\ StandsOn(stack[i], stack[1])'
    BY DEF FramesAreTrue
  <1>1. stack[i].depth = i /\ FrameIsTrue(stack[i]) /\ StandsOn(stack[i], stack[1])
    BY DEF FramesAreTrue
  <1>2. FrameIsTrue(stack[i])'
    BY <1>1 DEF FrameIsTrue, sessionVars
  <1>3. StandsOn(stack[i], stack[1])'
    BY <1>1 DEF StandsOn, SessionTools, Registry, sessionVars
  <1> QED
    BY <1>1, <1>2, <1>3

LEMMA AcceptingBoundsLines ==
    ASSUME IInv, Accepting, lines' = lines + 1
    PROVE  lines' \in 0..MaxLines
  <1>1. MaxLines \in Nat \ {0} /\ lines \in 0..MaxLines
    BY RuntimeAssumption DEF IInv, TypeOK
  <1>2. lines < 1 \/ lines < MaxLines
    BY DEF Accepting
  <1> QED
    BY <1>1, <1>2

\* The mode changes, of the settings or of the session too; what is under way
\* goes on as before.
LEMMA ModesPreserve == IInv /\ (SetMode \/ EditSettings) => IInv'
  <1> SUFFICES ASSUME IInv, SetMode \/ EditSettings PROVE IInv'
    OBVIOUS
  <1>1. /\ file' \in Modes /\ checker' \in {checker, file'}
        /\ UNCHANGED <<sessionVars, stack, entered, last>>
    BY DEF SetMode, EditSettings
  <1>2. lines' \in 0..MaxLines
    BY AcceptingBoundsLines DEF IInv, TypeOK, SetMode, EditSettings
  <1>3. TypeOK' /\ SignalTool \notin tools'
    BY <1>1, <1>2 DEF IInv, TypeOK, sessionVars
  <1>4. FramesAreTrue'
    BY <1>1, SameFrames DEF IInv
  <1>5. NoWriteUnasked' /\ ScopeRespected' /\ HooksFollowTheNode'
    BY <1>1 DEF IInv, NoWriteUnasked, ScopeRespected, HooksFollowTheNode, sessionVars
  <1> QED
    BY <1>3, <1>4, <1>5 DEF IInv

\* A line starts with one frame, given the session's tools and hooks.
LEMMA StartPreserves == IInv /\ (StartTurn \/ StartWorkflow) => IInv'
  <1> SUFFICES ASSUME IInv, StartTurn \/ StartWorkflow PROVE IInv'
    OBVIOUS
  <1>1. /\ SessionTools \in Registries
        /\ SessionMetadata \in Metadata /\ ~ SessionMetadata.called
        /\ SessionMetadata.executor = hooks
    <2>1. 0 \in 0..MaxDepth
      BY RuntimeAssumption
    <2> QED
      BY <2>1 DEF SessionTools, Registries, SessionMetadata, Metadata, IInv, TypeOK
  <1>2. PICK w \in Workflows \union {None}, n \in DOMAIN NodeSpecs \union {None} :
          /\ n # None => w # None
          /\ stack' = <<Frame(1, w, n, IF n = None THEN checker ELSE file, TRUE,
                              SessionTools, SessionMetadata)>>
    <2>1. CASE StartTurn
      BY <2>1 DEF StartTurn
    <2>2. CASE StartWorkflow
      <3>1. PICK w \in Workflows : \E n \in WorkflowNodes[w] :
               stack' = <<Frame(1, w, n, file, TRUE, SessionTools, SessionMetadata)>>
        BY <2>2 DEF StartWorkflow
      <3>2. PICK n \in WorkflowNodes[w] :
               stack' = <<Frame(1, w, n, file, TRUE, SessionTools, SessionMetadata)>>
        BY <3>1
      <3>3. w # None /\ n # None /\ n \in DOMAIN NodeSpecs
        BY RuntimeAssumption
      <3> QED
        BY <3>2, <3>3
    <2> QED
      BY <2>1, <2>2
  <1> DEFINE mode == IF n = None THEN checker ELSE file
             f == Frame(1, w, n, mode, TRUE, SessionTools, SessionMetadata)
  <1>3. mode \in Modes /\ 1 \in 1..MaxDepth
    BY RuntimeAssumption DEF IInv, TypeOK
  <1>4. f \in Frames
    BY <1>1, <1>2, <1>3, FrameHasType
  <1>5. /\ entered' = [session |-> checker, settings |-> file] /\ last' = {}
        /\ UNCHANGED <<sessionVars, file, checker>>
    BY DEF StartTurn, StartWorkflow, Enter
  <1>6. /\ f.depth = 1 /\ f.node = n /\ f.checker = mode /\ f.full = SessionTools
        /\ f.metadata = SessionMetadata
    BY DEF Frame
  <1> HIDE DEF f, mode
  <1>7. stack' = <<f>>
    BY <1>2 DEF f, mode
  <1>8. /\ stack' \in Seq(Frames) /\ Len(stack') = 1
         /\ \A i \in DOMAIN stack' : i = 1 /\ stack'[i] = f
    BY <1>4, <1>7
  <1>9. lines' \in 0..MaxLines
    BY AcceptingBoundsLines DEF StartTurn, StartWorkflow
  <1>10. TypeOK' /\ SignalTool \notin tools'
    BY <1>5, <1>8, <1>9, RuntimeAssumption DEF IInv, TypeOK, sessionVars
  <1>11. FramesAreTrue'
    <2>1. stack'[1] = f
      BY <1>7
    <2>2. FrameIsTrue(stack[1])'
      BY <1>1, <1>5, <1>6, <2>1 DEF FrameIsTrue, sessionVars, mode
    <2>3. StandsOn(stack[1], stack[1])'
      BY <1>1, <1>5, <1>6, <2>1 DEF StandsOn, SessionTools, sessionVars
    <2> QED
      BY <1>6, <1>8, <2>1, <2>2, <2>3 DEF FramesAreTrue
  <1>12. NoWriteUnasked' /\ ScopeRespected' /\ HooksFollowTheNode'
    BY <1>5 DEF NoWriteUnasked, ScopeRespected, HooksFollowTheNode
  <1> QED
    BY <1>10, <1>11, <1>12 DEF IInv

\* A workflow moves on, or frames go.
LEMMA FramesPreserve == IInv /\ (MoveOn \/ EndFrame \/ CancelLine) => IInv'
  <1> SUFFICES ASSUME IInv, MoveOn \/ EndFrame \/ CancelLine PROVE IInv'
    OBVIOUS
  <1>1. /\ stack # <<>>
        /\ UNCHANGED <<sessionVars, file, checker, entered, last, lines>>
    BY DEF MoveOn, EndFrame, CancelLine
  <1>2. stack \in Seq(Frames) /\ Len(stack) <= MaxDepth /\ lines' \in 0..MaxLines
    BY <1>1 DEF IInv, TypeOK
  <1>3. \A i \in DOMAIN stack :
           stack[i].depth = i /\ FrameIsTrue(stack[i]) /\ StandsOn(stack[i], stack[1])
    BY DEF IInv, FramesAreTrue
  <1>4. CASE MoveOn
    <2>1. Top.node # None
      BY <1>4 DEF MoveOn
    <2>2. PICK n \in NodeSpecs[Top.node].next : stack' = [stack EXCEPT ![Len(stack)].node = n]
      BY <1>4 DEF MoveOn
    <2>3. /\ Len(stack) \in 1..MaxDepth /\ Top = stack[Len(stack)] /\ Top \in Frames
          /\ FrameIsTrue(Top) /\ Top.depth = Len(stack) /\ StandsOn(Top, stack[1])
      BY <1>1, TopIsFrame
    <2>4. n \in DOMAIN NodeSpecs /\ n # None
      BY <2>1, <2>2, <2>3, RuntimeAssumption DEF Frames
    <2> DEFINE f == [Top EXCEPT !.node = n]
    <2>5. f \in Frames
      BY <2>1, <2>3, <2>4 DEF Frames
    <2>6. /\ f.depth = Top.depth /\ f.full = Top.full /\ f.metadata = Top.metadata
          /\ f.node = n /\ f.checker = Top.checker /\ f.prompts = Top.prompts
      BY <2>3 DEF Frames
    <2>7. FrameIsTrue(f)
      BY <2>1, <2>3, <2>4, <2>6 DEF FrameIsTrue
    <2>8. stack' = [stack EXCEPT ![Len(stack)] = f]
      BY <2>2, <2>3
    <2> HIDE DEF f
    <2>9. stack' \in Seq(Frames) /\ Len(stack') = Len(stack) /\ DOMAIN stack' = DOMAIN stack
      BY <1>2, <2>3, <2>5, <2>8, ExceptSeq
    <2>10. DOMAIN stack = 1..Len(stack)
      BY <1>2
    <2>11. ASSUME NEW i \in DOMAIN stack'
           PROVE  /\ stack'[i].depth = i /\ FrameIsTrue(stack'[i])
                  /\ StandsOn(stack'[i], stack'[1])
      <3>1. CASE i = Len(stack)
        <4>1. stack'[i] = f
          BY <2>8, <2>9, <3>1
        <4>2. CASE i = 1
          BY <2>3, <2>6, <2>7, <3>1, <4>1, <4>2 DEF StandsOn, FrameIsTrue
        <4>3. CASE i # 1
          <5>1. stack'[1] = stack[1]
            BY <2>3, <2>8, <2>10, <3>1, <4>3
          <5> QED
            BY <2>3, <2>6, <2>7, <3>1, <4>1, <5>1 DEF StandsOn
        <4> QED
          BY <4>2, <4>3
      <3>2. CASE i # Len(stack)
        <4>1. stack'[i] = stack[i] /\ stack'[1] = stack[1]
          BY <2>3, <2>8, <2>9, <2>10, <3>2
        <4> QED
          BY <1>3, <2>9, <4>1
      <3> QED
        BY <3>1, <3>2
    <2> QED
      BY <1>1, <1>2, <2>9, <2>11, StackPreserves
  <1>5. CASE EndFrame
    <2>1. stack' = Front(stack)
      BY <1>5 DEF EndFrame
    <2>2. /\ stack' \in Seq(Frames) /\ Len(stack') <= MaxDepth
          /\ \A i \in DOMAIN stack' : i \in DOMAIN stack /\ stack'[i] = stack[i]
      BY <1>1, <1>2, <2>1, FrontKeeps, LenProperties, RuntimeAssumption
    <2>3. \A i \in DOMAIN stack' : stack'[1] = stack[1]
      <3>1. DOMAIN stack' = 1..Len(stack') /\ Len(stack') \in Nat
        BY <2>2
      <3> QED
        BY <2>2, <3>1
    <2> QED
      BY <1>1, <1>2, <1>3, <2>2, <2>3, StackPreserves
  <1>6. CASE CancelLine
    <2>1. stack' = <<>>
      BY <1>6 DEF CancelLine
    <2>2. stack' \in Seq(Frames) /\ Len(stack') <= MaxDepth /\ DOMAIN stack' = {}
      BY <2>1, EmptySeq, LenProperties, RuntimeAssumption
    <2> QED
      BY <1>1, <1>2, <2>2, StackPreserves
  <1> QED
    BY <1>4, <1>5, <1>6

\* A call that starts no workflow.
LEMMA CallPreserves == IInv /\ (CallTool \/ LoadSkill) => IInv'
  <1> SUFFICES ASSUME IInv, CallTool \/ LoadSkill PROVE IInv'
    OBVIOUS
  <1>1. stack # <<>> /\ UNCHANGED <<sessionVars, file, checker, stack, lines, entered>>
    BY DEF CallTool, LoadSkill
  <1>2. PICK t \in Registry(Top).names, skill \in {None} \union Served(Top), yes \in BOOLEAN :
          /\ Permitted(Top, t, yes) /\ last' = {Executed(Top, t, skill, yes)}
          /\ t = SkillTool => skill \in Served(Top)
    BY DEF CallTool, LoadSkill
  <1>3. NoWriteUnasked' /\ ScopeRespected' /\ HooksFollowTheNode'
    BY <1>1, <1>2, ExecutedPreserves
  <1>4. TypeOK' /\ SignalTool \notin tools'
    BY <1>1 DEF IInv, TypeOK, sessionVars
  <1>5. FramesAreTrue'
    BY <1>1, SameFrames DEF IInv
  <1> QED
    BY <1>3, <1>4, <1>5 DEF IInv

\* A workflow that is started by a call: a frame without prompts, given the
\* hooks of the call and the registry of the outermost frame, in the mode the
\* session was built with.
LEMMA CallWorkflowPreserves == IInv /\ CallWorkflow => IInv'
  <1> SUFFICES ASSUME IInv, CallWorkflow PROVE IInv'
    OBVIOUS
  <1>1. /\ stack # <<>> /\ Len(stack) < MaxDepth /\ WorkflowTool \in Registry(Top).names
        /\ UNCHANGED <<sessionVars, file, checker, lines, entered>>
    BY DEF CallWorkflow
  <1>2. /\ Top \in Frames /\ FrameIsTrue(Top) /\ TypeOK /\ Len(stack) \in 1..MaxDepth
        /\ Top.depth = Len(stack) /\ Top = stack[Len(stack)] /\ StandsOn(Top, stack[1])
    BY <1>1, TopIsFrame DEF IInv
  <1> DEFINE new(w, n) == Frame(Len(stack) + 1, w, n, toolChecker, FALSE,
                                CallMetadata(Top).registry, CallMetadata(Top))
  <1>a. PICK yes \in BOOLEAN, w \in Workflows : \E n \in WorkflowNodes[w] :
        /\ Permitted(Top, WorkflowTool, yes)
        /\ last' = {Executed(Top, WorkflowTool, None, yes)}
        /\ stack' = Append(stack, new(w, n))
    BY DEF CallWorkflow
  <1>b. PICK n \in WorkflowNodes[w] :
        /\ Permitted(Top, WorkflowTool, yes)
        /\ last' = {Executed(Top, WorkflowTool, None, yes)}
        /\ stack' = Append(stack, new(w, n))
    BY <1>a
  <1>3. NoWriteUnasked' /\ ScopeRespected' /\ HooksFollowTheNode'
    BY <1>1, <1>b, ExecutedPreserves DEF WorkflowTool, SkillTool
  <1>4. /\ CallMetadata(Top) \in Metadata /\ CallMetadata(Top).called
        /\ hooks \subseteq CallMetadata(Top).executor
        /\ CallMetadata(Top).registry \in Registries
    BY <1>2, CallMetadataIsTrue
  <1>5. n \in DOMAIN NodeSpecs /\ w # None /\ n # None
    BY <1>a, <1>b, RuntimeAssumption
  <1>6. CallMetadata(Top).registry = Registry(stack[1])
    <2>1. CASE Top.metadata.called
      BY <1>2, <2>1 DEF CallMetadata, StandsOn
    <2>2. CASE ~ Top.metadata.called
      BY <1>2, <2>2 DEF CallMetadata, FrameIsTrue
    <2> QED
      BY <2>1, <2>2
  <1> DEFINE f == new(w, n)
  <1>7. Len(stack) + 1 \in 1..MaxDepth /\ Len(stack) + 1 # 1
    BY <1>1, <1>2, RuntimeAssumption
  <1>8. f \in Frames
    BY <1>2, <1>4, <1>5, <1>7, FrameHasType DEF TypeOK
  <1>9. /\ f.depth = Len(stack) + 1 /\ f.node = n /\ f.checker = toolChecker /\ f.prompts = FALSE
        /\ f.full = CallMetadata(Top).registry /\ f.metadata = CallMetadata(Top)
    BY DEF Frame
  <1>10. FrameIsTrue(f)
    BY <1>4, <1>5, <1>7, <1>9 DEF FrameIsTrue
  <1>11. StandsOn(f, stack[1])
    BY <1>6, <1>7, <1>9 DEF StandsOn
  <1>12. stack' = Append(stack, f)
    BY <1>b
  <1> HIDE DEF f, new
  <1>13. stack \in Seq(Frames) /\ DOMAIN stack = 1..Len(stack)
    BY <1>2, LenProperties DEF TypeOK
  <1>14. /\ stack' \in Seq(Frames) /\ Len(stack') = Len(stack) + 1
         /\ DOMAIN stack' = 1..(Len(stack) + 1)
         /\ \A i \in 1..Len(stack) : stack'[i] = stack[i]
         /\ stack'[Len(stack) + 1] = f
    BY <1>8, <1>12, <1>13, AppendProperties
  <1>15. TypeOK' /\ SignalTool \notin tools'
    <2>1. Len(stack') <= MaxDepth
      BY <1>7, <1>14
    <2> QED
      BY <1>1, <1>14, <2>1 DEF IInv, TypeOK, sessionVars
  <1>16. FramesAreTrue'
    <2> SUFFICES ASSUME NEW i \in DOMAIN stack'
                 PROVE  /\ stack'[i].depth = i /\ FrameIsTrue(stack[i])'
                        /\ StandsOn(stack[i], stack[1])'
      BY DEF FramesAreTrue
    <2>1. stack'[1] = stack[1]
      BY <1>2, <1>14
    <2>2. stack'[i].depth = i /\ FrameIsTrue(stack'[i]) /\ StandsOn(stack'[i], stack[1])
      <3>1. CASE i = Len(stack) + 1
        BY <1>9, <1>10, <1>11, <1>14, <3>1
      <3>2. CASE i \in 1..Len(stack)
        BY <1>13, <1>14, <3>2 DEF IInv, FramesAreTrue
      <3>3. i = Len(stack) + 1 \/ i \in 1..Len(stack)
        BY <1>2, <1>14
      <3> QED
        BY <3>1, <3>2, <3>3
    <2>3. FrameIsTrue(stack[i])'
      BY <1>1, <2>2 DEF FrameIsTrue, sessionVars
    <2>4. StandsOn(stack[i], stack[1])'
      BY <1>1, <2>1, <2>2 DEF StandsOn, SessionTools, Registry, sessionVars
    <2> QED
      BY <2>2, <2>3, <2>4
  <1> QED
    BY <1>3, <1>15, <1>16 DEF IInv

LEMMA StutterPreserves == IInv /\ UNCHANGED vars => IInv'
  <1> SUFFICES ASSUME IInv, UNCHANGED vars PROVE IInv'
    OBVIOUS
  <1>1. UNCHANGED <<sessionVars, file, checker, stack, lines, entered, last>>
    BY DEF vars
  <1>2. TypeOK' /\ SignalTool \notin tools'
    BY <1>1 DEF IInv, TypeOK, sessionVars
  <1>3. FramesAreTrue'
    BY <1>1, SameFrames DEF IInv
  <1>4. NoWriteUnasked' /\ ScopeRespected' /\ HooksFollowTheNode'
    BY <1>1 DEF IInv, NoWriteUnasked, ScopeRespected, HooksFollowTheNode, sessionVars
  <1> QED
    BY <1>2, <1>3, <1>4 DEF IInv

THEOREM RuntimeInvariant == Spec => []IInv
  <1>1. IInv /\ [Next]_vars => IInv'
    BY ModesPreserve, StartPreserves, FramesPreserve, CallPreserves, CallWorkflowPreserves,
       StutterPreserves
    DEF Next
  <1> QED
    BY InitEstablishes, <1>1, PTL DEF Spec

----------------------------------------------------------------------------
(* Theorems *)

\* The type of the variables; a line has at most MaxDepth frames.
THEOREM RuntimeTypes == Spec => []TypeOK
  BY RuntimeInvariant, PTL DEF IInv

\* Every change is made as the mode that governs its line demands, whichever way
\* the tool is reached and whatever becomes of the modes later: in a workflow the
\* agent starts that is the mode the session was built with, also when the user
\* has changed it since (query.py:150-196; workflow_tool.py:84-96; runtime.py:178).
THEOREM ChangesAreAskedFor == Spec => []NoWriteUnasked
  BY RuntimeInvariant, PTL DEF IInv

\* A node uses what it and its workflow declare; in workflows that start
\* workflows, to any depth, it gets nothing the outermost node of the line does
\* not have, and a signal tool of its own or, with its leave, of that node
\* (engine.py:349-447; query.py:198-202).
THEOREM NodesStayInScope == Spec => []ScopeRespected
  BY RuntimeInvariant, PTL DEF IInv

\* The session's hooks see every call, a node's those of the node
\* (engine.py:425-447; query.py:203-230).
THEOREM HooksSeeTheirCalls == Spec => []HooksFollowTheNode
  BY RuntimeInvariant, PTL DEF IInv
=============================================================================
