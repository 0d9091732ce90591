--------------------------- MODULE WorkflowEngine ---------------------------
(***************************************************************************)
(* WorkflowEngine.execute (workflow/engine.py:172-347): the deterministic  *)
(* walk of a workflow graph.  A sequential node is one run of the agent    *)
(* loop under a fresh signal tool; a parallel node is one step, whose      *)
(* inside is module ParallelNode.  When a node completes, its result       *)
(* selects the edge to follow, an audit record is appended, and the        *)
(* node's summary or text becomes the context of the next one.             *)
(***************************************************************************)
EXTENDS NodeRun, Integers, Sequences, SequencesExt

CONSTANTS
    NoNode, MatchesOf, Malformed,      \* see Transitions
    Nodes, Start,
    EdgesOf,          \* [Nodes -> sequence of edges]
    MaxTurns,         \* [Nodes -> max_turns]
    Parallel,         \* nodes with a parallel spec
    WhenOf,           \* [Parallel -> [branch names -> condition]]
    GatesOf,          \* [Parallel -> the branches that require approval]
    Attended,         \* interactive nodes, in a session with a user to ask
    Decisions,        \* decisions a model may signal
    MaxExecutions     \* bound: length of the audit trail

INSTANCE Transitions

\* A condition reads the decision, the tools or the text of a result.
Conditions ==
    [type : {"signal"}, value : Decisions, negate : BOOLEAN]
    \union [type : {"tool_was_called"}, value : Tools, negate : BOOLEAN]
    \union [type : {"output_matches"}, value : DOMAIN MatchesOf \union Malformed,
            negate : BOOLEAN]
    \union [type : {"always"}, value : {""}, negate : BOOLEAN]

\* What the pydantic models and _validate_graph accept (types.py:71-184).
ASSUME GraphAssumption ==
    /\ NoNode \notin Nodes /\ Start \in Nodes
    /\ NoSignal \notin Decisions
    /\ EdgesOf \in [Nodes -> Seq([target : Nodes, when : Conditions, priority : Int])]
    /\ MaxTurns \in [Nodes -> Nat]
    /\ Parallel \subseteq Nodes /\ Attended \subseteq Nodes
    /\ MaxExecutions \in Nat
    /\ Silence \in Texts

VARIABLES
    pc,           \* "enter", "running" or "returned"
    current,      \* current_name
    previous,     \* prev_node_result
    carry,        \* carry_forward: index of the record it stems from, 0: the user
    audit,        \* node_executions
    outcome,      \* "none", "success", or the error of a failed workflow
    \* history variable
    latest        \* the decision accepted last since the node was entered

engineVars == <<pc, current, previous, carry, audit, outcome, latest>>
vars == <<engineVars, runVars>>

NoResult == [none |-> TRUE]

Edges == EdgesOf[current]

\* The signal tool of a node: absent from a terminal node, restricted to the
\* values of the node's signal edges, unrestricted when it has none.
Accepted(node) ==
    IF IsTerminal(EdgesOf[node]) THEN {}
    ELSE IF SignalDecisions(EdgesOf[node]) = {} THEN Decisions
    ELSE SignalDecisions(EdgesOf[node])

Init ==
    /\ RunInit
    /\ pc = "enter"
    /\ current = Start
    /\ previous = NoResult
    /\ carry = 0
    /\ audit = <<>>
    /\ outcome = "none"
    /\ latest = NoSignal

----------------------------------------------------------------------------
(* One node *)

\* A sequential node starts: a new signal tool, a new message list.
EnterNode ==
    /\ pc = "enter"
    /\ current \notin Parallel
    /\ Len(audit) < MaxExecutions
    /\ pc' = "running"
    /\ RunReset
    /\ latest' = NoSignal
    /\ UNCHANGED <<current, previous, carry, audit, outcome>>

\* The agent loop of the node moves: it comes closer to its end, or its calls
\* wait for the user, signal and complete.
AdvanceNode ==
    /\ pc = "running"
    /\ RunProgress(MaxTurns[current])
    /\ UNCHANGED engineVars

SignalInNode ==
    /\ pc = "running"
    /\ Signal(Accepted(current))
    /\ latest' = captured'
    /\ UNCHANGED <<pc, current, previous, carry, audit, outcome>>

CallInNode ==
    /\ pc = "running"
    /\ Report \/ Wait \/ Resume \/ FailWaiting
    /\ UNCHANGED engineVars

Successor(result) == EvaluateTransitions(Edges, result)

\* Variant: the record is written after current_name has been advanced.
RecordAdvanced(result, summary, branches) ==
    [node    |-> IF Successor(result) = NoNode THEN current ELSE Successor(result),
     signal  |-> result.signal,
     summary |-> summary,
     tools   |-> result.tools,
     next    |-> Successor(result),
     branches |-> branches]

Record(result, summary, branches) ==
    [node     |-> current,
     signal   |-> result.signal,
     summary  |-> summary,
     tools    |-> result.tools,
     next     |-> Successor(result),
     branches |-> branches]

\* Variant: prev_node_result is not updated.
RememberNothing(result) == previous' = previous

Remember(result) == previous' = result

\* A node has its result: the record is appended and the engine moves to the
\* successor; without one the workflow returns, and does so as a success.
Complete(result, summary, branches) ==
    LET next == Successor(result)
    IN  /\ audit' = Append(audit, Record(result, summary, branches))
        /\ Remember(result)
        /\ current' = next
        /\ pc' = IF next = NoNode THEN "returned" ELSE "enter"
        /\ outcome' = IF next = NoNode THEN "success" ELSE "none"

\* Variant: a failed node is tried again.
AbortRetries(error) ==
    /\ pc' = "enter"
    /\ UNCHANGED <<current, previous, carry, audit, outcome, latest>>

\* Variant: a failed workflow starts over.
AbortRestarts(error) ==
    /\ pc' = "enter"
    /\ current' = Start
    /\ UNCHANGED <<previous, carry, audit, outcome, latest>>

\* The `except` of the loop: the trail is closed as it stands.
Abort(error) ==
    /\ pc' = "returned"
    /\ outcome' = error
    /\ UNCHANGED <<current, previous, carry, audit, latest>>

\* Variant: only a final text is carried forward.
HandOnText(summary) ==
    carry' = IF text # Silence THEN Len(audit) + 1 ELSE carry

\* A summary goes before the text; a node with neither leaves carry_forward alone.
HandOn(summary) ==
    carry' = IF summary \/ text # Silence THEN Len(audit) + 1 ELSE carry

NodeResult == [signal |-> captured, tools |-> called, text |-> text]

\* The run finished.  Only a captured signal can have a summary.
CompleteNode ==
    /\ pc = "running"
    /\ status = "finished"
    /\ ~ Raises(Edges, NodeResult)
    /\ \E summary \in {FALSE, captured # NoSignal} :
           Complete(NodeResult, summary, {}) /\ HandOn(summary)
    /\ UNCHANGED <<runVars, latest>>

\* The run raised, or the edges hold a pattern that does not compile.
AbortNode ==
    /\ pc = "running"
    /\ \/ status = "failed" /\ Abort("exception")
       \/ status = "exhausted" /\ Abort("turn limit")
       \/ /\ status = "finished"
          /\ Raises(Edges, NodeResult)
          /\ Abort("exception")
    /\ UNCHANGED runVars

----------------------------------------------------------------------------
(* Parallel nodes *)

\* The branches whose condition the previous node's result meets; the first
\* node of a workflow has no result to meet and runs its `always` branches.
Triggered(node) ==
    {b \in DOMAIN WhenOf[node] :
        IF previous = NoResult
        THEN WhenOf[node][b].type = "always"
        ELSE Matches(WhenOf[node][b], previous)}

\* A branch condition holds a pattern that does not compile.
BranchRaises(node) ==
    /\ previous # NoResult
    /\ \E b \in DOMAIN WhenOf[node] :
           /\ WhenOf[node][b].type = "output_matches"
           /\ WhenOf[node][b].value \in Malformed

\* The user is asked to approve a branch before any is started.
WaitsAtGate ==
    /\ pc = "enter"
    /\ current \in Parallel \cap Attended
    /\ ~ BranchRaises(current)
    /\ Triggered(current) \cap GatesOf[current] # {}

\* A parallel node as a whole.  It has no signal tool and no signal; its text
\* is the merged report of the branches, which is never empty; a denied or
\* failed branch is part of the report and does not fail the node.
ExecuteParallel ==
    /\ pc = "enter"
    /\ current \in Parallel
    /\ Len(audit) < MaxExecutions
    /\ ~ BranchRaises(current)
    /\ \E tools \in SUBSET Tools, report \in Texts \ {Silence} :
           LET result == [signal |-> NoSignal, tools |-> tools, text |-> report]
           IN  /\ Triggered(current) = {} => tools = {}
               /\ IF Raises(Edges, result)
                  THEN Abort("exception")
                  ELSE /\ Complete(result, FALSE, Triggered(current))
                       /\ carry' = Len(audit) + 1
                       /\ latest' = latest
    /\ UNCHANGED runVars

\* Asking for an approval raised, or a branch condition did.
AbortParallel ==
    /\ pc = "enter"
    /\ current \in Parallel
    /\ Triggered(current) # {} \/ BranchRaises(current)
    /\ Abort("exception")
    /\ UNCHANGED runVars

----------------------------------------------------------------------------
\* The workflow has returned, or the bound stops the model where the code
\* would go on.
Stopped ==
    /\ pc = "returned" \/ (pc = "enter" /\ Len(audit) = MaxExecutions)
    /\ UNCHANGED vars

Next ==
    \/ EnterNode \/ AdvanceNode \/ SignalInNode \/ CallInNode
    \/ CompleteNode \/ AbortNode
    \/ ExecuteParallel \/ AbortParallel
    \/ Stopped

\* The engine is one coroutine that resumes when what it awaits is there.  A run
\* that does not wait for the user comes closer to its end; strongly fair because
\* it waits a bounded number of times, which is what AgentLoop shows (LoopEnds).  A
\* parallel node that asks for no approval returns (ParallelNode, NodeReturns).
\* Nothing is assumed of the user, in a run or at a gate.
Fairness ==
    /\ WF_vars(EnterNode) /\ SF_vars(AdvanceNode)
    /\ WF_vars(CompleteNode) /\ WF_vars(AbortNode)
    /\ WF_vars(~ WaitsAtGate /\ (ExecuteParallel \/ AbortParallel))

Spec == Init /\ [][Next]_vars

FairSpec == Spec /\ Fairness

----------------------------------------------------------------------------
(* Properties *)

\* The type of the variables; a run stays within the turns of its node.
TypeOK ==
    /\ RunTypeOK
    /\ pc = "running" => turns <= MaxTurns[current]
    /\ captured \in Decisions \union {NoSignal} /\ latest \in Decisions \union {NoSignal}
    /\ pc \in {"enter", "running", "returned"}
    /\ current \in Nodes \union {NoNode}
    /\ carry \in Nat
    /\ audit \in Seq([node : Nodes, signal : Decisions \union {NoSignal},
                      summary : BOOLEAN, tools : SUBSET Tools,
                      next : Nodes \union {NoNode},
                      branches : SUBSET UNION {DOMAIN WhenOf[n] : n \in Parallel}])
    /\ outcome \in {"none", "success", "exception", "turn limit"}

\* The node the trail leads to: what its last record announces.
Announced == IF audit = <<>> THEN Start ELSE audit[Len(audit)].next

\* The trail is a walk of the graph that leads to where the engine is: every
\* record announces the node of the next one, along an edge of the graph, and
\* the node that is being executed, or that failed, is the one announced last
\* (engine.py:190, 210-226, 293-328, 330-338).
TrailIsWalk ==
    /\ current = Announced
    /\ \A i \in 1..Len(audit) :
          /\ audit[i].node = IF i = 1 THEN Start ELSE audit[i - 1].next
          /\ \/ audit[i].next = NoNode /\ i = Len(audit)
             \/ \E e \in DOMAIN EdgesOf[audit[i].node] :
                   EdgesOf[audit[i].node][e].target = audit[i].next

ReadsText(cond) == cond.type = "output_matches"

RecordResult(r) == [signal |-> r.signal, tools |-> r.tools, text |-> Silence]

\* The trail explains every transition: unless an edge reads the final text,
\* which is not recorded, the recorded decision and tools select the recorded
\* next node (audit.py:1, "audit trail for traceability").
TrailExplainsEdges ==
    \A i \in 1..Len(audit) :
        LET edges == EdgesOf[audit[i].node]
        IN  (\A e \in DOMAIN edges : ~ ReadsText(edges[e].when)) =>
                audit[i].next = EvaluateTransitions(edges, RecordResult(audit[i]))

\* The trail explains which branches ran: those whose condition the record of
\* the node before meets, or the unconditional ones when there is no node
\* before (engine.py:513-528).
TrailExplainsBranches ==
    \A i \in 1..Len(audit) :
        audit[i].node \in Parallel =>
            LET when == WhenOf[audit[i].node]
            IN  (\A b \in DOMAIN when : ~ ReadsText(when[b])) =>
                    audit[i].branches =
                        {b \in DOMAIN when :
                            IF i = 1 THEN when[b].type = "always"
                            ELSE Matches(when[b], RecordResult(audit[i - 1]))}

\* The trail accounts for what happened: for every transition and for every set
\* of branches that ran, on graphs with several edges and loops alike.
TrailExplains == TrailExplainsEdges /\ TrailExplainsBranches

\* What is recorded for a node is the decision its signal tool accepted last in
\* this very execution, or none: no signal of an earlier node is read again, also
\* when a loop comes back to the same node, and none of a branch; and it is one
\* of the node's own (engine.py:236-243, 293-311; docs/workflows.md:132).
SignalsBelong ==
    [][\A i \in DOMAIN audit' \ DOMAIN audit :
          LET record == audit'[i]
          IN  IF record.node \in Parallel THEN record.signal = NoSignal
              ELSE /\ record.signal = latest
                   /\ record.signal \in Accepted(record.node) \union {NoSignal}]_vars

\* The context handed on, and the final output, stem from the last node that
\* left anything: no later record has a summary or a branch report
\* (engine.py:203, 322-325, 335, 340).
CarryIsLatest ==
    /\ carry <= Len(audit)
    /\ \A i \in carry + 1 .. Len(audit) :
          ~ audit[i].summary /\ audit[i].node \notin Parallel

\* The walk the promise of GraphWalk is about: the nodes recorded and the one
\* that is being executed.
Walked ==
    [i \in 1..Len(audit) |-> audit[i].node]
    \o IF current = NoNode THEN <<>> ELSE <<current>>

Walk == INSTANCE GraphWalk WITH
            Successors <- [n \in Nodes |->
                              {EdgesOf[n][e].target : e \in DOMAIN EdgesOf[n]}],
            path <- Walked,
            walking <- pc # "returned"

\* The engine implements the promise: it only ever follows declared edges.
FollowsGraph == Walk!Spec

\* The workflow waits for the user.
Waits == WaitsAtGate \/ (pc = "running" /\ status = "waiting")

\* Every node that is entered ends, or waits for the user for ever: a workflow that
\* does neither return nor wait goes round a cycle of its graph and keeps
\* recording (engine.py:190, 330; backend_host.py:270-287).
WorkflowMovesOn == <>(pc = "returned" \/ Len(audit) = MaxExecutions \/ []Waits)
=============================================================================
