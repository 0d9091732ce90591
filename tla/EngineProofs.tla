---------------------------- MODULE EngineProofs ----------------------------
(***************************************************************************)
(* The two levels of the engine (workflow/engine.py), which share no       *)
(* variables.                                                              *)
(*                                                                         *)
(* The walk (WorkflowEngine), for every graph: the audit trail is a walk   *)
(* of the graph that leads to where the engine is, explains every          *)
(* transition it records, and holds signals of the node they are recorded  *)
(* for only.                                                               *)
(*                                                                         *)
(* The parallel node (ParallelNode), for every set of branches and calls:  *)
(* the broker lets one question through at a time, gates come before work, *)
(* the report is true, and the node implements the fork and join.  Its     *)
(* invariant follows the engine's position in its loops: Visited(b) says   *)
(* that the loop it is in has passed branch b.                             *)
(***************************************************************************)
EXTENDS WorkflowEngine, ParallelNode, SequenceTheorems, TLAPS

----------------------------------------------------------------------------
(* The walk                                                                *)

EdgeSpecs == [target : Nodes, when : Conditions, priority : Int]
EdgeLists == Seq(EdgeSpecs)

Records ==
    [node : Nodes, signal : Decisions \union {NoSignal}, summary : BOOLEAN,
     tools : SUBSET Tools, next : Nodes \union {NoNode},
     branches : SUBSET UNION {DOMAIN WhenOf[n] : n \in Parallel}]

\* While a workflow runs it is at a node, and a run belongs to a sequential one.
AtNode ==
    /\ pc # "returned" => current \in Nodes
    /\ pc = "running" => current \notin Parallel

\* What a run has captured was accepted in this run, and is a decision of its node.
CapturedBelongs ==
    pc = "running" =>
        captured = latest /\ captured \in Accepted(current) \union {NoSignal}

\* The engine remembers of the last node what the trail has recorded of it.
PreviousIsLast ==
    audit # <<>> =>
        /\ previous # NoResult
        /\ previous.signal = audit[Len(audit)].signal
        /\ previous.tools = audit[Len(audit)].tools

NothingBefore == audit = <<>> => previous = NoResult

Explained ==
    /\ PreviousIsLast /\ NothingBefore
    /\ TrailExplainsEdges /\ TrailExplainsBranches

IInv ==
    /\ TypeOK /\ AtNode /\ CapturedBelongs
    /\ TrailIsWalk /\ CarryIsLatest
----------------------------------------------------------------------------
(* Operators *)

LEMMA EdgesAreSpecs ==
    ASSUME NEW edges \in EdgeLists, NEW i \in DOMAIN edges PROVE edges[i] \in EdgeSpecs
  BY LenProperties, ElementOfSeq DEF EdgeLists

\* An edge that is followed is an edge of the node.
LEMMA EvaluationFollowsEdges ==
    ASSUME NEW edges \in EdgeLists, NEW answer
    PROVE  LET n == EvaluateTransitions(edges, answer)
           IN  \/ n = NoNode
               \/ n \in Nodes /\ \E e \in DOMAIN edges : edges[e].target = n
  <1>1. CASE FirstMatch(edges, answer) = {}
    BY <1>1 DEF EvaluateTransitions
  <1>2. CASE FirstMatch(edges, answer) # {}
    <2> DEFINE i == CHOOSE i \in FirstMatch(edges, answer) : TRUE
    <2>1. i \in DOMAIN edges
      BY <1>2 DEF FirstMatch
    <2>2. EvaluateTransitions(edges, answer) = edges[i].target
      BY <1>2 DEF EvaluateTransitions
    <2>3. edges[i].target \in Nodes
      BY <2>1, EdgesAreSpecs DEF EdgeSpecs
    <2> QED
      BY <2>1, <2>2, <2>3
  <1> QED
    BY <1>1, <1>2

LEMMA EdgesAreLists == ASSUME NEW n \in Nodes PROVE EdgesOf[n] \in EdgeLists
  BY GraphAssumption DEF EdgeLists, EdgeSpecs

\* The signal tool of a node accepts declared decisions only.
LEMMA AcceptedAreDecisions == ASSUME NEW n \in Nodes PROVE Accepted(n) \subseteq Decisions
  <1>1. \A i \in DOMAIN EdgesOf[n] : EdgesOf[n][i].when \in Conditions
    BY EdgesAreLists, EdgesAreSpecs DEF EdgeSpecs
  <1>2. \A c \in Conditions : c.type = "signal" => c.value \in Decisions
    BY DEF Conditions
  <1>3. SignalDecisions(EdgesOf[n]) \subseteq Decisions
    BY <1>1, <1>2 DEF SignalDecisions
  <1> QED
    BY <1>3 DEF Accepted
----------------------------------------------------------------------------
(* Steps *)

Results ==
    [signal : Decisions \union {NoSignal}, tools : SUBSET Tools,
     text : Texts \union {Silence}]

BranchSets == SUBSET UNION {DOMAIN WhenOf[n] : n \in Parallel}

\* A completed node extends the trail by a record that fits it.
LEMMA CompleteExtends ==
    ASSUME IInv, pc # "returned",
           NEW answer \in Results, NEW summary \in BOOLEAN, NEW branches \in BranchSets,
           Complete(answer, summary, branches)
    PROVE  /\ audit' \in Seq(Records)
           /\ Len(audit') = Len(audit) + 1
           /\ \A i \in 1..Len(audit) : audit'[i] = audit[i]
           /\ audit'[Len(audit) + 1] = Record(answer, summary, branches)
           /\ \/ Successor(answer) = NoNode
              \/ /\ Successor(answer) \in Nodes
                 /\ \E e \in DOMAIN Edges : Edges[e].target = Successor(answer)
  <1>1. audit \in Seq(Records)
    BY DEF IInv, TypeOK, Records
  <1>2. current \in Nodes
    BY DEF IInv, AtNode
  <1>3. \/ Successor(answer) = NoNode
        \/ /\ Successor(answer) \in Nodes
           /\ \E e \in DOMAIN Edges : Edges[e].target = Successor(answer)
    BY <1>2, EdgesAreLists, EvaluationFollowsEdges DEF Successor, Edges
  <1>4. Record(answer, summary, branches) \in Records
    BY <1>2, <1>3 DEF Record, Records, Results, BranchSets
  <1>5. audit' = Append(audit, Record(answer, summary, branches))
    BY DEF Complete
  <1> QED
    BY <1>1, <1>3, <1>4, <1>5, AppendProperties

LEMMA CompletePreserves ==
    ASSUME IInv, pc # "returned",
           NEW answer \in Results, NEW summary \in BOOLEAN, NEW branches \in BranchSets,
           Complete(answer, summary, branches),
           latest' = latest,
           \/ carry' = Len(audit) + 1
           \/ carry' = carry /\ ~ summary /\ current \notin Parallel,
           UNCHANGED runVars
    PROVE  IInv'
  <1> DEFINE onward == Successor(answer)
             record == Record(answer, summary, branches)
  <1>1. /\ audit' \in Seq(Records)
        /\ Len(audit') = Len(audit) + 1
        /\ \A i \in 1..Len(audit) : audit'[i] = audit[i]
        /\ audit'[Len(audit) + 1] = record
        /\ onward = NoNode \/ (onward \in Nodes /\ \E e \in DOMAIN Edges : Edges[e].target = onward)
    BY CompleteExtends
  <1>2. /\ current' = onward
        /\ pc' = IF onward = NoNode THEN "returned" ELSE "enter"
        /\ outcome' \in {"success", "none"}
    BY DEF Complete
  <1>3. /\ record.node = current /\ record.next = onward
        /\ record.signal = answer.signal /\ record.summary = summary
    BY DEF Record
  <1>4. current \in Nodes /\ current # NoNode /\ Len(audit) \in Nat /\ carry \in Nat
    <2>1. current \in Nodes
      BY DEF IInv, AtNode
    <2>2. audit \in Seq(Records) /\ carry \in Nat
      BY DEF IInv, TypeOK, Records
    <2> QED
      BY <2>1, <2>2, LenProperties, GraphAssumption
  <1>5. TypeOK'
    <2>1. /\ RunTypeOK' /\ captured' \in Decisions \union {NoSignal}
          /\ latest' \in Decisions \union {NoSignal}
      BY DEF IInv, TypeOK, RunTypeOK, runVars
    <2>2. carry' \in Nat
      BY <1>4
    <2> QED
      BY <1>1, <1>2, <2>1, <2>2 DEF TypeOK, Records
  <1>6. AtNode' /\ CapturedBelongs'
    BY <1>1, <1>2 DEF AtNode, CapturedBelongs
  <1>7. TrailIsWalk'
    <2>1. Announced' = onward
      BY <1>1, <1>3, <1>4, EmptySeq DEF Announced
    <2>2. record.node = IF Len(audit) = 0 THEN Start ELSE audit[Len(audit)].next
      BY <1>3, <1>4, EmptySeq DEF IInv, TypeOK, TrailIsWalk, Announced
    <2> QED
      BY SMTT(30), <1>1, <1>2, <1>3, <1>4, <2>1, <2>2 DEF IInv, TrailIsWalk, Edges
  <1>8. CarryIsLatest'
    BY <1>1, <1>3, <1>4 DEF IInv, CarryIsLatest
  <1> QED
    BY <1>5, <1>6, <1>7, <1>8 DEF IInv

\* Steps that leave the trail alone preserve what is said of it.
LEMMA TrailUntouched ==
    ASSUME IInv, UNCHANGED <<audit, current, carry>>
    PROVE  TrailIsWalk' /\ CarryIsLatest'
  BY DEF IInv, TrailIsWalk, Announced, CarryIsLatest

LEMMA InitEstablishes == Init => IInv
  <1> SUFFICES ASSUME Init PROVE IInv
    OBVIOUS
  <1>1. TypeOK
    BY GraphAssumption, EmptySeq DEF Init, RunInit, TypeOK, RunTypeOK
  <1>2. AtNode /\ CapturedBelongs
    BY GraphAssumption DEF Init, RunInit, AtNode, CapturedBelongs
  <1>3. Len(audit) = 0
    BY EmptySeq DEF Init
  <1>4. TrailIsWalk /\ CarryIsLatest
    BY <1>3 DEF Init, TrailIsWalk, Announced, CarryIsLatest
  <1> QED
    BY <1>1, <1>2, <1>4 DEF IInv

LEMMA RunStepsPreserve ==
    IInv /\ (EnterNode \/ AdvanceNode \/ SignalInNode \/ CallInNode) => IInv'
  <1> SUFFICES ASSUME IInv, EnterNode \/ AdvanceNode \/ SignalInNode \/ CallInNode PROVE IInv'
    OBVIOUS
  <1>1. CASE EnterNode
    <2>1. /\ pc' = "running" /\ current \notin Parallel /\ current \in Nodes
          /\ turns' = 0 /\ captured' = NoSignal /\ latest' = NoSignal
          /\ status' = "running" /\ called' = {} /\ text' = Silence
          /\ UNCHANGED <<current, previous, carry, audit, outcome>>
      BY <1>1 DEF EnterNode, RunReset, IInv, AtNode
    <2>2. MaxTurns[current] \in Nat
      BY <2>1, GraphAssumption
    <2>3. TypeOK'
      <3>1. RunTypeOK' /\ turns' <= MaxTurns[current]'
        BY <2>1, <2>2 DEF RunTypeOK
      <3> QED
        BY <2>1, <3>1 DEF IInv, TypeOK
    <2>4. AtNode' /\ CapturedBelongs'
      BY <2>1 DEF AtNode, CapturedBelongs
    <2> QED
      BY <2>1, <2>3, <2>4, TrailUntouched DEF IInv
  <1>2. CASE AdvanceNode
    <2>1. /\ pc = "running" /\ turns <= MaxTurns[current] /\ current \in Nodes
          /\ turns \in Nat /\ RunTypeOK
          /\ UNCHANGED <<pc, current, previous, carry, audit, outcome, latest>>
      BY <1>2 DEF AdvanceNode, IInv, TypeOK, RunTypeOK, AtNode, engineVars
    <2>2. MaxTurns[current] \in Nat
      BY <2>1, GraphAssumption
    <2>3. /\ turns' \in Nat /\ turns' <= MaxTurns[current]
          /\ captured' = captured /\ called' = called
          /\ status' \in {"running", "finished", "exhausted", "failed"}
          /\ text' \in Texts \union {text}
      BY <1>2, <2>1, <2>2 DEF AdvanceNode, RunProgress, Ask, Finish, Exhaust, Fail
    <2>4. RunTypeOK'
      BY <2>1, <2>3 DEF RunTypeOK
    <2>5. TypeOK'
      BY <2>1, <2>3, <2>4 DEF IInv, TypeOK
    <2>6. AtNode' /\ CapturedBelongs'
      BY <2>1, <2>3 DEF IInv, AtNode, CapturedBelongs
    <2> QED
      BY <2>1, <2>5, <2>6, TrailUntouched DEF IInv
  <1>3. CASE SignalInNode \/ CallInNode
    <2>1. /\ pc = "running" /\ current \in Nodes
          /\ UNCHANGED <<pc, current, previous, carry, audit, outcome, turns, text>>
          /\ status' \in {status, "waiting", "running", "failed"}
          /\ \/ captured' \in Accepted(current) /\ called' = called /\ latest' = captured'
             \/ /\ captured' = captured /\ latest' = latest
                /\ called' = called \/ \E T \in SUBSET Tools : called' = called \union T
      BY <1>3 DEF SignalInNode, CallInNode, Signal, Report, Wait, Resume, FailWaiting,
                  IInv, AtNode, engineVars
    <2>2. TypeOK'
      BY <2>1, AcceptedAreDecisions DEF IInv, TypeOK, RunTypeOK
    <2>3. AtNode' /\ CapturedBelongs'
      BY <2>1 DEF IInv, AtNode, CapturedBelongs, Accepted
    <2> QED
      BY <2>1, <2>2, <2>3, TrailUntouched DEF IInv
  <1> QED
    BY <1>1, <1>2, <1>3

LEMMA CompleteNodePreserves == IInv /\ CompleteNode => IInv'
  <1> SUFFICES ASSUME IInv, CompleteNode PROVE IInv'
    OBVIOUS
  <1>1. PICK summary \in {FALSE, captured # NoSignal} :
          Complete(NodeResult, summary, {}) /\ HandOn(summary)
    BY DEF CompleteNode
  <1>2. pc = "running" /\ current \notin Parallel /\ UNCHANGED runVars
    BY DEF CompleteNode, IInv, AtNode
  <1>3. NodeResult \in Results /\ {} \in BranchSets
    BY DEF NodeResult, Results, BranchSets, IInv, TypeOK, RunTypeOK
  <1>4. latest' = latest
    BY DEF CompleteNode
  <1>5. carry' = Len(audit) + 1 \/ (carry' = carry /\ ~ summary)
    BY <1>1 DEF HandOn
  <1>6. summary \in BOOLEAN
    OBVIOUS
  <1> QED
    BY <1>1, <1>2, <1>3, <1>4, <1>5, <1>6, CompletePreserves

\* The workflow ends where it is, with the trail as it stands.
LEMMA AbortPreserves ==
    ASSUME IInv, NEW error \in {"exception", "turn limit"}, Abort(error), UNCHANGED runVars
    PROVE  IInv'
  <1>1. /\ pc' = "returned" /\ outcome' = error
        /\ UNCHANGED <<current, previous, carry, audit, latest>>
        /\ UNCHANGED <<status, turns, captured, called, text>>
    BY DEF Abort, runVars
  <1>2. TypeOK'
    BY <1>1 DEF IInv, TypeOK, RunTypeOK
  <1>3. AtNode' /\ CapturedBelongs'
    BY <1>1 DEF AtNode, CapturedBelongs
  <1> QED
    BY <1>1, <1>2, <1>3, TrailUntouched DEF IInv

LEMMA ExecuteParallelPreserves == IInv /\ ExecuteParallel => IInv'
  <1> SUFFICES ASSUME IInv, ExecuteParallel PROVE IInv'
    OBVIOUS
  <1>1. PICK tools \in SUBSET Tools, report \in Texts \ {Silence} :
          LET answer == [signal |-> NoSignal, tools |-> tools, text |-> report]
          IN  IF Raises(Edges, answer)
              THEN Abort("exception")
              ELSE /\ Complete(answer, FALSE, Triggered(current))
                   /\ carry' = Len(audit) + 1
                   /\ latest' = latest
    BY DEF ExecuteParallel
  <1> DEFINE answer == [signal |-> NoSignal, tools |-> tools, text |-> report]
  <1>2. pc = "enter" /\ current \in Parallel /\ UNCHANGED runVars
    BY DEF ExecuteParallel
  <1>3. CASE Raises(Edges, answer)
    BY <1>1, <1>2, <1>3, AbortPreserves
  <1>4. CASE ~ Raises(Edges, answer)
    <2>1. answer \in Results
      BY DEF Results
    <2>2. Triggered(current) \in BranchSets
      BY <1>2 DEF Triggered, BranchSets
    <2>3. /\ Complete(answer, FALSE, Triggered(current)) /\ carry' = Len(audit) + 1
          /\ latest' = latest
      BY <1>1, <1>4
    <2> HIDE DEF answer
    <2> QED
      BY <1>2, <2>1, <2>2, <2>3, CompletePreserves
  <1> QED
    BY <1>3, <1>4

LEMMA StutterPreserves == IInv /\ UNCHANGED vars => IInv'
  <1> SUFFICES ASSUME IInv, UNCHANGED vars PROVE IInv'
    OBVIOUS
  <1>1. UNCHANGED <<pc, current, previous, carry, audit, outcome, latest,
                    status, turns, captured, called, text>>
    BY DEF vars, engineVars, runVars
  <1>2. TypeOK'
    BY <1>1 DEF IInv, TypeOK, RunTypeOK
  <1>3. AtNode' /\ CapturedBelongs'
    BY <1>1 DEF IInv, AtNode, CapturedBelongs, Accepted
  <1> QED
    BY <1>1, <1>2, <1>3, TrailUntouched DEF IInv
----------------------------------------------------------------------------
(* The theorems *)

THEOREM EngineInvariant == Spec => []IInv
  <1>1. IInv /\ AbortNode => IInv'
    BY AbortPreserves DEF AbortNode
  <1>2. IInv /\ AbortParallel => IInv'
    BY AbortPreserves DEF AbortParallel
  <1>3. IInv /\ [Next]_vars => IInv'
    BY <1>1, <1>2, RunStepsPreserve, CompleteNodePreserves, ExecuteParallelPreserves,
       StutterPreserves
    DEF Next, Stopped
  <1> QED
    BY InitEstablishes, <1>3, PTL DEF Spec

\* The variables have their types on every graph, and no run of the agent loop
\* takes more turns than its node allows.
THEOREM EngineTypes == Spec => []TypeOK
  BY EngineInvariant, PTL DEF IInv

\* On every graph the trail is a walk along declared edges, without a gap, that
\* leads to the node the engine is at (engine.py:190, 293-338).
THEOREM TrailWalks == Spec => []TrailIsWalk
  BY EngineInvariant, PTL DEF IInv

\* On every graph what is recorded for a node is the decision accepted last in this
\* execution of it, or none: no earlier execution, of this node or another, leaves
\* one behind, and no branch has one (engine.py:233-237, docs/workflows.md:132).
THEOREM SignalsStayHome == Spec => SignalsBelong
  <1> DEFINE Belongs ==
        \A i \in DOMAIN audit' \ DOMAIN audit :
          LET record == audit'[i]
          IN  IF record.node \in Parallel THEN record.signal = NoSignal
              ELSE /\ record.signal = latest
                   /\ record.signal \in Accepted(record.node) \union {NoSignal}
  <1>1. ASSUME IInv, pc # "returned",
               NEW answer \in Results, NEW summary \in BOOLEAN, NEW branches \in BranchSets,
               Complete(answer, summary, branches),
               IF current \in Parallel THEN answer.signal = NoSignal
               ELSE answer.signal = latest /\ latest \in Accepted(current) \union {NoSignal}
        PROVE  Belongs
    <2>1. /\ audit' \in Seq(Records) /\ audit \in Seq(Records)
          /\ Len(audit') = Len(audit) + 1
          /\ audit'[Len(audit) + 1] = Record(answer, summary, branches)
      BY <1>1, CompleteExtends DEF IInv, TypeOK, Records
    <2>2. \A i \in DOMAIN audit' \ DOMAIN audit : i = Len(audit) + 1
      BY <2>1, LenProperties
    <2>3. /\ Record(answer, summary, branches).node = current
          /\ Record(answer, summary, branches).signal = answer.signal
      BY DEF Record
    <2> QED
      BY <1>1, <2>1, <2>2, <2>3
  <1>2. IInv /\ [Next]_vars => [Belongs]_vars
    <2> SUFFICES ASSUME IInv, Next PROVE Belongs
      BY DEF vars
    <2>1. CASE CompleteNode
      <3>1. /\ pc = "running" /\ NodeResult \in Results /\ {} \in BranchSets
            /\ current \notin Parallel /\ NodeResult.signal = captured
            /\ captured = latest /\ captured \in Accepted(current) \union {NoSignal}
        BY <2>1 DEF CompleteNode, NodeResult, Results, BranchSets, IInv, AtNode,
                    CapturedBelongs, TypeOK, RunTypeOK
      <3>2. \E summary \in BOOLEAN : Complete(NodeResult, summary, {})
        BY <2>1 DEF CompleteNode
      <3> QED
        BY <1>1, <3>1, <3>2
    <2>2. CASE ExecuteParallel
      <3>1. pc # "returned" /\ current \in Parallel /\ Triggered(current) \in BranchSets
        BY <2>2 DEF ExecuteParallel, Triggered, BranchSets
      <3>2. \/ Abort("exception")
            \/ \E answer \in Results :
                  answer.signal = NoSignal /\ Complete(answer, FALSE, Triggered(current))
        <4>1. \A tools \in SUBSET Tools, report \in Texts :
                /\ [signal |-> NoSignal, tools |-> tools, text |-> report] \in Results
                /\ [signal |-> NoSignal, tools |-> tools, text |-> report].signal = NoSignal
          BY DEF Results
        <4> QED
          BY <2>2, <4>1 DEF ExecuteParallel
      <3> QED
        BY <1>1, <3>1, <3>2 DEF Abort
    <2>3. CASE \/ EnterNode \/ AdvanceNode \/ SignalInNode \/ CallInNode
               \/ AbortNode \/ AbortParallel \/ Stopped
      BY <2>3 DEF EnterNode, AdvanceNode, SignalInNode, CallInNode, AbortNode, AbortParallel,
                  Abort, Stopped, vars, engineVars
    <2> QED
      BY <2>1, <2>2, <2>3 DEF Next
  <1> QED
    BY <1>2, EngineInvariant, PTL DEF Spec, SignalsBelong

\* What is handed on stems from the last node that left anything
\* (engine.py:322-325).
THEOREM CarryFollows == Spec => []CarryIsLatest
  BY EngineInvariant, PTL DEF IInv
----------------------------------------------------------------------------
(* The refinement *)

\* An abstract walk grows by the successor that is recorded.
LEMMA WalkedGrows ==
    ASSUME IInv, pc # "returned", audit' \in Seq(Records),
           Len(audit') = Len(audit) + 1,
           \A i \in 1..Len(audit) : audit'[i] = audit[i],
           audit'[Len(audit) + 1].node = current
    PROVE  /\ Walked \in Seq(Nodes) /\ Len(Walked) = Len(audit) + 1
           /\ Walked[Len(Walked)] = current
           /\ current' = NoNode => Walked' = Walked
           /\ current' \in Nodes => Walked' = Append(Walked, current')
  <1>1. current \in Nodes /\ current # NoNode /\ NoNode \notin Nodes
    BY GraphAssumption DEF IInv, AtNode
  <1>2. audit \in Seq(Records) /\ Len(audit) \in Nat
    BY LenProperties DEF IInv, TypeOK, Records
  <1> DEFINE trail == [i \in 1..Len(audit) |-> audit[i].node]
             longer == [i \in 1..Len(audit') |-> audit'[i].node]
  <1>3. trail \in Seq(Nodes) /\ Len(trail) = Len(audit)
    <2>1. \A i \in 1..Len(audit) : audit[i].node \in Nodes
      <3>1. \A i \in 1..Len(audit) : audit[i] \in Records
        BY <1>2, ElementOfSeq
      <3> QED
        BY <3>1 DEF Records
    <2> QED
      BY <1>2, <2>1
  <1>4. longer \in Seq(Nodes) /\ Len(longer) = Len(audit) + 1
    <2>1. \A i \in 1..Len(audit') : audit'[i].node \in Nodes
      <3>1. \A i \in 1..Len(audit') : audit'[i] \in Records
        BY ElementOfSeq
      <3> QED
        BY <3>1 DEF Records
    <2> QED
      BY <1>2, <2>1
  <1>5. longer = Append(trail, current)
    <2>1. \A i \in 1..Len(audit) + 1 :
            longer[i] = IF i <= Len(audit) THEN audit[i].node ELSE current
      BY <1>2
    <2>2. Append(trail, current) \in Seq(Nodes)
          /\ Len(Append(trail, current)) = Len(audit) + 1
      BY <1>1, <1>3, AppendProperties
    <2>3. \A i \in 1..Len(audit) + 1 : longer[i] = Append(trail, current)[i]
      BY <1>1, <1>2, <1>3, <2>1, AppendProperties
    <2> HIDE DEF longer, trail
    <2> QED
      BY <1>4, <2>2, <2>3, SeqEqual
  <1>6. Walked = Append(trail, current)
    BY <1>1, <1>3, AppendIsConcat DEF Walked
  <1>7. current' = NoNode => Walked' = longer
    BY <1>4, ConcatEmptySeq DEF Walked
  <1>8. current' \in Nodes => Walked' = Append(longer, current')
    BY <1>1, <1>4, AppendIsConcat DEF Walked
  <1> HIDE DEF longer, trail
  <1> QED
    BY <1>1, <1>2, <1>3, <1>5, <1>6, <1>7, <1>8, AppendProperties

\* A completed node is a step along an edge of the walk, or its end.
LEMMA CompleteFollows ==
    ASSUME IInv, pc # "returned",
           NEW answer \in Results, NEW summary \in BOOLEAN, NEW branches \in BranchSets,
           Complete(answer, summary, branches)
    PROVE  Walk!Next
  <1>1. /\ audit' \in Seq(Records)
        /\ Len(audit') = Len(audit) + 1
        /\ \A i \in 1..Len(audit) : audit'[i] = audit[i]
        /\ audit'[Len(audit) + 1] = Record(answer, summary, branches)
        /\ \/ Successor(answer) = NoNode
           \/ /\ Successor(answer) \in Nodes
              /\ \E e \in DOMAIN Edges : Edges[e].target = Successor(answer)
    BY CompleteExtends
  <1>2. /\ current' = Successor(answer)
        /\ pc' = IF current' = NoNode THEN "returned" ELSE "enter"
    BY DEF Complete
  <1>3. /\ Walked[Len(Walked)] = current
        /\ current' = NoNode => Walked' = Walked
        /\ current' \in Nodes => Walked' = Append(Walked, current')
    BY <1>1, WalkedGrows DEF Record
  <1>4. CASE current' = NoNode
    BY <1>2, <1>3, <1>4 DEF Walk!Next, Walk!Stop
  <1>5. CASE current' \in Nodes
    <2>1. current \in Nodes /\ NoNode \notin Nodes
      BY GraphAssumption DEF IInv, AtNode
    <2>2. current' \in {EdgesOf[current][e].target : e \in DOMAIN EdgesOf[current]}
      BY <1>1, <1>2, <1>5, <2>1 DEF Edges
    <2> QED
      BY <1>2, <1>3, <1>5, <2>1, <2>2 DEF Walk!Next, Walk!Follow
  <1> QED
    BY <1>1, <1>2, <1>4, <1>5

\* The engine implements the promise to the user, "Leeway enforces the graph"
\* (README.md:35): it follows declared edges and nothing else.
THEOREM EngineFollowsGraph == Spec => FollowsGraph
  <1>1. Init => Walk!Init
    <2> SUFFICES ASSUME Init PROVE Walked = <<Start>> /\ pc # "returned"
      BY DEF Walk!Init
    <2>1. audit = <<>> /\ current = Start /\ Start # NoNode
      BY GraphAssumption DEF Init
    <2>2. [i \in 1..Len(audit) |-> audit[i].node] = <<>>
      BY <2>1, EmptySeq
    <2>3. Walked = <<>> \o <<Start>>
      BY <2>1, <2>2 DEF Walked
    <2> QED
      BY <2>3, GraphAssumption, ConcatEmptySeq DEF Init
  <1>2. IInv /\ [Next]_vars => [Walk!Next]_(Walk!walkVars)
    <2> SUFFICES ASSUME IInv, [Next]_vars PROVE [Walk!Next]_(Walk!walkVars)
      OBVIOUS
    <2>1. ASSUME UNCHANGED <<audit, current>>, (pc' = "returned") = (pc = "returned")
          PROVE  UNCHANGED Walk!walkVars
      BY <2>1 DEF Walk!walkVars, Walked
    <2>2. ASSUME NEW error, pc # "returned", Abort(error) PROVE Walk!Next
      BY <2>2 DEF Abort, Walk!Next, Walk!Stop, Walked
    <2>3. CASE EnterNode \/ AdvanceNode \/ SignalInNode \/ CallInNode \/ Stopped \/ UNCHANGED vars
      <3>1. UNCHANGED <<audit, current>> /\ (pc' = "returned") = (pc = "returned")
        BY <2>3 DEF EnterNode, AdvanceNode, SignalInNode, CallInNode, Stopped, vars, engineVars
      <3> QED
        BY <2>1, <3>1
    <2>4. CASE CompleteNode
      <3>1. pc # "returned" /\ NodeResult \in Results /\ {} \in BranchSets
        BY <2>4 DEF CompleteNode, NodeResult, Results, BranchSets, IInv, TypeOK, RunTypeOK
      <3>2. \E summary \in BOOLEAN : Complete(NodeResult, summary, {})
        BY <2>4 DEF CompleteNode
      <3> QED
        BY <3>1, <3>2, CompleteFollows
    <2>5. CASE AbortNode \/ AbortParallel
      BY <2>2, <2>5 DEF AbortNode, AbortParallel
    <2>6. CASE ExecuteParallel
      <3>1. pc # "returned" /\ Triggered(current) \in BranchSets
        BY <2>6 DEF ExecuteParallel, Triggered, BranchSets
      <3>2. \/ Abort("exception")
            \/ \E answer \in Results : Complete(answer, FALSE, Triggered(current))
        <4>1. \A tools \in SUBSET Tools, report \in Texts :
                [signal |-> NoSignal, tools |-> tools, text |-> report] \in Results
          BY DEF Results
        <4> QED
          BY <2>6, <4>1 DEF ExecuteParallel
      <3> QED
        BY <2>2, <3>1, <3>2, CompleteFollows
    <2> QED
      BY <2>3, <2>4, <2>5, <2>6 DEF Next
  <1> QED
    BY <1>1, <1>2, EngineInvariant, PTL DEF Spec, FollowsGraph, Walk!Spec
----------------------------------------------------------------------------
(* The trail as an explanation *)

\* A condition that does not read the text tells results apart by their
\* signals and tools only.
LEMMA MatchesIgnoresText ==
    ASSUME NEW cond, NEW r, NEW s, ~ ReadsText(cond),
           r.signal = s.signal, r.tools = s.tools
    PROVE  Matches(cond, r) = Matches(cond, s)
  BY DEF Matches, Hit, ReadsText

LEMMA EvaluationIgnoresText ==
    ASSUME NEW edges, NEW r, NEW s, \A e \in DOMAIN edges : ~ ReadsText(edges[e].when),
           r.signal = s.signal, r.tools = s.tools
    PROVE  EvaluateTransitions(edges, r) = EvaluateTransitions(edges, s)
  <1>1. \A e \in DOMAIN edges : Matches(edges[e].when, r) = Matches(edges[e].when, s)
    BY MatchesIgnoresText
  <1>2. \A e \in DOMAIN edges : Reached(edges, r, e) = Reached(edges, s, e)
    BY <1>1 DEF Reached
  <1>3. FirstMatch(edges, r) = FirstMatch(edges, s)
    BY <1>1, <1>2 DEF FirstMatch
  <1> QED
    BY <1>3 DEF EvaluateTransitions

\* What explains a record: the edges of its node, and the branches that the
\* record before it, or the lack of one, selects.
ExplainsEdge(record) ==
    LET edges == EdgesOf[record.node]
    IN  (\A e \in DOMAIN edges : ~ ReadsText(edges[e].when)) =>
            record.next = EvaluateTransitions(edges, RecordResult(record))

ExplainsBranches(record, first, before) ==
    record.node \in Parallel =>
        LET when == WhenOf[record.node]
        IN  (\A b \in DOMAIN when : ~ ReadsText(when[b])) =>
                record.branches =
                    {b \in DOMAIN when :
                        IF first THEN when[b].type = "always"
                        ELSE Matches(when[b], RecordResult(before))}

LEMMA CompleteExplains ==
    ASSUME IInv, Explained, pc # "returned",
           NEW answer \in Results, NEW summary \in BOOLEAN, NEW branches \in BranchSets,
           Complete(answer, summary, branches),
           current \in Parallel => branches = Triggered(current)
    PROVE  Explained'
  <1> DEFINE record == Record(answer, summary, branches)
  <1>1. /\ audit' \in Seq(Records)
        /\ Len(audit') = Len(audit) + 1
        /\ \A i \in 1..Len(audit) : audit'[i] = audit[i]
        /\ audit'[Len(audit) + 1] = record
    BY CompleteExtends
  <1>2. audit \in Seq(Records) /\ Len(audit) \in Nat
    BY LenProperties DEF IInv, TypeOK, Records
  <1>3. previous' = answer
    BY DEF Complete, Remember
  <1>4. /\ record.node = current /\ record.next = Successor(answer)
        /\ record.signal = answer.signal /\ record.tools = answer.tools
        /\ record.branches = branches
    BY DEF Record
  <1>5. audit' # <<>>
    BY <1>1, <1>2, EmptySeq
  <1>6. answer # NoResult
    BY DEF Results, NoResult
  <1>7. PreviousIsLast' /\ NothingBefore'
    BY <1>1, <1>2, <1>3, <1>4, <1>5, <1>6 DEF PreviousIsLast, NothingBefore
  <1>8. TrailExplainsEdges'
    <2>1. ExplainsEdge(record)
      BY <1>4, EvaluationIgnoresText DEF ExplainsEdge, RecordResult, Successor, Edges
    <2>2. \A i \in 1..Len(audit) : ExplainsEdge(audit[i])
      BY DEF Explained, TrailExplainsEdges, ExplainsEdge
    <2>3. \A i \in 1..Len(audit') : ExplainsEdge(audit'[i])
      <3> HIDE DEF record
      <3> QED
        BY <1>1, <1>2, <2>1, <2>2
    <2> QED
      BY <2>3 DEF TrailExplainsEdges, ExplainsEdge
  <1>9. TrailExplainsBranches'
    <2>1. ExplainsBranches(record, Len(audit) = 0, audit[Len(audit)])
      <3> SUFFICES ASSUME current \in Parallel,
                          \A b \in DOMAIN WhenOf[current] : ~ ReadsText(WhenOf[current][b])
                   PROVE  Triggered(current) =
                              {b \in DOMAIN WhenOf[current] :
                                  IF Len(audit) = 0 THEN WhenOf[current][b].type = "always"
                                  ELSE Matches(WhenOf[current][b],
                                               RecordResult(audit[Len(audit)]))}
        BY <1>4 DEF ExplainsBranches
      <3>1. CASE Len(audit) = 0
        <4>1. previous = NoResult
          BY <1>2, <3>1, EmptySeq DEF Explained, NothingBefore
        <4> QED
          BY <3>1, <4>1 DEF Triggered
      <3>2. CASE Len(audit) # 0
        <4>1. /\ previous # NoResult
              /\ previous.signal = audit[Len(audit)].signal
              /\ previous.tools = audit[Len(audit)].tools
          BY <1>2, <3>2, EmptySeq DEF Explained, PreviousIsLast
        <4>2. \A b \in DOMAIN WhenOf[current] :
                Matches(WhenOf[current][b], previous)
                  = Matches(WhenOf[current][b], RecordResult(audit[Len(audit)]))
          BY <4>1, MatchesIgnoresText DEF RecordResult
        <4> QED
          BY <3>2, <4>1, <4>2 DEF Triggered
      <3> QED
        BY <3>1, <3>2
    <2>2. \A i \in 1..Len(audit) : ExplainsBranches(audit[i], i = 1, audit[i - 1])
      BY DEF Explained, TrailExplainsBranches, ExplainsBranches
    <2>3. \A i \in 1..Len(audit') : ExplainsBranches(audit'[i], i = 1, audit'[i - 1])
      <3> SUFFICES ASSUME NEW i \in 1..Len(audit')
                   PROVE  ExplainsBranches(audit'[i], i = 1, audit'[i - 1])
        OBVIOUS
      <3> HIDE DEF record
      <3>1. CASE i <= Len(audit)
        <4>1. i \in 1..Len(audit) /\ audit'[i] = audit[i]
          BY <1>1, <1>2, <3>1
        <4>2. i # 1 => audit'[i - 1] = audit[i - 1]
          BY <1>1, <1>2, <3>1
        <4> QED
          BY <2>2, <4>1, <4>2 DEF ExplainsBranches
      <3>2. CASE i = Len(audit) + 1
        <4>1. (i = 1) = (Len(audit) = 0)
          BY <1>2, <3>2
        <4>2. i # 1 => audit'[i - 1] = audit[Len(audit)]
          BY <1>1, <1>2, <3>2
        <4> QED
          BY <1>1, <2>1, <3>2, <4>1, <4>2 DEF ExplainsBranches
      <3> QED
        BY <1>1, <1>2, <3>1, <3>2
    <2> QED
      BY <2>3 DEF TrailExplainsBranches, ExplainsBranches
  <1> QED
    BY <1>7, <1>8, <1>9 DEF Explained

\* The trail explains every transition and every set of branches, on every
\* graph: the decisions and tools it records select what it records as next
\* (audit.py:1, engine.py:291-328, 513-528).
THEOREM TrailAccounts == Spec => []TrailExplains
  <1>1. Init => Explained
    <2> SUFFICES ASSUME Init PROVE Explained
      OBVIOUS
    <2>1. audit = <<>> /\ previous = NoResult /\ Len(audit) = 0
      BY EmptySeq DEF Init
    <2> QED
      BY <2>1 DEF Explained, PreviousIsLast, NothingBefore, TrailExplainsEdges,
                  TrailExplainsBranches
  <1>2. IInv /\ Explained /\ [Next]_vars => Explained'
    <2> SUFFICES ASSUME IInv, Explained, [Next]_vars PROVE Explained'
      OBVIOUS
    <2>1. ASSUME UNCHANGED <<audit, previous>> PROVE Explained'
      BY <2>1 DEF Explained, PreviousIsLast, NothingBefore, TrailExplainsEdges,
                  TrailExplainsBranches
    <2>2. CASE CompleteNode
      <3>1. /\ pc # "returned" /\ NodeResult \in Results /\ {} \in BranchSets
            /\ current \notin Parallel
        BY <2>2 DEF CompleteNode, NodeResult, Results, BranchSets, IInv, AtNode, TypeOK,
                    RunTypeOK
      <3>2. \E summary \in BOOLEAN : Complete(NodeResult, summary, {})
        BY <2>2 DEF CompleteNode
      <3> QED
        BY <3>1, <3>2, CompleteExplains
    <2>3. CASE ExecuteParallel
      <3>1. pc # "returned" /\ Triggered(current) \in BranchSets
        BY <2>3 DEF ExecuteParallel, Triggered, BranchSets
      <3>2. \/ Abort("exception")
            \/ \E answer \in Results : Complete(answer, FALSE, Triggered(current))
        <4>1. \A tools \in SUBSET Tools, report \in Texts :
                [signal |-> NoSignal, tools |-> tools, text |-> report] \in Results
          BY DEF Results
        <4> QED
          BY <2>3, <4>1 DEF ExecuteParallel
      <3> QED
        BY <2>1, <3>1, <3>2, CompleteExplains DEF Abort
    <2>4. CASE \/ EnterNode \/ AdvanceNode \/ SignalInNode \/ CallInNode
               \/ AbortNode \/ AbortParallel \/ Stopped \/ UNCHANGED vars
      <3>1. UNCHANGED <<audit, previous>>
        BY <2>4 DEF EnterNode, AdvanceNode, SignalInNode, CallInNode, AbortNode, AbortParallel,
                    Abort, Stopped, vars, engineVars
      <3> QED
        BY <2>1, <3>1
    <2> QED
      BY <2>2, <2>3, <2>4 DEF Next
  <1> QED
    BY <1>1, <1>2, EngineInvariant, PTL DEF Spec, Explained, TrailExplains

----------------------------------------------------------------------------
(* The parallel node                                                       *)

Visited(b) == \E i \in 1..Len(Order) : i < next /\ Order[i] = b

Types ==
    /\ phase \in {"gates", "spawn", "wait", "collect", "returned", "raised", "cancelled"}
    /\ next \in Nat /\ next >= 1
    /\ triggered \subseteq Branches /\ toRun \subseteq triggered /\ done \subseteq toRun
    /\ result \in [Branches -> {"none", "skipped", "denied", "ok", "failed", "timed out"}]
    /\ task \in [Branches -> {"none", "running", "succeeded", "failed", "cancelled"}]
    /\ cancelling \subseteq toRun
    /\ call \in [Calls -> {"idle", "busy", "queued", "asking", "permission"}]

\* A task that is not there, or has ended well or by cancellation, has no calls;
\* one that failed may have left some behind.
CallsBelong ==
    \A c \in Calls : call[c] # "idle" => task[c[1]] \in {"running", "failed"}

TasksRun == \A b \in Branches : task[b] # "none" => b \in toRun

NothingCancelled ==
    phase \in {"gates", "spawn", "wait"} =>
        /\ cancelling = {} /\ done = {}
        /\ \A b \in Branches : task[b] # "cancelled"

NothingStarted == phase = "gates" => \A b \in Branches : task[b] = "none"

SkippedIsFinal == \A b \in Branches : result[b] = "skipped" <=> b \notin triggered

DeniedIsFinal == \A b \in Branches : result[b] = "denied" => b \notin toRun

\* An open gate is that of a triggered branch which needs the approval.
GateIsAsked ==
    phase = "gates" /\ holder = Gate =>
        HasUpstream /\ \E b \in triggered \cap Gated : Listed(b)

\* What is recorded of a triggered branch in each stage of the engine.
Recorded(b) ==
    /\ phase = "gates" =>
          IF Visited(b) THEN result[b] = IF b \in toRun THEN "none" ELSE "denied"
          ELSE b \notin toRun /\ result[b] = "none"
    /\ phase \in {"spawn", "wait"} => result[b] = IF b \in toRun THEN "none" ELSE "denied"
    /\ phase = "collect" =>
          IF b \in toRun THEN result[b] = IF Visited(b) THEN Outcome(b) ELSE "none"
          ELSE result[b] = "denied"
    /\ phase = "returned" => result[b] = IF b \in toRun THEN Outcome(b) ELSE "denied"

RecordsFollow == \A b \in triggered : Recorded(b)

\* Once the wait is over a task that was done stays what it was, and one that
\* was not is cancelled, or about to be.
WaitIsOver ==
    phase \in {"collect", "returned"} =>
        \A b \in toRun :
            IF b \in done THEN task[b] \in {"succeeded", "failed"} /\ b \notin cancelling
            ELSE \/ b \in cancelling /\ ~ TaskEnded(b)
                 \/ b \notin cancelling /\ task[b] = "cancelled"

ParallelInv ==
    /\ Types /\ HolderTalks /\ CallsBelong /\ TasksRun /\ NothingCancelled
    /\ NothingStarted /\ GateIsAsked /\ SkippedIsFinal /\ DeniedIsFinal /\ RecordsFollow /\ WaitIsOver

----------------------------------------------------------------------------
(* The loops over the branches *)

LEMMA OrderIsList ==
    /\ Len(Order) \in Nat
    /\ \A i \in 1..Len(Order) : Order[i] \in Branches
  BY NodeAssumption

LEMMA NothingVisited ==
    ASSUME next = 1
    PROVE  \A b : ~ Visited(b)
  BY OrderIsList DEF Visited

LEMMA AllVisited ==
    ASSUME next \in Nat, next > Len(Order)
    PROVE  \A b \in Branches : Visited(b)
  BY NodeAssumption, OrderIsList DEF Visited

LEMMA VisitNext ==
    ASSUME next \in Nat, next >= 1, next' = next + 1, NEW b \in Branches, Listed(b)
    PROVE  /\ ~ Visited(b)
           /\ \A x \in Branches : Visited(x)' <=> (Visited(x) \/ x = b)
  <1> USE OrderIsList DEF Visited, Listed
  <1>1. ~ Visited(b)
    BY NodeAssumption
  <1>2. \A x \in Branches : Visited(x) => Visited(x)'
    OBVIOUS
  <1>3. Visited(b)'
    <2>1. next \in 1..Len(Order)
      OBVIOUS
    <2>2. next < next' /\ Order[next] = b
      OBVIOUS
    <2> QED
      BY <2>1, <2>2
  <1>4. ASSUME NEW x \in Branches, Visited(x)' PROVE Visited(x) \/ x = b
    <2>1. PICK i \in 1..Len(Order) : i < next + 1 /\ Order[i] = x
      BY <1>4
    <2>2. i < next \/ i = next
      BY <2>1
    <2> QED
      BY <2>1, <2>2
  <1> QED
    BY <1>1, <1>2, <1>3, <1>4

LEMMA CallHasBranch ==
    ASSUME NEW c \in Calls
    PROVE  c[1] \in Branches /\ c[2] \in Slots /\ c = <<c[1], c[2]>>
  BY DEF Calls
----------------------------------------------------------------------------
LEMMA ParallelInitEstablishes == ParallelInit => ParallelInv
  BY NodeAssumption, NothingVisited
  DEF ParallelInit, ParallelInv, Types, HolderTalks, CallsBelong, TasksRun, NothingCancelled, Calls,
      NothingStarted, GateIsAsked, SkippedIsFinal, DeniedIsFinal, RecordsFollow, Recorded, WaitIsOver

\* An open gate is not passed: it is answered.
LEMMA OpenGateStays ==
    ASSUME ParallelInv, PassGate
    PROVE  holder # Gate
  BY DEF ParallelInv, GateIsAsked, PassGate, Listed

LEMMA PassGatePreserves == ParallelInv /\ PassGate => ParallelInv'
  <1> SUFFICES ASSUME ParallelInv, PassGate PROVE ParallelInv'
    OBVIOUS
  <1>1. PICK b \in Branches :
          /\ Listed(b)
          /\ toRun' = toRun \union ({b} \cap triggered)
    BY DEF PassGate
  <1>2. /\ phase = "gates" /\ next' = next + 1
        /\ UNCHANGED <<phase, triggered, done, result, task, cancelling, call, holder, queue>>
    BY DEF PassGate, branchVars
  <1>3. next \in Nat /\ next >= 1
    BY DEF ParallelInv, Types
  <1>4. ~ Visited(b) /\ \A x \in Branches : Visited(x)' <=> (Visited(x) \/ x = b)
    BY <1>1, <1>2, <1>3, VisitNext
  <1>5. Types'
    <2>1. next' \in Nat /\ next' >= 1
      BY <1>2, <1>3
    <2> QED
      BY <1>1, <1>2, <2>1 DEF ParallelInv, Types
  <1>6. HolderTalks' /\ CallsBelong' /\ TasksRun' /\ NothingStarted'
    BY <1>1, <1>2 DEF ParallelInv, HolderTalks, CallsBelong, TasksRun, NothingStarted
  <1>7. NothingCancelled' /\ SkippedIsFinal' /\ WaitIsOver'
    BY <1>1, <1>2 DEF ParallelInv, NothingCancelled, SkippedIsFinal, WaitIsOver
  <1>8. DeniedIsFinal' /\ RecordsFollow'
    <2>1. b \in triggered => b \notin toRun /\ result[b] = "none"
      BY <1>2, <1>4 DEF ParallelInv, RecordsFollow, Recorded
    <2>2. DeniedIsFinal'
      BY <1>1, <1>2, <2>1 DEF ParallelInv, DeniedIsFinal
    <2>3. ASSUME NEW x \in triggered PROVE Recorded(x)'
      <3>1. x \in Branches /\ Recorded(x)
        BY DEF ParallelInv, Types, RecordsFollow
      <3>2. /\ Visited(x)' <=> (Visited(x) \/ x = b)
            /\ x \in toRun' <=> (x \in toRun \/ x = b)
        BY <1>1, <1>4, <3>1
      <3> QED
        BY <1>2, <2>1, <3>1, <3>2 DEF Recorded
    <2> QED
      BY <1>2, <2>2, <2>3 DEF RecordsFollow
  <1>9. GateIsAsked'
    BY <1>2, OpenGateStays DEF GateIsAsked
  <1> QED
    BY <1>5, <1>6, <1>7, <1>8, <1>9 DEF ParallelInv

LEMMA AnswerGatePreserves == ParallelInv /\ AnswerGate => ParallelInv'
  <1> SUFFICES ASSUME ParallelInv, AnswerGate PROVE ParallelInv'
    OBVIOUS
  <1>1. PICK b \in Branches, approved \in BOOLEAN :
          /\ Listed(b)
          /\ toRun' = IF approved THEN toRun \union {b} ELSE toRun
          /\ result' = IF approved THEN result ELSE [result EXCEPT ![b] = "denied"]
    BY DEF AnswerGate
  <1>2. /\ phase = "gates" /\ next' = next + 1 /\ holder = Gate /\ holder' = Nobody
        /\ UNCHANGED <<phase, triggered, done, task, cancelling, call, queue>>
    BY DEF AnswerGate
  <1>3. next \in Nat /\ next >= 1
    BY DEF ParallelInv, Types
  <1>4. ~ Visited(b) /\ \A x \in Branches : Visited(x)' <=> (Visited(x) \/ x = b)
    BY <1>1, <1>2, <1>3, VisitNext
  <1>5. b \in triggered
    BY <1>1, <1>2 DEF ParallelInv, GateIsAsked, Listed
  <1>6. Types'
    <2>1. next' \in Nat /\ next' >= 1
      BY <1>2, <1>3
    <2> QED
      BY <1>1, <1>2, <1>5, <2>1 DEF ParallelInv, Types
  <1>7. HolderTalks' /\ CallsBelong' /\ TasksRun' /\ NothingStarted' /\ GateIsAsked'
    BY <1>1, <1>2, NodeAssumption
    DEF ParallelInv, HolderTalks, CallsBelong, TasksRun, NothingStarted, GateIsAsked
  <1>8. NothingCancelled' /\ WaitIsOver'
    BY <1>1, <1>2 DEF ParallelInv, NothingCancelled, WaitIsOver
  <1>9. SkippedIsFinal' /\ DeniedIsFinal' /\ RecordsFollow'
    <2>1. b \notin toRun /\ result[b] = "none"
      BY <1>2, <1>4, <1>5 DEF ParallelInv, RecordsFollow, Recorded
    <2>2. \A x \in Branches :
            /\ x # b => result'[x] = result[x] /\ (x \in toRun' <=> x \in toRun)
            /\ x = b => IF approved THEN result'[x] = "none" /\ x \in toRun'
                       ELSE result'[x] = "denied" /\ x \notin toRun'
      BY <1>1, <2>1 DEF ParallelInv, Types
    <2>3. SkippedIsFinal' /\ DeniedIsFinal'
      BY <1>2, <1>5, <2>2 DEF ParallelInv, SkippedIsFinal, DeniedIsFinal
    <2>4. ASSUME NEW x \in triggered PROVE Recorded(x)'
      <3>1. x \in Branches /\ Recorded(x) /\ (Visited(x)' <=> (Visited(x) \/ x = b))
        BY <1>4 DEF ParallelInv, Types, RecordsFollow
      <3> QED
        BY <1>2, <2>2, <3>1 DEF Recorded
    <2> QED
      BY <1>2, <2>3, <2>4 DEF RecordsFollow
  <1> QED
    BY <1>6, <1>7, <1>8, <1>9 DEF ParallelInv

\* Opening a gate and giving one up touch nothing but the lock and the stage.
LEMMA GateStepsPreserve == ParallelInv /\ (AskGate \/ RaiseAtGate \/ CancelNode) => ParallelInv'
  <1> SUFFICES ASSUME ParallelInv, AskGate \/ RaiseAtGate \/ CancelNode PROVE ParallelInv'
    OBVIOUS
  <1>1. CASE AskGate
    <2>1. /\ phase = "gates" /\ holder = Nobody /\ holder' = Gate /\ HasUpstream
          /\ \E b \in triggered \cap Gated : Listed(b)
          /\ UNCHANGED <<phase, next, triggered, toRun, done, result, task, cancelling, call>>
      BY <1>1 DEF AskGate, nodeVars
    <2>2. GateIsAsked'
      BY <2>1 DEF GateIsAsked, Listed, HasUpstream
    <2>3. HolderTalks'
      BY <2>1, NodeAssumption DEF ParallelInv, HolderTalks
    <2>4. Types' /\ CallsBelong' /\ TasksRun' /\ NothingCancelled' /\ NothingStarted'
      BY <2>1 DEF ParallelInv, Types, CallsBelong, TasksRun, NothingCancelled, NothingStarted
    <2>5. SkippedIsFinal' /\ DeniedIsFinal' /\ WaitIsOver' /\ RecordsFollow'
      BY <2>1 DEF ParallelInv, SkippedIsFinal, DeniedIsFinal, WaitIsOver, RecordsFollow,
                  Recorded, Visited
    <2> QED
      BY <2>2, <2>3, <2>4, <2>5 DEF ParallelInv
  <1>2. CASE RaiseAtGate \/ CancelNode
    <2>1. /\ phase' \in {"raised", "cancelled"}
          /\ holder' = IF holder = Gate THEN Nobody ELSE holder
          /\ UNCHANGED <<next, triggered, toRun, done, result, task, cancelling, call>>
      BY <1>2 DEF RaiseAtGate, CancelNode
    <2>2. HolderTalks' /\ GateIsAsked'
      BY <2>1, NodeAssumption DEF ParallelInv, HolderTalks, GateIsAsked
    <2>3. Types' /\ CallsBelong' /\ TasksRun' /\ NothingCancelled' /\ NothingStarted'
      BY <2>1 DEF ParallelInv, Types, CallsBelong, TasksRun, NothingCancelled, NothingStarted
    <2>4. SkippedIsFinal' /\ DeniedIsFinal' /\ WaitIsOver' /\ RecordsFollow'
      BY <2>1 DEF ParallelInv, SkippedIsFinal, DeniedIsFinal, WaitIsOver, RecordsFollow, Recorded
    <2> QED
      BY <2>2, <2>3, <2>4 DEF ParallelInv
  <1> QED
    BY <1>1, <1>2

LEMMA EndGatesPreserves == ParallelInv /\ EndGates => ParallelInv'
  <1> SUFFICES ASSUME ParallelInv, EndGates PROVE ParallelInv'
    OBVIOUS
  <1>1. /\ phase = "gates" /\ next > Len(Order) /\ next' = 1
        /\ phase' = IF toRun = {} THEN "returned" ELSE "spawn"
        /\ UNCHANGED <<triggered, toRun, done, result, task, cancelling, call, holder, queue>>
    BY DEF EndGates, branchVars
  <1>2. \A b \in Branches : Visited(b)
    <2>1. next \in Nat
      BY DEF ParallelInv, Types
    <2> QED
      BY <1>1, <2>1, AllVisited
  <1>3. holder # Gate
    <2>1. ~ \E b : Listed(b)
      <3>1. next \in Nat /\ Len(Order) \in Nat
        BY OrderIsList DEF ParallelInv, Types
      <3> QED
        BY <1>1, <3>1 DEF Listed
    <2> QED
      BY <1>1, <2>1 DEF ParallelInv, GateIsAsked
  <1>4. Types' /\ HolderTalks' /\ GateIsAsked' /\ CallsBelong' /\ TasksRun'
    <2>1. Types'
      <3>1. next' \in Nat /\ next' >= 1
        BY <1>1
      <3> QED
        BY <1>1, <3>1 DEF ParallelInv, Types
    <2> QED
      BY <1>1, <1>3, <2>1 DEF ParallelInv, HolderTalks, GateIsAsked, CallsBelong, TasksRun
  <1>5. NothingCancelled' /\ NothingStarted' /\ SkippedIsFinal' /\ DeniedIsFinal'
    BY <1>1 DEF ParallelInv, NothingCancelled, NothingStarted, SkippedIsFinal, DeniedIsFinal
  <1>6. RecordsFollow'
    BY <1>1, <1>2 DEF ParallelInv, Types, RecordsFollow, Recorded
  <1>7. WaitIsOver'
    BY <1>1 DEF WaitIsOver
  <1> QED
    BY <1>4, <1>5, <1>6, <1>7 DEF ParallelInv

LEMMA SpawnBranchPreserves == ParallelInv /\ (SpawnBranch \/ StartWaiting) => ParallelInv'
  <1> SUFFICES ASSUME ParallelInv, SpawnBranch \/ StartWaiting PROVE ParallelInv'
    OBVIOUS
  <1>1. CASE SpawnBranch
    <2>1. PICK b \in Branches :
            task' = IF b \in toRun THEN [task EXCEPT ![b] = "running"] ELSE task
      BY <1>1 DEF SpawnBranch
    <2>2. /\ phase = "spawn" /\ next' = next + 1
          /\ UNCHANGED <<phase, triggered, toRun, done, result, cancelling, call, holder>>
      BY <1>1 DEF SpawnBranch
    <2>3. next' \in Nat /\ next' >= 1
      <3>1. next \in Nat
        BY DEF ParallelInv, Types
      <3> QED
        BY <2>2, <3>1
    <2>4. Types' /\ HolderTalks' /\ GateIsAsked' /\ CallsBelong' /\ TasksRun'
      <3>1. Types'
        BY <2>1, <2>2, <2>3 DEF ParallelInv, Types
      <3> QED
        <4>1. \A x \in Branches : task'[x] = task[x] \/ (x \in toRun /\ task'[x] = "running")
          BY <2>1 DEF ParallelInv, Types
        <4>2. CallsBelong'
          BY <2>2, <4>1, CallHasBranch DEF ParallelInv, CallsBelong
        <4> QED
          BY <2>2, <3>1, <4>1, <4>2 DEF ParallelInv, HolderTalks, GateIsAsked, TasksRun
    <2>5. NothingCancelled' /\ NothingStarted' /\ SkippedIsFinal' /\ DeniedIsFinal'
      BY <2>1, <2>2
      DEF ParallelInv, Types, NothingCancelled, NothingStarted, SkippedIsFinal, DeniedIsFinal
    <2>6. RecordsFollow' /\ WaitIsOver'
      BY <2>2 DEF ParallelInv, RecordsFollow, Recorded, WaitIsOver
    <2> QED
      BY <2>4, <2>5, <2>6 DEF ParallelInv
  <1>2. CASE StartWaiting
    <2>1. /\ phase = "spawn" /\ phase' = "wait"
          /\ UNCHANGED <<next, triggered, toRun, done, result, task, cancelling, call, holder>>
      BY <1>2 DEF StartWaiting, branchVars
    <2>2. Types' /\ HolderTalks' /\ GateIsAsked' /\ CallsBelong' /\ TasksRun'
      BY <2>1 DEF ParallelInv, Types, HolderTalks, GateIsAsked, CallsBelong, TasksRun
    <2>3. NothingCancelled' /\ NothingStarted' /\ SkippedIsFinal' /\ DeniedIsFinal'
      BY <2>1 DEF ParallelInv, NothingCancelled, NothingStarted, SkippedIsFinal, DeniedIsFinal
    <2>4. RecordsFollow' /\ WaitIsOver'
      BY <2>1 DEF ParallelInv, RecordsFollow, Recorded, WaitIsOver
    <2> QED
      BY <2>2, <2>3, <2>4 DEF ParallelInv
  <1> QED
    BY <1>1, <1>2

LEMMA WaitReturnsPreserves == ParallelInv /\ WaitReturns => ParallelInv'
  <1> SUFFICES ASSUME ParallelInv, WaitReturns PROVE ParallelInv'
    OBVIOUS
  <1>1. /\ phase = "wait" /\ phase' = "collect" /\ next' = 1
        /\ done' = {b \in toRun : TaskEnded(b)} /\ cancelling' = toRun \ done'
        /\ UNCHANGED <<triggered, toRun, result, task, call, holder>>
    BY DEF WaitReturns
  <1>2. \A b \in Branches : ~ Visited(b)'
    BY <1>1, OrderIsList DEF Visited
  <1>3. Types' /\ HolderTalks' /\ GateIsAsked' /\ CallsBelong' /\ TasksRun'
    <2>1. Types'
      <3>1. next' \in Nat /\ next' >= 1
        BY <1>1
      <3> QED
        BY <1>1, <3>1 DEF ParallelInv, Types
    <2> QED
      BY <1>1, <2>1 DEF ParallelInv, HolderTalks, GateIsAsked, CallsBelong, TasksRun
  <1>4. NothingCancelled' /\ NothingStarted' /\ SkippedIsFinal' /\ DeniedIsFinal'
    BY <1>1 DEF ParallelInv, NothingCancelled, NothingStarted, SkippedIsFinal, DeniedIsFinal
  <1>5. RecordsFollow'
    BY <1>1, <1>2 DEF ParallelInv, Types, RecordsFollow, Recorded
  <1>6. WaitIsOver'
    BY <1>1 DEF ParallelInv, Types, WaitIsOver, NothingCancelled, TaskEnded
  <1> QED
    BY <1>3, <1>4, <1>5, <1>6 DEF ParallelInv

LEMMA CollectResultPreserves == ParallelInv /\ CollectResult => ParallelInv'
  <1> SUFFICES ASSUME ParallelInv, CollectResult PROVE ParallelInv'
    OBVIOUS
  <1>1. PICK b \in Branches :
          /\ Listed(b)
          /\ result' = IF b \in toRun THEN [result EXCEPT ![b] = Outcome(b)] ELSE result
    BY DEF CollectResult
  <1>2. /\ phase = "collect" /\ next' = next + 1
        /\ UNCHANGED <<phase, triggered, toRun, done, task, cancelling, call, holder>>
    BY DEF CollectResult, branchVars
  <1>3. next \in Nat /\ next >= 1
    BY DEF ParallelInv, Types
  <1>4. ~ Visited(b) /\ \A x \in Branches : Visited(x)' <=> (Visited(x) \/ x = b)
    BY <1>1, <1>2, <1>3, VisitNext
  <1>5. Outcome(b) \in {"ok", "failed", "timed out"}
    BY DEF Outcome
  <1>6. \A x : Outcome(x)' = Outcome(x)
    BY <1>2 DEF Outcome
  <1>7. Types'
    <2>1. next' \in Nat /\ next' >= 1
      BY <1>2, <1>3
    <2> QED
      BY <1>1, <1>2, <1>5, <2>1 DEF ParallelInv, Types
  <1>8. HolderTalks' /\ GateIsAsked' /\ CallsBelong' /\ TasksRun' /\ NothingStarted'
    BY <1>2 DEF ParallelInv, HolderTalks, GateIsAsked, CallsBelong, TasksRun, NothingStarted
  <1>9. NothingCancelled' /\ WaitIsOver'
    BY <1>2 DEF ParallelInv, NothingCancelled, WaitIsOver, TaskEnded
  <1>10. SkippedIsFinal' /\ DeniedIsFinal' /\ RecordsFollow'
    <2>1. \A x \in Branches :
            result'[x] = IF x = b /\ b \in toRun THEN Outcome(b) ELSE result[x]
      BY <1>1 DEF ParallelInv, Types
    <2>2. toRun \subseteq triggered /\ triggered \subseteq Branches
      BY DEF ParallelInv, Types
    <2>3. SkippedIsFinal' /\ DeniedIsFinal'
      BY <1>2, <1>5, <2>1, <2>2 DEF ParallelInv, SkippedIsFinal, DeniedIsFinal
    <2>4. ASSUME NEW x \in triggered PROVE Recorded(x)'
      <3>1. x \in Branches /\ Recorded(x) /\ (Visited(x)' <=> (Visited(x) \/ x = b))
        BY <1>4, <2>2 DEF ParallelInv, RecordsFollow
      <3> QED
        BY <1>2, <1>6, <2>1, <3>1 DEF Recorded
    <2> QED
      BY <1>2, <2>3, <2>4 DEF RecordsFollow
  <1> QED
    BY <1>7, <1>8, <1>9, <1>10 DEF ParallelInv

LEMMA ReturnPreserves == ParallelInv /\ Return => ParallelInv'
  <1> SUFFICES ASSUME ParallelInv, Return PROVE ParallelInv'
    OBVIOUS
  <1>1. /\ phase = "collect" /\ phase' = "returned" /\ next > Len(Order)
        /\ UNCHANGED <<next, triggered, toRun, done, result, task, cancelling, call, holder>>
    BY DEF Return, branchVars
  <1>2. \A b \in Branches : Visited(b)
    <2>1. next \in Nat
      BY DEF ParallelInv, Types
    <2> QED
      BY <1>1, <2>1, AllVisited
  <1>3. Types'
    BY <1>1 DEF ParallelInv, Types
  <1>4. HolderTalks' /\ GateIsAsked' /\ CallsBelong' /\ TasksRun' /\ NothingStarted'
    BY <1>1 DEF ParallelInv, HolderTalks, GateIsAsked, CallsBelong, TasksRun, NothingStarted
  <1>5. NothingCancelled' /\ SkippedIsFinal' /\ DeniedIsFinal' /\ WaitIsOver'
    BY <1>1 DEF ParallelInv, NothingCancelled, SkippedIsFinal, DeniedIsFinal, WaitIsOver, TaskEnded
  <1>6. RecordsFollow'
    BY <1>1, <1>2 DEF ParallelInv, Types, RecordsFollow, Recorded, Outcome
  <1> QED
    BY <1>3, <1>4, <1>5, <1>6 DEF ParallelInv
----------------------------------------------------------------------------
(* The branches *)

\* What the branches do does not touch what is recorded of them, once those that
\* the wait returned as done stay as they are.
LEMMA RecordsUntouched ==
    ASSUME RecordsFollow,
           UNCHANGED <<phase, next, triggered, toRun, done, result>>,
           phase \in {"collect", "returned"} => \A x \in done : task'[x] = task[x]
    PROVE  RecordsFollow'
  <1>1. ASSUME NEW b \in triggered PROVE Recorded(b)'
    <2>1. Recorded(b)
      BY DEF RecordsFollow
    <2>2. phase \in {"collect", "returned"} => Outcome(b)' = Outcome(b)
      BY DEF Outcome
    <2> QED
      BY <2>1, <2>2 DEF Recorded, Visited
  <1> QED
    BY <1>1 DEF RecordsFollow

\* What a call does between two awaits leaves the engine alone, and the task of
\* its branch unless it raises.
LEMMA CallStepPreserves == ASSUME NEW c \in Calls PROVE ParallelInv /\ CallStep(c) => ParallelInv'
  <1> SUFFICES ASSUME ParallelInv, CallStep(c) PROVE ParallelInv'
    OBVIOUS
  <1> DEFINE b == c[1]
  <1>1. b \in Branches /\ c[2] \in Slots /\ c = <<b, c[2]>>
    BY CallHasBranch
  <1>2. PICK to \in {"idle", "busy", "queued", "asking", "permission"} :
          /\ call' = [call EXCEPT ![c] = to]
          /\ \/ to = "asking" /\ holder = Nobody /\ holder' = c
             \/ to # "asking" /\ call[c] = "asking" /\ holder' = Nobody
             \/ to # "asking" /\ call[c] # "asking" /\ holder' = holder
    BY DEF CallStep, MoveCall, StartCall, AskUser, AcquireLock, AnswerUser, AskPermission,
           AnswerPermission, EndCall, RaiseInCall
  <1>3. /\ UNCHANGED <<phase, next, triggered, toRun, done, result, cancelling>>
        /\ call[c] # "idle" \/ task[b] = "running"
        /\ b \notin cancelling
        /\ task' = task \/ task' = [task EXCEPT ![b] = "failed"]
    BY DEF CallStep, MoveCall, StartCall, AskUser, AcquireLock, AnswerUser, AskPermission,
           AnswerPermission, EndCall, RaiseInCall, nodeVars
  <1>4. task[b] \in {"running", "failed"}
    BY <1>1, <1>3 DEF ParallelInv, Types, CallsBelong
  <1>5. Types'
    BY <1>1, <1>2, <1>3 DEF ParallelInv, Types
  <1>6. HolderTalks'
    <2>1. \A d \in Calls : call'[d] = IF d = c THEN to ELSE call[d]
      BY <1>2 DEF ParallelInv, Types
    <2>2. Nobody \notin Calls /\ Gate \notin Calls /\ Gate # Nobody
      BY NodeAssumption
    <2>3. CASE to = "asking" /\ holder = Nobody /\ holder' = c
      BY <1>3, <2>1, <2>2, <2>3 DEF ParallelInv, HolderTalks
    <2>4. CASE to # "asking" /\ call[c] = "asking" /\ holder' = Nobody
      BY <1>3, <2>1, <2>2, <2>4 DEF ParallelInv, HolderTalks
    <2>5. CASE to # "asking" /\ call[c] # "asking" /\ holder' = holder
      BY <1>3, <2>1, <2>2, <2>5 DEF ParallelInv, HolderTalks
    <2> QED
      BY <1>2, <2>3, <2>4, <2>5
  <1>7. CallsBelong'
    <2>1. task'[b] \in {"running", "failed"}
      BY <1>1, <1>3, <1>4 DEF ParallelInv, Types
    <2>2. \A x \in Branches : x # b => task'[x] = task[x]
      BY <1>1, <1>3 DEF ParallelInv, Types
    <2>3. \A d \in Calls : d # c => call'[d] = call[d]
      BY <1>2 DEF ParallelInv, Types
    <2> QED
      BY <2>1, <2>2, <2>3, CallHasBranch DEF ParallelInv, CallsBelong
  <1>8. \A x \in Branches :
          task'[x] = task[x] \/ (x = b /\ x \notin cancelling /\ task'[x] = "failed")
    BY <1>1, <1>3 DEF ParallelInv, Types
  <1>9. TasksRun' /\ SkippedIsFinal' /\ DeniedIsFinal'
    BY <1>3, <1>4, <1>8 DEF ParallelInv, TasksRun, SkippedIsFinal, DeniedIsFinal
  <1>10. phase # "gates"
    BY <1>1, <1>4 DEF ParallelInv, NothingStarted
  <1>11. NothingCancelled' /\ NothingStarted' /\ GateIsAsked'
    BY <1>3, <1>8, <1>10 DEF ParallelInv, NothingCancelled, NothingStarted, GateIsAsked
  <1>12. WaitIsOver'
    <2>1. SUFFICES ASSUME phase \in {"collect", "returned"} PROVE WaitIsOver'
      BY <1>3 DEF WaitIsOver
    <2>2. b \in toRun => b \in done /\ task[b] = "failed"
      BY <1>3, <1>4, <2>1 DEF ParallelInv, WaitIsOver
    <2>3. \A x \in toRun : x \in Branches /\ task'[x] = task[x]
      BY <1>8, <2>2 DEF ParallelInv, Types
    <2> QED
      BY <1>3, <2>1, <2>3 DEF ParallelInv, WaitIsOver, TaskEnded
  <1>13. RecordsFollow'
    <2>1. ASSUME phase \in {"collect", "returned"}, NEW x \in done PROVE task'[x] = task[x]
      <3>1. x \in toRun /\ x \in Branches
        BY <2>1 DEF ParallelInv, Types
      <3>2. x = b => task[x] = "failed"
        BY <1>4, <2>1, <3>1 DEF ParallelInv, WaitIsOver
      <3> QED
        BY <1>8, <3>1, <3>2
    <2> QED
      BY <1>3, <2>1, RecordsUntouched DEF ParallelInv
  <1> QED
    BY <1>5, <1>6, <1>7, <1>9, <1>11, <1>12, <1>13 DEF ParallelInv

\* A branch whose loop ends, or whose cancellation arrives, has no calls left.
LEMMA EndBranchPreserves == ASSUME NEW b \in Branches PROVE ParallelInv /\ EndBranch(b) => ParallelInv'
  <1> SUFFICES ASSUME ParallelInv, EndBranch(b) PROVE ParallelInv'
    OBVIOUS
  <1>1. /\ task[b] = "running" /\ b \notin cancelling
        /\ \A s \in Slots : call[<<b, s>>] = "idle"
        /\ UNCHANGED <<phase, next, triggered, toRun, done, result, cancelling, call, holder>>
    BY DEF EndBranch, nodeVars
  <1>2. PICK end \in {"succeeded", "failed"} : task' = [task EXCEPT ![b] = end]
    BY DEF EndBranch
  <1>3. \A x \in Branches : task'[x] = IF x = b THEN end ELSE task[x]
    BY <1>2 DEF ParallelInv, Types
  <1>4. Types'
    BY <1>1, <1>2 DEF ParallelInv, Types
  <1>5. CallsBelong'
    <2>1. \A c \in Calls : call[c] # "idle" => c[1] \in Branches /\ c[1] # b
      BY <1>1, CallHasBranch
    <2> QED
      BY <1>1, <1>3, <2>1 DEF ParallelInv, CallsBelong
  <1>6. HolderTalks' /\ TasksRun' /\ SkippedIsFinal' /\ DeniedIsFinal'
    BY <1>1, <1>3 DEF ParallelInv, HolderTalks, TasksRun, SkippedIsFinal, DeniedIsFinal
  <1>7. phase # "gates"
    BY <1>1 DEF ParallelInv, NothingStarted
  <1>8. NothingCancelled' /\ NothingStarted' /\ GateIsAsked'
    BY <1>1, <1>3, <1>7 DEF ParallelInv, NothingCancelled, NothingStarted, GateIsAsked
  <1>9. phase \in {"collect", "returned"} => b \notin toRun
    BY <1>1 DEF ParallelInv, WaitIsOver
  <1>10. WaitIsOver'
    BY <1>1, <1>3, <1>9 DEF ParallelInv, Types, WaitIsOver, TaskEnded
  <1>11. RecordsFollow'
    <2>1. ASSUME phase \in {"collect", "returned"}, NEW x \in done PROVE task'[x] = task[x]
      BY <1>3, <1>9, <2>1 DEF ParallelInv, Types
    <2> QED
      BY <1>1, <2>1, RecordsUntouched DEF ParallelInv
  <1> QED
    BY <1>4, <1>5, <1>6, <1>8, <1>10, <1>11 DEF ParallelInv

LEMMA DeliverCancelPreserves ==
    ASSUME NEW b \in Branches PROVE ParallelInv /\ DeliverCancel(b) => ParallelInv'
  <1> SUFFICES ASSUME ParallelInv, DeliverCancel(b) PROVE ParallelInv'
    OBVIOUS
  <1>1. /\ b \in cancelling /\ cancelling' = cancelling \ {b}
        /\ task' = [task EXCEPT ![b] = "cancelled"]
        /\ call' = [c \in Calls |-> IF c[1] = b THEN "idle" ELSE call[c]]
        /\ holder' = IF HeldBy(b) THEN Nobody ELSE holder
        /\ UNCHANGED <<phase, next, triggered, toRun, done, result>>
    BY DEF DeliverCancel, nodeVars
  <1>2. \A x \in Branches : task'[x] = IF x = b THEN "cancelled" ELSE task[x]
    BY <1>1 DEF ParallelInv, Types
  <1>3. Types'
    BY <1>1 DEF ParallelInv, Types
  <1>4. HolderTalks'
    <2>1. HeldBy(b) <=> holder \in Calls /\ holder[1] = b
      <3>1. HeldBy(b) => holder \in Calls /\ holder[1] = b
        BY DEF HeldBy, Calls
      <3>2. holder \in Calls /\ holder[1] = b => HeldBy(b)
        BY CallHasBranch DEF HeldBy
      <3> QED
        BY <3>1, <3>2
    <2> QED
      BY <1>1, <2>1, NodeAssumption DEF ParallelInv, HolderTalks
  <1>5. CallsBelong'
    <2>1. \A c \in Calls : call'[c] # "idle" => c[1] # b /\ call'[c] = call[c]
      BY <1>1
    <2> QED
      BY <1>2, <2>1, CallHasBranch DEF ParallelInv, CallsBelong
  <1>6. TasksRun' /\ SkippedIsFinal' /\ DeniedIsFinal'
    <2>1. b \in toRun
      BY <1>1 DEF ParallelInv, Types
    <2>2. TasksRun /\ SkippedIsFinal /\ DeniedIsFinal
      BY DEF ParallelInv
    <2> QED
      BY <1>1, <1>2, <2>1, <2>2 DEF TasksRun, SkippedIsFinal, DeniedIsFinal
  <1>7. phase \notin {"gates", "spawn", "wait"}
    BY <1>1 DEF ParallelInv, NothingCancelled
  <1>8. NothingCancelled' /\ NothingStarted' /\ GateIsAsked'
    BY <1>1, <1>7 DEF NothingCancelled, NothingStarted, GateIsAsked
  <1>9. phase \in {"collect", "returned"} => b \notin done
    BY <1>1 DEF ParallelInv, Types, WaitIsOver
  <1>10. WaitIsOver'
    BY <1>1, <1>2, <1>9 DEF ParallelInv, Types, WaitIsOver, TaskEnded
  <1>11. RecordsFollow'
    <2>1. ASSUME phase \in {"collect", "returned"}, NEW x \in done PROVE task'[x] = task[x]
      BY <1>2, <1>9, <2>1 DEF ParallelInv, Types
    <2> QED
      BY <1>1, <2>1, RecordsUntouched DEF ParallelInv
  <1> QED
    BY <1>3, <1>4, <1>5, <1>6, <1>8, <1>10, <1>11 DEF ParallelInv

LEMMA ParallelStutterPreserves == ParallelInv /\ UNCHANGED parallelVars => ParallelInv'
  <1> SUFFICES ASSUME ParallelInv, UNCHANGED parallelVars PROVE ParallelInv'
    OBVIOUS
  <1>1. UNCHANGED <<phase, next, triggered, toRun, done, result, task, cancelling, call, holder>>
    BY DEF parallelVars, nodeVars, branchVars
  <1>2. Types' /\ HolderTalks' /\ GateIsAsked' /\ CallsBelong' /\ TasksRun'
    BY <1>1 DEF ParallelInv, Types, HolderTalks, GateIsAsked, CallsBelong, TasksRun, Listed
  <1>3. NothingCancelled' /\ NothingStarted' /\ SkippedIsFinal' /\ DeniedIsFinal'
    BY <1>1 DEF ParallelInv, NothingCancelled, NothingStarted, SkippedIsFinal, DeniedIsFinal
  <1>4. RecordsFollow' /\ WaitIsOver'
    BY <1>1 DEF ParallelInv, RecordsFollow, Recorded, Visited, Outcome, WaitIsOver, TaskEnded
  <1> QED
    BY <1>2, <1>3, <1>4 DEF ParallelInv
----------------------------------------------------------------------------
(* The theorems *)

\* The invariant holds in every reachable state of every parallel node.
THEOREM NodeInvariant == ParallelSpec => []ParallelInv
  <1>1. ParallelInv /\ [ParallelNext]_parallelVars => ParallelInv'
    BY PassGatePreserves, AnswerGatePreserves, GateStepsPreserve, EndGatesPreserves,
       SpawnBranchPreserves, WaitReturnsPreserves, CollectResultPreserves,
       ReturnPreserves, CallStepPreserves, EndBranchPreserves, DeliverCancelPreserves,
       ParallelStutterPreserves
    DEF ParallelNext, EngineStep, Settled
  <1> QED
    BY ParallelInitEstablishes, <1>1, PTL DEF ParallelSpec

\* The broker lets one question through at a time, whatever the branches and
\* their calls do, fail at or are cancelled in (hitl.py:11-43).
THEOREM BrokerSerializes == ParallelSpec => []OneQuestionAtATime
  <1>1. ParallelInv => OneQuestionAtATime
    BY NodeAssumption DEF ParallelInv, HolderTalks, OneQuestionAtATime
  <1> QED
    BY NodeInvariant, <1>1, PTL

\* No branch works before the last gate is answered, and a denied one never
\* does (engine.py:548-580).
THEOREM GatesGuardWork == ParallelSpec => []GatesComeFirst
  <1>1. ParallelInv => GatesComeFirst
    BY DEF ParallelInv, NothingStarted, DeniedIsFinal, TasksRun, GatesComeFirst
  <1> QED
    BY NodeInvariant, <1>1, PTL

LEMMA ReportFollows == ParallelInv => ReportIsTrue
  <1>1. ASSUME ParallelInv, phase = "returned", NEW b \in Branches
        PROVE  /\ result[b] # "none"
               /\ result[b] = "ok" <=> task[b] = "succeeded"
               /\ result[b] = "failed" <=> task[b] = "failed"
               /\ result[b] = "timed out" <=> b \in cancelling \/ task[b] = "cancelled"
    <2> USE DEF ParallelInv
    <2>1. CASE b \notin triggered
      <3>1. result[b] = "skipped" /\ task[b] = "none" /\ b \notin cancelling
        BY <2>1, <1>1 DEF SkippedIsFinal, Types, TasksRun
      <3> QED
        BY <3>1
    <2>2. CASE b \in triggered \ toRun
      <3>1. result[b] = "denied" /\ task[b] = "none" /\ b \notin cancelling
        BY <2>2, <1>1 DEF Types, TasksRun, RecordsFollow, Recorded
      <3> QED
        BY <3>1
    <2>3. CASE b \in toRun
      <3>1. result[b] = Outcome(b)
        BY <2>3, <1>1 DEF Types, RecordsFollow, Recorded
      <3> QED
        BY <2>3, <3>1, <1>1 DEF Types, Outcome, WaitIsOver, TaskEnded
    <2> QED
      BY <2>1, <2>2, <2>3
  <1> QED
    BY <1>1 DEF ReportIsTrue

\* What a node that returned reports of its branches is what they came to
\* (engine.py:583-617).
THEOREM ReportHolds == ParallelSpec => []ReportIsTrue
  BY NodeInvariant, ReportFollows, PTL
----------------------------------------------------------------------------
(* The refinement *)

State ==
    CASE phase = "returned" -> "returned"
      [] phase \in {"raised", "cancelled"} -> "abandoned"
      [] OTHER -> "open"

\* An outcome is given to a branch that has none.
LEMMA OutcomesStay ==
    ASSUME ParallelInv, AnswerGate \/ CollectResult
    PROVE  \A b \in Branches : result[b] # "none" => result'[b] = result[b]
  <1>1. PICK b \in Branches :
          /\ Listed(b)
          /\ AnswerGate => b \in triggered
          /\ \/ result' = result
             \/ \E o : result' = [result EXCEPT ![b] = o] /\ (CollectResult => b \in toRun)
    BY DEF AnswerGate, CollectResult, ParallelInv, GateIsAsked, Listed
  <1>2. ~ Visited(b)
    <2>1. next' = next + 1 /\ next \in Nat /\ next >= 1
      BY DEF AnswerGate, CollectResult, ParallelInv, Types
    <2> QED
      BY <1>1, <2>1, VisitNext
  <1>3. result' = result \/ result[b] = "none"
    BY <1>1, <1>2 DEF ParallelInv, Types, RecordsFollow, Recorded, AnswerGate, CollectResult
  <1> QED
    BY <1>1, <1>3 DEF ParallelInv, Types

\* A parallel node implements the fork and join: every branch gets one outcome,
\* which stays, before the node returns (engine.py:498-629).
THEOREM NodeImplementsForkJoin == ParallelSpec => ImplementsForkJoin
  <1>1. ParallelInit => Join!Init
    BY DEF ParallelInit, Join!Init
  <1>2. ParallelInv /\ ParallelInv' /\ ReportIsTrue' /\ [ParallelNext]_parallelVars
        => [Join!Next]_(Join!forkVars)
    <2> SUFFICES ASSUME ParallelInv, ParallelInv', ReportIsTrue', [ParallelNext]_parallelVars
                 PROVE  [Join!Next]_(Join!forkVars)
      OBVIOUS
    <2>1. ASSUME UNCHANGED <<phase, result>> PROVE UNCHANGED <<result, State>>
      BY <2>1 DEF State
    <2>2. ASSUME phase' = phase, AnswerGate \/ CollectResult PROVE Join!Decide
      <3>1. State = "open" /\ State' = State
        BY <2>2 DEF State, AnswerGate, CollectResult
      <3>2. result' \in [Branches -> {"skipped", "denied", "ok", "failed", "timed out"}
                                      \union {"none"}]
        BY DEF ParallelInv, Types
      <3> QED
        BY <2>2, <3>1, <3>2, OutcomesStay DEF Join!Decide, State
    <2>3. ASSUME phase \in {"gates", "collect"}, phase' = "returned", result' = result
          PROVE  Join!Return
      <3>1. \A b \in Branches : result'[b] # "none"
        BY <2>3 DEF ReportIsTrue
      <3> QED
        BY <2>3, <3>1 DEF Join!Return
    <2>4. ASSUME RaiseAtGate \/ CancelNode PROVE Join!Abandon
      BY <2>4 DEF RaiseAtGate, CancelNode, Join!Abandon
    <2>5. CASE EngineStep
      <3>1. \/ phase' = phase /\ (result' = result \/ CollectResult)
            \/ phase \in {"gates", "collect"} /\ phase' = "returned" /\ result' = result
            \/ /\ phase \in {"gates", "spawn", "wait"} /\ phase' \in {"spawn", "wait", "collect"}
               /\ result' = result
        BY <2>5 DEF EngineStep, PassGate, AskGate, EndGates, SpawnBranch, StartWaiting,
                    WaitReturns, CollectResult, Return, nodeVars
      <3>2. ASSUME phase \in {"gates", "spawn", "wait"}, phase' \in {"spawn", "wait", "collect"}
            PROVE  State' = State
        BY <3>2 DEF State
      <3> QED
        BY <3>1, <3>2, <2>1, <2>2, <2>3 DEF Join!Next, Join!forkVars, State
    <2>6. CASE AnswerGate \/ RaiseAtGate \/ CancelNode
      <3>1. AnswerGate => phase' = phase
        BY DEF AnswerGate
      <3> QED
        BY <2>2, <2>4, <2>6, <3>1 DEF Join!Next
    <2>7. CASE \/ \E c \in Calls : CallStep(c)
               \/ \E b \in Branches : EndBranch(b) \/ DeliverCancel(b)
               \/ Settled \/ UNCHANGED parallelVars
      <3>1. UNCHANGED <<phase, result>>
        BY <2>7 DEF CallStep, StartCall, AskUser, AcquireLock, AnswerUser, AskPermission,
                    AnswerPermission, EndCall, RaiseInCall, EndBranch, DeliverCancel,
                    Settled, parallelVars, nodeVars
      <3> QED
        BY <3>1, <2>1 DEF Join!forkVars, State
    <2> QED
      BY <2>5, <2>6, <2>7 DEF ParallelNext
  <1> QED
    BY <1>1, <1>2, NodeInvariant, ReportHolds, PTL DEF ParallelSpec, ImplementsForkJoin, Join!Spec

=============================================================================
