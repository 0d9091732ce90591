------------------------------ MODULE NodeRun ------------------------------
(***************************************************************************)
(* What one run of the agent loop promises to the workflow node that       *)
(* started it (workflow/engine.py:271-284): the model is asked at most     *)
(* max_turns times, every answer is a turn, tools are called and signals   *)
(* captured only between two answers, and the run finishes with an answer  *)
(* that calls no tool or ends in an exception.  A run may wait for the     *)
(* user between two answers, for as long as the user likes.                *)
(* WorkflowEngine walks its graph over this promise; AgentLoop, the loop   *)
(* itself, implements it.                                                  *)
(*                                                                         *)
(* The budget and the decisions the signal tool accepts differ from node   *)
(* to node and are parameters of the actions.                              *)
(***************************************************************************)
EXTENDS Naturals

CONSTANTS
    NoSignal,     \* signal_tool.captured is None
    Tools,        \* names a model may call
    Texts, Silence  \* texts of an answer; Silence is the empty one

VARIABLES
    status,       \* "running", "waiting", "finished", "exhausted" or "failed"
    turns,        \* answers counted by the caller
    captured,     \* what the signal tool holds
    called,       \* tools_called
    text          \* final_text

runVars == <<status, turns, captured, called, text>>

RunInit ==
    /\ status = "running"
    /\ turns = 0
    /\ captured = NoSignal
    /\ called = {}
    /\ text = Silence

----------------------------------------------------------------------------
\* Variant: the signal tool of the previous node is used again.
RunResetKeepsSignal ==
    /\ status' = "running"
    /\ turns' = 0
    /\ captured' = captured
    /\ called' = {}
    /\ text' = Silence

\* A new run of the next node: nothing of the last one is left.
RunReset ==
    /\ status' = "running"
    /\ turns' = 0
    /\ captured' = NoSignal
    /\ called' = {}
    /\ text' = Silence

\* The model answers and calls tools.
Ask(max) ==
    /\ status = "running"
    /\ turns < max
    /\ turns' = turns + 1
    /\ text' \in Texts
    /\ UNCHANGED <<status, captured, called>>

\* A call of the last answer waits for the user, who may never answer.
Wait ==
    /\ status = "running"
    /\ turns > 0
    /\ status' = "waiting"
    /\ UNCHANGED <<turns, captured, called, text>>

Resume ==
    /\ status = "waiting"
    /\ status' = "running"
    /\ UNCHANGED <<turns, captured, called, text>>

\* The signal tool accepts a decision.  A call that was under way when another
\* one raised is not stopped, so this may come after the run has failed.
Signal(decisions) ==
    /\ status \in {"running", "waiting", "failed"}
    /\ turns > 0
    /\ captured' \in decisions
    /\ UNCHANGED <<status, turns, called, text>>

\* The calls of one answer complete; the caller records their names.
Report ==
    /\ status = "running"
    /\ turns > 0
    /\ \E T \in (SUBSET Tools) \ {{}} : called' = called \union T
    /\ UNCHANGED <<status, turns, captured, text>>

\* The model answers and calls nothing.
Finish(max) ==
    /\ status = "running"
    /\ turns < max
    /\ turns' = turns + 1
    /\ text' \in Texts
    /\ status' = "finished"
    /\ UNCHANGED <<captured, called>>

\* The budget is spent and the last answer still called tools.
Exhaust(max) ==
    /\ status = "running"
    /\ turns = max
    /\ status' = "exhausted"
    /\ UNCHANGED <<turns, captured, called, text>>

\* Another call raises while one waits.
FailWaiting ==
    /\ status = "waiting"
    /\ status' = "failed"
    /\ UNCHANGED <<turns, captured, called, text>>

\* The API call or a tool raised.
Fail ==
    /\ status = "running"
    /\ status' = "failed"
    /\ UNCHANGED <<turns, captured, called, text>>

\* The steps that bring a run closer to its end without the user.
RunProgress(max) == Ask(max) \/ Finish(max) \/ Exhaust(max) \/ Fail

\* What the calls of an answer do.
CallProgress(decisions) == Signal(decisions) \/ Report \/ Wait \/ Resume \/ FailWaiting

RunNext(max, decisions) == RunProgress(max) \/ CallProgress(decisions)

RunTypeOK ==
    /\ status \in {"running", "waiting", "finished", "exhausted", "failed"}
    /\ turns \in Nat
    /\ called \in SUBSET Tools
    /\ text \in Texts \union {Silence}
=============================================================================
