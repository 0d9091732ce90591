---------------------------- MODULE MCAgentLoop ----------------------------
(* A signal tool, a tool to be confirmed, one that asks the user and one    *)
(* that is not registered.                                                 *)
EXTENDS AgentLoop, TLC

CONSTANTS signal, bash, ask, ghost

MCPermission == signal :> "allow" @@ bash :> "confirm" @@ ask :> "allow" @@ ghost :> "allow"

\* A workflow node starts from one prompt.  A session has earlier exchanges,
\* with which the history is of either parity when it becomes too long.
NodeHistories == {<<Message("prompt", 0)>>}

MCHistories ==
    NodeHistories \union
    {<<Message("prompt", -3), Message("answer", -3), Message("prompt", 0)>>,
     <<Message("prompt", -3), Message("calls", -3), Message("results", -3),
       Message("answer", -2), Message("prompt", 0)>>}
=============================================================================
