------------------------------ MODULE History ------------------------------
(***************************************************************************)
(* The list of messages an agent loop sends with every request             *)
(* (engine/messages.py, engine/query.py) and what a compaction makes of it *)
(* (services/compact).  A message is its kind and the turn it belongs to.  *)
(***************************************************************************)
EXTENDS Integers, Sequences

CONSTANT PreserveRecent      \* preserve_recent: messages a compaction keeps

ASSUME HistoryAssumption == PreserveRecent \in Nat \ {0}

Message(kind, turn) == [kind |-> kind, turn |-> turn]

Messages ==
    [kind : {"prompt", "summary", "warning", "answer", "calls", "results"}, turn : Int]

\* What the model APIs demand of a request: an answer that calls tools is
\* followed by their results, and results follow the answer they belong to.
WellPaired(h) ==
    \A i \in 1..Len(h) :
        /\ h[i].kind = "calls" =>
               i < Len(h) /\ h[i + 1] = Message("results", h[i].turn)
        /\ h[i].kind = "results" =>
               i > 1 /\ h[i - 1] = Message("calls", h[i].turn)

Older(h) == SubSeq(h, 1, Len(h) - PreserveRecent)
Newer(h) == SubSeq(h, Len(h) - PreserveRecent + 1, Len(h))

\* The older messages are replaced by their summary.
Compacted(h) == <<Message("summary", 0)>> \o Newer(h)
=============================================================================
