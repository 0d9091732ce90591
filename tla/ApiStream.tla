----------------------------- MODULE ApiStream -----------------------------
(***************************************************************************)
(* One request to the model: stream_message and _stream_once of            *)
(* AnthropicApiClient (api/client.py) and OpenAICompatibleClient           *)
(* (api/openai_client.py), and what the loop and its reader, the terminal  *)
(* frontend or print mode, make of the events they yield.                  *)
(*                                                                         *)
(* An attempt is a stream of chunks.  The provider may break it off        *)
(* anywhere; text that has been yielded by then stays yielded.  A chunk is *)
(* known by its number in the attempt.  The arguments of a call parse when *)
(* all their pieces have come.                                             *)
(***************************************************************************)
EXTENDS Naturals, Sequences, FiniteSets

CONSTANTS
    MaxRetries,    \* MAX_RETRIES
    Calls,         \* bound: the tool calls of an answer
    Pieces,        \* pieces the arguments of a call come in
    MaxChunks      \* bound: chunks of an attempt

ASSUME StreamAssumption ==
    /\ MaxRetries \in Nat /\ Calls \in Nat /\ Pieces \in Nat /\ MaxChunks \in Nat

Indexes == 0..(Calls - 1)   \* of the calls of an answer
Text == Calls               \* stands for the index of a piece of text

Providers == {"anthropic", "openai"}

\* Rate limits and server errors; the status 529; other statuses, among them
\* refused credentials; APIConnectionError; OSError; anything else.
Errors == {"busy", "overloaded", "refused", "connection", "os", "other"}

VARIABLES
    provider,
    reader,      \* who shows the answer: "terminal" or "print"
    attempt,
    state,       \* "connecting", "streaming", "waiting" for a retry, "done" or "failed"
    sent,        \* chunks the provider has sent in this attempt
    text,        \* collected_content: the chunks it is made of
    calls,       \* collected_tool_calls: index -> its name is known, its arguments
    buffer,      \* what the reader has of the answer, by attempt and chunk
    message      \* the final message

streamVars == <<provider, reader, attempt, state, sent, text, calls, buffer, message>>

NoCalls == [i \in {} |-> [named |-> FALSE, arguments |-> <<>>]]
NoMessage == [text |-> <<>>, calls |-> <<>>]

StreamInit ==
    /\ provider \in Providers /\ reader \in {"terminal", "print"}
    /\ attempt = 0 /\ state = "connecting"
    /\ sent = <<>> /\ text = <<>> /\ calls = NoCalls
    /\ buffer = <<>> /\ message = NoMessage

----------------------------------------------------------------------------
(* stream_message: attempts and errors *)

\* _stream_once of the Anthropic client raises an error of the API on when its
\* status is one to retry, and turns every other, a lost connection among them,
\* into one that is never retried.
AnthropicRetries(e) == e \in {"busy", "overloaded", "os"}

OpenAIRetries(e) == e \in {"busy", "os"}

IsRetryable(e) == IF provider = "anthropic" THEN AnthropicRetries(e) ELSE OpenAIRetries(e)

Break ==
    /\ state \in {"connecting", "streaming"}
    /\ \E e \in Errors :
         state' = IF IsRetryable(e) /\ attempt < MaxRetries THEN "waiting" ELSE "failed"
    /\ UNCHANGED <<provider, reader, attempt, sent, text, calls, buffer, message>>

\* Variant: the attempts are not counted.
RetryUncounted ==
    /\ state = "waiting"
    /\ state' = "connecting"
    /\ sent' = <<>> /\ text' = <<>> /\ calls' = NoCalls
    /\ UNCHANGED <<provider, reader, attempt, buffer, message>>

\* The delay is over; what has been yielded is not taken back.
Retry ==
    /\ state = "waiting"
    /\ state' = "connecting"
    /\ attempt' = attempt + 1
    /\ sent' = <<>> /\ text' = <<>> /\ calls' = NoCalls
    /\ UNCHANGED <<provider, reader, buffer, message>>

----------------------------------------------------------------------------
(* _stream_once: one attempt *)

Connect ==
    /\ state = "connecting"
    /\ state' = "streaming"
    /\ UNCHANGED <<provider, reader, attempt, sent, text, calls, buffer, message>>

\* A piece of text, or of a call: its name, a piece of its arguments, or both.
Chunks ==
    [index : {Text}, named : {FALSE}, argument : {FALSE}]
        \union [index : Indexes, named : BOOLEAN, argument : BOOLEAN]

\* Variant: a piece is filed under the first call of the answer.
CollectForFirst(chunk, n) ==
    LET index == IF 0 \in DOMAIN calls THEN 0 ELSE chunk.index
        old == IF index \in DOMAIN calls THEN calls[index]
               ELSE [named |-> FALSE, arguments |-> <<>>]
        new == [named |-> old.named \/ chunk.named,
                arguments |-> IF chunk.argument THEN Append(old.arguments, n) ELSE old.arguments]
    IN  [i \in DOMAIN calls \union {index} |-> IF i = index THEN new ELSE calls[i]]

\* The entry of an index is created on sight; a name is kept, arguments grow.
Collect(chunk, n) ==
    LET old == IF chunk.index \in DOMAIN calls THEN calls[chunk.index]
               ELSE [named |-> FALSE, arguments |-> <<>>]
        new == [named |-> old.named \/ chunk.named,
                arguments |-> IF chunk.argument THEN Append(old.arguments, n) ELSE old.arguments]
    IN  [i \in DOMAIN calls \union {chunk.index} |-> IF i = chunk.index THEN new ELSE calls[i]]

Receive ==
    /\ state = "streaming" /\ Len(sent) < MaxChunks
    /\ \E chunk \in Chunks :
         LET n == Len(sent) + 1 IN
         /\ sent' = Append(sent, chunk)
         /\ IF chunk.index = Text
              THEN /\ text' = Append(text, n)
                   /\ buffer' = Append(buffer, <<attempt, n>>)
                   /\ UNCHANGED calls
              ELSE calls' = Collect(chunk, n) /\ UNCHANGED <<text, buffer>>
    /\ UNCHANGED <<provider, reader, attempt, state, message>>

\* Calls without a name are dropped; arguments that do not parse are none.
Use(i) ==
    [index |-> i, input |-> IF Len(calls[i].arguments) = Pieces THEN calls[i].arguments ELSE <<>>]

NamedCalls ==
    LET named == {i \in DOMAIN calls : calls[i].named}
    IN  [k \in 1..Cardinality(named) |->
           Use(CHOOSE i \in named : Cardinality({j \in named : j < i}) = k - 1)]

\* The terminal replaces what it has shown by the message, print mode keeps every
\* delta it was given, for its output and for its result.
Replaced == [k \in 1..Len(text) |-> <<attempt, text[k]>>]
Kept == buffer

Complete ==
    /\ state = "streaming"
    /\ state' = "done"
    /\ message' = [text |-> text, calls |-> NamedCalls]
    /\ buffer' = IF reader = "terminal" THEN Replaced ELSE Kept
    /\ UNCHANGED <<provider, reader, attempt, sent, text, calls>>

----------------------------------------------------------------------------
Stopped == state \in {"done", "failed"} /\ UNCHANGED streamVars

StreamNext == Break \/ Retry \/ Connect \/ Receive \/ Complete \/ Stopped

\* The provider answers or the connection breaks; delays end.
StreamSpec ==
    /\ StreamInit /\ [][StreamNext]_streamVars
    /\ WF_streamVars(Retry) /\ WF_streamVars(Break \/ Connect \/ Complete)

----------------------------------------------------------------------------
(* Properties *)

\* The type of the variables.
StreamTypeOK ==
    /\ provider \in Providers /\ reader \in {"terminal", "print"}
    /\ attempt \in 0..MaxRetries
    /\ state \in {"connecting", "streaming", "waiting", "done", "failed"}
    /\ sent \in Seq(Chunks) /\ Len(sent) <= MaxChunks
    /\ text \in Seq(1..MaxChunks)
    /\ DOMAIN calls \subseteq Indexes
    /\ calls \in [DOMAIN calls -> [named : BOOLEAN, arguments : Seq(1..MaxChunks)]]
    /\ buffer \in Seq((0..MaxRetries) \X (1..MaxChunks))
    /\ message \in [text : Seq(1..MaxChunks),
                    calls : Seq([index : Indexes, input : Seq(1..MaxChunks)])]

\* What a provider has sent, read off the chunks: text, and pieces of a call.
TextSent == {n \in DOMAIN sent : sent[n].index = Text}
ArgumentsSent(i) == {n \in DOMAIN sent : sent[n].index = i /\ sent[n].argument}

\* All of S, each once and in order.
Lists(s, S) ==
    /\ {s[k] : k \in DOMAIN s} = S
    /\ \A k, l \in DOMAIN s : k < l => s[k] < s[l]

\* What the reader has ends with the text t of this attempt, and before it are
\* only texts of earlier ones.
Shows(t) ==
    LET before == Len(buffer) - Len(t) IN
    /\ before \in Nat
    /\ \A k \in DOMAIN t : buffer[before + k] = <<attempt, t[k]>>
    /\ \A k \in 1..before : buffer[k][1] < attempt

\* The final message is what the provider sent in the attempt that succeeded,
\* and nothing of the attempts before it, however the pieces of its calls were
\* mixed: a call runs with its own arguments, all of them or none
\* (openai_client.py:201-285).  The terminal ends up with exactly the text of the
\* message (useBackendSession.ts:99-105); print mode with that text, behind what
\* the attempts before it had delivered (app.py:109-122, 148).
MessageIsOfLastAttempt ==
    state = "done" =>
        /\ Lists(message.text, TextSent)
        /\ \A i \in Indexes :
             (\E k \in DOMAIN message.calls : message.calls[k].index = i)
               <=> \E n \in DOMAIN sent : sent[n].index = i /\ sent[n].named
        /\ \A k \in DOMAIN message.calls :
             /\ \/ message.calls[k].input = <<>>
                \/ Lists(message.calls[k].input, ArgumentsSent(message.calls[k].index))
             /\ \A l \in DOMAIN message.calls : k < l => message.calls[k].index < message.calls[l].index
        /\ Shows(message.text)
        /\ reader = "terminal" => Len(buffer) = Len(message.text)

\* Every request ends, with a message or an error, after a bounded number of
\* attempts (client.py:107-136; openai_client.py:159-183).
StreamEnds == <>(state \in {"done", "failed"})
=============================================================================
