-------------------------- MODULE TerminalSession --------------------------
(***************************************************************************)
(* The terminal session: ReactBackendHost (ui/backend_host.py), the        *)
(* frontend it talks to (frontend/terminal/src: App.tsx and                *)
(* hooks/useBackendSession.ts) and the user in front of it.                *)
(*                                                                         *)
(* The host takes requests one by one; a line runs in a task beside it, so *)
(* that it can be cancelled and its prompts answered.  A step is what runs *)
(* between two awaits; _emit never waits, its lock is never contended.     *)
(* Standard input and the request queue are one queue, standard output     *)
(* another.  A line is reduced to what the session sees of it: a turn it   *)
(* reports, prompts its calls open, side by side, and how it ends.         *)
(***************************************************************************)
EXTENDS Naturals, Sequences, SequencesExt

CONSTANTS
    Questions,     \* the prompts of ask_user_question; the others ask for permission
    Texts,         \* what the user may answer to a question
    Verdicts,      \* what the user may answer when asked for permission
    MaxPrompts,    \* bound: prompts of a session
    MaxInputs      \* bound: what the user enters, answers apart

ASSUME TerminalAssumption ==
    /\ MaxPrompts \in Nat /\ MaxInputs \in Nat
    /\ "none" \notin Texts \union Verdicts /\ Questions \subseteq 1..MaxPrompts

Lines == 1..MaxInputs        \* a line is an input of the user
Prompts == 1..MaxPrompts
Nothing == 0
AnswersTo(p) == IF p \in Questions THEN Texts ELSE Verdicts
Answers == Texts \union Verdicts

VARIABLES
    pc,         \* the host: "loop", "awaiting" a cancelled line, "closing" or "ended"
    running,    \* _running
    busy,       \* _busy
    current,    \* _current_task: a line or Nothing
    line,       \* state of the task of each line
    prompt,     \* state of the future of each prompt
    owner,      \* the line that opened it
    given,      \* the answer its future holds
    granted,    \* the answer its call went on with
    orphan,     \* prompts of calls that outlive what waited for them
    requests,   \* what the host has yet to read
    events,     \* what the frontend has yet to read
    fbusy,      \* the frontend's `busy`
    modal,      \* the prompt the frontend shows, or Nothing
    gone,       \* the frontend has exited
    said,       \* history variable: what the user answered to each prompt
    expired,    \* history variable: a branch timed out in front of a prompt
    inputs      \* inputs of the user, answers apart

hostVars == <<pc, running>>
lineVars == <<busy, current, line>>
promptVars == <<prompt, owner, given, granted, orphan, expired>>
frontVars == <<fbusy, modal, gone, said, inputs>>
vars == <<hostVars, lineVars, promptVars, frontVars, requests, events>>

Live(l) == line[l] \in {"ready", "working", "acting", "cancelled"}
Registered(p) == prompt[p] \in {"open", "answered", "dropped"}
Own(l) == {p \in Prompts : Registered(p) /\ owner[p] = l /\ p \notin orphan}
Fresh(state) == {i \in DOMAIN state : state[i] = "none" /\ \A j \in DOMAIN state : j < i => state[j] # "none"}

Emit(event) == events' = Append(events, event)
Event(type) == [type |-> type, prompt |-> Nothing]
Request(type) == [type |-> type, prompt |-> Nothing, answer |-> "none"]
Send(request) == requests' = Append(requests, request)

Init ==
    /\ pc = "loop" /\ running = TRUE
    /\ busy = FALSE /\ current = Nothing
    /\ line = [l \in Lines |-> "none"]
    /\ prompt = [p \in Prompts |-> "none"] /\ owner = [p \in Prompts |-> Nothing]
    /\ given = [p \in Prompts |-> "none"] /\ granted = [p \in Prompts |-> "none"]
    /\ orphan = {} /\ expired = FALSE
    /\ requests = <<>> /\ events = <<>>
    /\ fbusy = FALSE /\ modal = Nothing /\ gone = FALSE
    /\ said = [p \in Prompts |-> "none"] /\ inputs = 0

----------------------------------------------------------------------------
(* The host: one request at a time *)

\* The loop looks at _running after each request, and not while it waits for one.
Again == IF running THEN "loop" ELSE "closing"

Take(type) ==
    /\ pc = "loop" /\ requests # <<>>
    /\ Head(requests).type = type
    /\ requests' = Tail(requests)

\* Cancelling a line reaches the calls it waits for, whose futures it cancels,
\* but not the branches of a parallel node, which live on without it.
Cancel(l) ==
    /\ line' = [line EXCEPT ![l] = "cancelled"]
    /\ \E left \in SUBSET Own(l) :
         /\ orphan' = orphan \union left
         /\ prompt' = [p \in Prompts |-> IF p \in Own(l) \ left THEN "dropped" ELSE prompt[p]]
    /\ UNCHANGED <<busy, current, owner, given, granted, expired>>

TakeShutdown ==
    /\ Take("shutdown")
    /\ Emit(Event("shutdown"))
    /\ pc' = "closing"
    /\ IF current # Nothing THEN Cancel(current) ELSE UNCHANGED <<lineVars, promptVars>>
    /\ UNCHANGED <<running, frontVars>>

\* Variant: the host does not await the line it cancels.
CancelWithoutAwait ==
    /\ Take("cancel")
    /\ pc' = Again
    /\ IF current = Nothing
         THEN UNCHANGED <<lineVars, promptVars, events>>
         ELSE /\ line' = [line EXCEPT ![current] = "cancelled"]
              /\ prompt' = [p \in Prompts |-> IF p \in Own(current) THEN "dropped" ELSE prompt[p]]
              /\ busy' = FALSE /\ current' = Nothing
              /\ Emit(Event("complete"))
              /\ UNCHANGED <<owner, given, granted, orphan, expired>>
    /\ UNCHANGED <<running, frontVars>>

TakeCancel ==
    /\ Take("cancel")
    /\ IF current = Nothing
         THEN pc' = Again /\ UNCHANGED <<lineVars, promptVars>>
         ELSE pc' = "awaiting" /\ Cancel(current)
    /\ UNCHANGED <<running, events, frontVars>>

LineIsOver == \A l \in Lines : ~ Live(l)

\* The cancelled line is gone.
FinishCancel ==
    /\ pc = "awaiting" /\ LineIsOver
    /\ pc' = Again
    /\ busy' = FALSE /\ current' = Nothing
    /\ Emit(Event("complete"))
    /\ UNCHANGED <<running, line, promptVars, frontVars, requests>>

\* Variant: an answer goes to the prompt opened last, whatever it was for.
TakeAnswerForLast ==
    /\ Take("answer")
    /\ pc' = Again
    /\ \E p \in Prompts :
         /\ \/ prompt[p] = "open" /\ \A q \in Prompts : prompt[q] = "open" => q <= p
            \/ \A q \in Prompts : prompt[q] # "open"
         /\ IF prompt[p] = "open"
              THEN /\ prompt' = [prompt EXCEPT ![p] = "answered"]
                   /\ given' = [given EXCEPT ![p] = Head(requests).answer]
              ELSE UNCHANGED <<prompt, given>>
    /\ UNCHANGED <<running, lineVars, owner, granted, orphan, expired, events, frontVars>>

\* set_result raises on a future that is done or cancelled but whose call has
\* not run since, and run() ends with the exception.
TakeAnswer ==
    /\ Take("answer")
    /\ LET p == Head(requests).prompt IN
       /\ pc' = IF prompt[p] \in {"answered", "dropped"} THEN "closing" ELSE Again
       /\ IF prompt[p] = "open"
            THEN /\ prompt' = [prompt EXCEPT ![p] = "answered"]
                 /\ given' = [given EXCEPT ![p] = Head(requests).answer]
            ELSE UNCHANGED <<prompt, given>>
    /\ UNCHANGED <<running, lineVars, owner, granted, orphan, expired, events, frontVars>>

RefuseLine ==
    /\ Take("submit_line") /\ busy
    /\ pc' = Again
    /\ Emit(Event("error"))
    /\ UNCHANGED <<running, lineVars, promptVars, frontVars>>

TakeLine ==
    /\ Take("submit_line") /\ ~ busy
    /\ pc' = Again
    /\ busy' = TRUE
    /\ \E l \in Fresh(line) : current' = l /\ line' = [line EXCEPT ![l] = "ready"]
    /\ UNCHANGED <<running, promptVars, events, frontVars>>

\* Variant: the last line is awaited and not cancelled.
CloseWithoutCancel ==
    /\ pc = "closing" /\ LineIsOver
    /\ pc' = "ended"
    /\ prompt' = [p \in Prompts |-> IF Registered(p) THEN "over" ELSE prompt[p]]
    /\ UNCHANGED <<running, lineVars, owner, given, granted, orphan, expired,
                   requests, events, frontVars>>

\* The `finally` of run(): the line is cancelled and awaited; the end of the
\* event loop takes what else there is with it.
Close ==
    /\ pc = "closing"
    /\ IF LineIsOver
         THEN /\ pc' = "ended"
              /\ prompt' = [p \in Prompts |-> IF Registered(p) THEN "over" ELSE prompt[p]]
              /\ UNCHANGED <<lineVars, owner, given, granted, orphan, expired>>
         ELSE /\ \E l \in Lines : Live(l) /\ line[l] # "cancelled" /\ Cancel(l)
              /\ UNCHANGED pc
    /\ UNCHANGED <<running, requests, events, frontVars>>

Host ==
    \/ TakeShutdown \/ TakeCancel \/ FinishCancel \/ TakeAnswer
    \/ RefuseLine \/ TakeLine \/ Close

----------------------------------------------------------------------------
(* The task of a line and its calls *)

StartLine(l) ==
    /\ line[l] = "ready"
    /\ line' = [line EXCEPT ![l] = "working"]
    /\ UNCHANGED <<hostVars, busy, current, promptVars, requests, events, frontVars>>

\* The first answer of the model that the line reports.
ReportTurn(l) ==
    /\ line[l] = "working" /\ Own(l) = {}
    /\ line' = [line EXCEPT ![l] = "acting"]
    /\ Emit(Event("turn"))
    /\ UNCHANGED <<hostVars, busy, current, promptVars, requests, frontVars>>

\* A call of a line, or one that outlived what waited for it.
Ask(l) ==
    /\ line[l] \in {"working", "acting"} \/ \E p \in orphan : owner[p] = l
    /\ pc # "ended"
    /\ \E p \in Fresh(prompt) :
         /\ prompt' = [prompt EXCEPT ![p] = "open"]
         /\ owner' = [owner EXCEPT ![p] = l]
         /\ orphan' = IF line[l] \in {"working", "acting"} THEN orphan ELSE orphan \union {p}
         /\ Emit([type |-> "modal", prompt |-> p])
    /\ UNCHANGED <<hostVars, lineVars, given, granted, expired, requests, frontVars>>

\* The call behind a prompt runs again, with its answer or to be cancelled.
Resume(p) ==
    /\ prompt[p] \in {"answered", "dropped"}
    /\ granted' = [granted EXCEPT ![p] = IF prompt[p] = "answered" THEN given[p] ELSE "none"]
    /\ prompt' = [prompt EXCEPT ![p] = "over"]
    /\ UNCHANGED <<hostVars, lineVars, owner, given, orphan, expired, requests, events, frontVars>>

\* The branch a prompt belongs to runs into the timeout of its node.
Expire(p) ==
    /\ prompt[p] = "open"
    /\ p \in orphan \/ line[owner[p]] = "acting"
    /\ prompt' = [prompt EXCEPT ![p] = "dropped"]
    /\ expired' = TRUE
    /\ UNCHANGED <<hostVars, lineVars, owner, given, granted, orphan, requests, events, frontVars>>

\* The `finally` of _run_line.
Leave(l) ==
    /\ line' = [line EXCEPT ![l] = "over"]
    /\ busy' = FALSE /\ current' = Nothing

\* When a call raises, gather passes the exception on and leaves its siblings
\* behind, in front of their prompts; the line ends or fails without them.
LeaveBehind(l) ==
    /\ Leave(l)
    /\ orphan' = orphan \union Own(l)
    /\ UNCHANGED <<prompt, owner, given, granted, expired>>

EndLine(l) ==
    /\ line[l] \in {"working", "acting"}
    /\ LeaveBehind(l)
    /\ Emit(Event("complete"))
    /\ UNCHANGED <<hostVars, requests, frontVars>>

\* /exit.
ExitLine(l) ==
    /\ line[l] = "working" /\ Own(l) = {}
    /\ Leave(l)
    /\ running' = FALSE
    /\ events' = events \o <<Event("complete"), Event("shutdown")>>
    /\ UNCHANGED <<pc, promptVars, requests, frontVars>>

\* Variant: the exception is only logged.
FailLineSilently(l) ==
    /\ line[l] \in {"working", "acting"}
    /\ LeaveBehind(l)
    /\ UNCHANGED <<hostVars, requests, events, frontVars>>

FailLine(l) ==
    /\ line[l] \in {"working", "acting"}
    /\ LeaveBehind(l)
    /\ Emit(Event("error"))
    /\ UNCHANGED <<hostVars, requests, frontVars>>

\* The cancellation is delivered once the calls of the line are done with it.
UnwindLine(l) ==
    /\ line[l] = "cancelled" /\ Own(l) = {}
    /\ Leave(l)
    /\ UNCHANGED <<hostVars, promptVars, requests, events, frontVars>>

LineStep(l) ==
    \/ StartLine(l) \/ ReportTurn(l) \/ Ask(l)
    \/ EndLine(l) \/ ExitLine(l) \/ FailLine(l) \/ UnwindLine(l)

----------------------------------------------------------------------------
(* The frontend and the user *)

\* Variant: the end of a line also closes the modal.
HandleEventClosing ==
    /\ ~ gone /\ events # <<>>
    /\ events' = Tail(events)
    /\ LET event == Head(events) IN
       /\ modal' = IF event.type = "modal" THEN event.prompt
                   ELSE IF event.type = "complete" THEN Nothing ELSE modal
       /\ fbusy' = (fbusy /\ event.type \notin {"turn", "complete", "error"})
       /\ gone' = (event.type = "shutdown")
       /\ requests' = IF gone' THEN Append(requests, Request("shutdown")) ELSE requests
    /\ UNCHANGED <<hostVars, lineVars, promptVars, said, inputs>>

\* One modal: a later prompt replaces the one that is shown.  The end of the
\* frontend is the end of the host's input, which the host reads as a shutdown.
HandleEvent ==
    /\ ~ gone /\ events # <<>>
    /\ events' = Tail(events)
    /\ LET event == Head(events) IN
       /\ modal' = IF event.type = "modal" THEN event.prompt ELSE modal
       /\ fbusy' = (fbusy /\ event.type \notin {"turn", "complete", "error"})
       /\ gone' = (event.type = "shutdown")
       /\ requests' = IF gone' THEN Append(requests, Request("shutdown")) ELSE requests
    /\ UNCHANGED <<hostVars, lineVars, promptVars, said, inputs>>

Enter ==
    /\ ~ gone /\ inputs < MaxInputs
    /\ inputs' = inputs + 1
    /\ UNCHANGED <<hostVars, lineVars, promptVars, said>>

Submit ==
    /\ Enter
    /\ ~ fbusy /\ modal = Nothing
    /\ fbusy' = TRUE
    /\ Send(Request("submit_line"))
    /\ UNCHANGED <<modal, gone, events>>

\* Shift+Tab sends a line also while another one runs.
CycleMode ==
    /\ Enter
    /\ modal = Nothing
    /\ Send(Request("submit_line"))
    /\ UNCHANGED <<fbusy, modal, gone, events>>

\* /resume sends a request of a type the host does not know.
RequestSessions ==
    /\ Enter
    /\ ~ fbusy /\ modal = Nothing
    /\ Emit(Event("error"))
    /\ UNCHANGED <<fbusy, modal, gone, requests>>

Escape ==
    /\ Enter
    /\ fbusy /\ modal \in Questions \union {Nothing}
    /\ fbusy' = FALSE
    /\ Send(Request("cancel"))
    /\ UNCHANGED <<modal, gone, events>>

Quit ==
    /\ Enter
    /\ gone' = TRUE
    /\ Send(Request("shutdown"))
    /\ UNCHANGED <<fbusy, modal, events>>

AnswerModal ==
    /\ ~ gone /\ modal # Nothing
    /\ \E a \in AnswersTo(modal) :
         /\ said' = [said EXCEPT ![modal] = a]
         /\ Send([type |-> "answer", prompt |-> modal, answer |-> a])
    /\ modal' = Nothing
    /\ UNCHANGED <<hostVars, lineVars, promptVars, events, fbusy, gone, inputs>>

\* The child process has exited.
NoticeEnd ==
    /\ ~ gone /\ pc = "ended"
    /\ gone' = TRUE
    /\ UNCHANGED <<hostVars, lineVars, promptVars, requests, events, fbusy, modal, said, inputs>>

User == Submit \/ CycleMode \/ RequestSessions \/ Escape \/ Quit \/ AnswerModal

----------------------------------------------------------------------------
Next ==
    \/ Host
    \/ \E l \in Lines : LineStep(l)
    \/ \E p \in Prompts : Resume(p) \/ Expire(p)
    \/ HandleEvent \/ NoticeEnd \/ User

\* The event loops of both programs run what is ready; a line that waits for
\* no prompt ends.  Nothing is assumed of the user.
Fairness ==
    /\ WF_vars(Host)
    /\ \A l \in Lines :
         /\ WF_vars(StartLine(l) \/ UnwindLine(l))
         /\ WF_vars(Own(l) = {} /\ (EndLine(l) \/ ExitLine(l) \/ FailLine(l)))
    /\ \A p \in Prompts : WF_vars(Resume(p))
    /\ WF_vars(HandleEvent \/ NoticeEnd)

Spec == Init /\ [][Next]_vars /\ Fairness

----------------------------------------------------------------------------
(* Properties *)

\* The type of the variables; a prompt has an owner once it is open.
TypeOK ==
    /\ pc \in {"loop", "awaiting", "closing", "ended"} /\ running \in BOOLEAN
    /\ busy \in BOOLEAN /\ current \in Lines \union {Nothing}
    /\ line \in [Lines -> {"none", "ready", "working", "acting", "cancelled", "over"}]
    /\ prompt \in [Prompts -> {"none", "open", "answered", "dropped", "over"}]
    /\ owner \in [Prompts -> Lines \union {Nothing}]
    /\ given \in [Prompts -> Answers \union {"none"}]
    /\ granted \in [Prompts -> Answers \union {"none"}]
    /\ orphan \subseteq Prompts /\ expired \in BOOLEAN
    /\ requests \in Seq([type : {"submit_line", "cancel", "shutdown", "answer"},
                         prompt : Prompts \union {Nothing}, answer : Answers \union {"none"}])
    /\ events \in Seq([type : {"modal", "turn", "complete", "error", "shutdown"},
                       prompt : Prompts \union {Nothing}])
    /\ fbusy \in BOOLEAN /\ modal \in Prompts \union {Nothing} /\ gone \in BOOLEAN
    /\ said \in [Prompts -> Answers \union {"none"}] /\ inputs \in 0..MaxInputs

\* One line at a time has the session: a line that is cancelled, fails or exits
\* is gone before its successor starts, and its clean-up never takes `_busy` or
\* `_current_task` from the successor (backend_host.py:86-152).
OneLineAtATime ==
    /\ \A l, m \in Lines : Live(l) /\ Live(m) => l = m
    /\ \A l \in Lines : Live(l) => busy /\ current = l
    /\ pc \in {"loop", "awaiting"} /\ busy => \E l \in Lines : Live(l) \/ pc = "awaiting"

\* A call goes on with the answer the user gave to its own prompt, also when
\* prompts are open side by side, replaced on the screen, or left over from a
\* line that was cancelled (backend_host.py:106-113, 250-287; App.tsx:230-249).
ConsentIsOwn ==
    \A p \in Prompts : granted[p] # "none" => granted[p] = said[p]

\* No answer ends the session, neither a late one nor one to a modal that
\* outlived its line, unless a branch ran into its timeout in front of the
\* prompt (backend_host.py:86-113).
AnswersAreHarmless ==
    requests # <<>> /\ pc = "loop" /\ Head(requests).type = "answer" /\ ~ expired =>
        prompt[Head(requests).prompt] \notin {"answered", "dropped"}

\* The prompt that was opened last reaches the user while its call waits: no
\* end of another line and no answer to another prompt takes it off the screen
\* (useBackendSession.ts:138-141).
LastPromptIsVisible ==
    \A p \in Prompts :
        prompt[p] = "open" /\ ~ gone /\ (\A q \in Prompts : q > p => prompt[q] = "none") =>
            \/ modal = p
            \/ [type |-> "modal", prompt |-> p] \in Range(events)
            \/ \E r \in Range(requests) : r.type = "answer" /\ r.prompt = p

\* The frontend is busy for ever only in front of a call that waits for the
\* user: every other line ends with an event that frees it (App.tsx:324-338;
\* useBackendSession.ts:104-145).
FrontendIsFreed ==
    fbusy ~> (~ fbusy \/ gone \/ \E p \in Prompts : prompt[p] = "open")

\* When the frontend has exited the host ends, whatever line runs and whatever
\* prompt is open (backend_host.py:81-85, 125-136, 154-159).
HostEnds == gone ~> pc = "ended"
=============================================================================
