--------------------------- MODULE InterfaceProofs ---------------------------
(***************************************************************************)
(* The two ends of a session, for any number of lines, prompts, attempts   *)
(* and events of a stream: the terminal it talks to and the provider it    *)
(* asks.                                                                   *)
(*                                                                         *)
(* One line at a time has the session, and an answer goes to the prompt it *)
(* was given to, once.  A prompt goes through the session as one token:    *)
(* its modal event is on the way, or the frontend shows it, or the user    *)
(* has answered, and then its answer is on the way or was taken.  Events   *)
(* of prompts are on the way in the order the prompts were opened in,      *)
(* behind the one shown.                                                   *)
(*                                                                         *)
(* The message a stream ends with is that of its last attempt: what is     *)
(* collected of the text and of each call is what this attempt has sent of *)
(* it, in order, and the message takes the named calls by their indexes.   *)
(***************************************************************************)
EXTENDS TerminalSession, ApiStream, SequenceTheorems, FunctionTheorems,
        FiniteSetTheorems, TLAPS

-----------------------------------------------------------------------------
\* The terminal.

\* `_busy` and `_current_task` are those of the one line that lives.
LineIsCurrent ==
    /\ busy <=> current # Nothing
    /\ current # Nothing => Live(current)
    /\ \A l \in Lines : Live(l) => current = l

\* Without timeouts a call is cancelled only with its line, and the host takes no
\* request before the line is gone.
DroppedIsLeaving ==
    \A p \in Prompts : prompt[p] = "dropped" /\ ~ expired =>
        p \notin orphan /\ owner[p] \in Lines /\ line[owner[p]] = "cancelled" /\ pc # "loop"

OpenedInOrder == \A p, q \in Prompts : prompt[q] # "none" /\ p < q => prompt[p] # "none"

UnopenedIsUnsaid == \A p \in Prompts : prompt[p] = "none" => said[p] = "none"

ShownIsUnsaid == modal # Nothing => prompt[modal] # "none" /\ said[modal] = "none"

\* A prompt on its way to the user has not been answered yet, and comes after
\* the one that is shown and the ones before it.
EventsInOrder ==
    /\ \A i \in DOMAIN events : events[i].type = "modal" =>
         LET p == events[i].prompt IN
         p \in Prompts /\ modal < p /\ prompt[p] # "none" /\ said[p] = "none"
    /\ \A i, j \in DOMAIN events :
         events[i].type = "modal" /\ events[j].type = "modal" /\ i < j =>
            events[i].prompt < events[j].prompt

\* An answer on its way to the host is what the user said, and the only one.
AnswersOnce ==
    /\ \A i \in DOMAIN requests : requests[i].type = "answer" =>
         LET p == requests[i].prompt IN
         /\ p \in Prompts /\ requests[i].answer = said[p] /\ said[p] # "none"
         /\ given[p] = "none"
    /\ \A i, j \in DOMAIN requests :
         requests[i].type = "answer" /\ requests[j].type = "answer" /\ i < j =>
            requests[i].prompt # requests[j].prompt

GivenIsSaid ==
    \A p \in Prompts :
        /\ given[p] # "none" => given[p] = said[p]
        /\ prompt[p] = "answered" => given[p] # "none"

Tokens ==
    /\ UnopenedIsUnsaid /\ ShownIsUnsaid /\ EventsInOrder /\ AnswersOnce
    /\ GivenIsSaid /\ ConsentIsOwn /\ LastPromptIsVisible

IInv == TypeOK /\ LineIsCurrent /\ DroppedIsLeaving /\ OpenedInOrder /\ Tokens

----------------------------------------------------------------------------
(* Queues *)

EventRecords ==
    [type : {"modal", "turn", "complete", "error", "shutdown"}, prompt : Prompts \union {Nothing}]

RequestRecords ==
    [type : {"submit_line", "cancel", "shutdown", "answer"},
     prompt : Prompts \union {Nothing}, answer : Answers \union {"none"}]

\* t holds the entries of s that are of a type, in their order; d is how many
\* entries have been taken from the head.
SameOfType(s, t, type) ==
    \E d \in {0, 1} :
        /\ \A i \in DOMAIN t : t[i].type = type => i + d \in DOMAIN s /\ t[i] = s[i + d]
        /\ \A j \in DOMAIN s : s[j].type = type => j - d \in DOMAIN t /\ s[j] = t[j - d]

LEMMA AppendIsAt ==
    ASSUME NEW R, NEW s \in Seq(R), NEW e \in R
    PROVE  /\ Append(s, e) \in Seq(R)
           /\ DOMAIN s = 1..Len(s) /\ Len(s) \in Nat /\ DOMAIN Append(s, e) = 1..Len(s) + 1
           /\ \A i \in 1..Len(s) : Append(s, e)[i] = s[i]
           /\ Append(s, e)[Len(s) + 1] = e
  <1>1. /\ Append(s, e) \in Seq(R) /\ Len(Append(s, e)) = Len(s) + 1
        /\ \A i \in 1..Len(s) : Append(s, e)[i] = s[i]
        /\ Append(s, e)[Len(s) + 1] = e
    BY AppendProperties
  <1> QED
    BY <1>1, LenProperties

LEMMA TailIsAt ==
    ASSUME NEW R, NEW s \in Seq(R), s # <<>>
    PROVE  /\ Tail(s) \in Seq(R) /\ Head(s) \in R /\ Head(s) = s[1]
           /\ Len(s) \in Nat \ {0} /\ DOMAIN s = 1..Len(s) /\ DOMAIN Tail(s) = 1..Len(s) - 1
           /\ \A i \in 1..Len(s) - 1 : Tail(s)[i] = s[i + 1]
  <1>1. Len(s) \in Nat \ {0} /\ DOMAIN s = 1..Len(s)
    BY EmptySeq, LenProperties
  <1>2. /\ Tail(s) \in Seq(R) /\ Head(s) \in R /\ Len(Tail(s)) = Len(s) - 1
        /\ \A i \in 1..Len(Tail(s)) : Tail(s)[i] = s[i + 1]
    BY HeadTailProperties
  <1>3. Head(s) = s[1]
    BY <1>1
  <1> QED
    BY <1>1, <1>2, <1>3, LenProperties

LEMMA SameIsSame ==
    ASSUME NEW R, NEW s \in Seq(R), NEW type PROVE SameOfType(s, s, type)
  <1>1. DOMAIN s = 1..Len(s) /\ Len(s) \in Nat
    BY LenProperties
  <1> QED
    BY <1>1 DEF SameOfType

LEMMA AppendKeepsType ==
    ASSUME NEW R, NEW s \in Seq(R), NEW e \in R, NEW type, e.type # type
    PROVE  SameOfType(s, Append(s, e), type)
  <1>1. /\ DOMAIN s = 1..Len(s) /\ Len(s) \in Nat /\ DOMAIN Append(s, e) = 1..Len(s) + 1
        /\ \A i \in 1..Len(s) : Append(s, e)[i] = s[i]
        /\ Append(s, e)[Len(s) + 1] = e
    BY AppendIsAt
  <1> DEFINE t == Append(s, e)
  <1> HIDE DEF t
  <1>2. /\ DOMAIN t = 1..Len(s) + 1 /\ t[Len(s) + 1] = e /\ \A i \in 1..Len(s) : t[i] = s[i]
    BY <1>1 DEF t
  <1>3. SameOfType(s, t, type)
    BY <1>1, <1>2 DEF SameOfType
  <1> QED
    BY <1>3 DEF t

LEMMA TailKeepsType ==
    ASSUME NEW R, NEW s \in Seq(R), s # <<>>, NEW type, Head(s).type # type
    PROVE  SameOfType(s, Tail(s), type)
  <1>1. /\ Head(s) = s[1] /\ Len(s) \in Nat \ {0}
        /\ DOMAIN s = 1..Len(s) /\ DOMAIN Tail(s) = 1..Len(s) - 1
        /\ \A i \in 1..Len(s) - 1 : Tail(s)[i] = s[i + 1]
    BY TailIsAt
  <1> DEFINE t == Tail(s)
  <1> HIDE DEF t
  <1>2. DOMAIN t = 1..Len(s) - 1 /\ \A i \in 1..Len(s) - 1 : t[i] = s[i + 1]
    BY <1>1 DEF t
  <1>3. /\ \A i \in DOMAIN t : t[i].type = type => i + 1 \in DOMAIN s /\ t[i] = s[i + 1]
        /\ \A j \in DOMAIN s : s[j].type = type => j - 1 \in DOMAIN t /\ s[j] = t[j - 1]
    <2>1. \A i \in DOMAIN t : i + 1 \in DOMAIN s /\ t[i] = s[i + 1]
      BY <1>1, <1>2
    <2>2. \A j \in DOMAIN s : s[j].type = type => j - 1 \in DOMAIN t /\ s[j] = t[j - 1]
      <3> SUFFICES ASSUME NEW j \in 1..Len(s), s[j].type = type
                   PROVE  j - 1 \in DOMAIN t /\ s[j] = t[j - 1]
        BY <1>1
      <3>1. j # 1
        BY <1>1
      <3>2. j - 1 \in 1..Len(s) - 1 /\ (j - 1) + 1 = j
        BY <1>1, <3>1
      <3> QED
        BY <1>2, <3>2
    <2> QED
      BY <2>1, <2>2
  <1>4. SameOfType(s, t, type)
    BY <1>3 DEF SameOfType
  <1> QED
    BY <1>4 DEF t

LEMMA SameTwice ==
    ASSUME NEW R, NEW s \in Seq(R), NEW e \in R, NEW f \in R, NEW type,
           e.type # type, f.type # type
    PROVE  s \o <<e, f>> \in Seq(R) /\ SameOfType(s, s \o <<e, f>>, type)
  <1> DEFINE t == s \o <<e, f>>
  <1>1. DOMAIN s = 1..Len(s) /\ Len(s) \in Nat
    BY LenProperties
  <1>2. /\ t \in Seq(R) /\ Len(t) = Len(s) + 2
        /\ \A i \in 1..Len(s) : t[i] = s[i]
        /\ t[Len(s) + 1] = e /\ t[Len(s) + 2] = f
    <2>1. <<e, f>> \in Seq(R) /\ Len(<<e, f>>) = 2 /\ <<e, f>>[1] = e /\ <<e, f>>[2] = f
      OBVIOUS
    <2>2. /\ t \in Seq(R) /\ Len(t) = Len(s) + 2
          /\ \A i \in 1..Len(s) + 2 : t[i] = IF i <= Len(s) THEN s[i] ELSE <<e, f>>[i - Len(s)]
      BY <2>1, ConcatProperties
    <2> QED
      BY <1>1, <2>1, <2>2
  <1> HIDE DEF t
  <1>3. DOMAIN t = 1..Len(s) + 2
    BY <1>2, LenProperties
  <1>4. SameOfType(s, t, type)
    BY <1>1, <1>2, <1>3 DEF SameOfType
  <1> QED
    BY <1>2, <1>4 DEF t

----------------------------------------------------------------------------
(* Steps that leave the tokens alone *)

Calm ==
    /\ UNCHANGED <<modal, said, given>>
    /\ \A p \in Prompts :
         /\ granted'[p] \in {granted[p], given[p], "none"}
         /\ prompt'[p] = "none" <=> prompt[p] = "none"
         /\ prompt'[p] \in {"open", "answered"} => prompt'[p] = prompt[p]
    /\ gone => gone'
    /\ SameOfType(events, events', "modal") /\ SameOfType(requests, requests', "answer")

LEMMA QueuesAreSequences ==
    ASSUME TypeOK
    PROVE  events \in Seq(EventRecords) /\ requests \in Seq(RequestRecords)
  BY DEF TypeOK, EventRecords, RequestRecords

LEMMA CalmKeepsEvents ==
    ASSUME IInv, TypeOK', Calm PROVE EventsInOrder'
  <1>1. PICK d \in {0, 1} :
          \A i \in DOMAIN events' : events'[i].type = "modal" =>
             i + d \in DOMAIN events /\ events'[i] = events[i + d]
    BY DEF Calm, SameOfType
  <1>2. EventsInOrder
    BY DEF IInv, Tokens
  <1>3. /\ modal' = modal /\ said' = said
        /\ \A p \in Prompts : prompt'[p] = "none" <=> prompt[p] = "none"
    BY DEF Calm
  <1>4. DOMAIN events \subseteq Nat /\ DOMAIN events' \subseteq Nat
    <2>1. events \in Seq(EventRecords) /\ events' \in Seq(EventRecords)
      BY QueuesAreSequences DEF IInv, TypeOK, EventRecords
    <2> QED
      BY <2>1, LenProperties
  <1>5. ASSUME NEW i \in DOMAIN events', events'[i].type = "modal"
        PROVE  LET p == events'[i].prompt IN
               p \in Prompts /\ modal' < p /\ prompt'[p] # "none" /\ said'[p] = "none"
    BY <1>1, <1>2, <1>3, <1>5 DEF EventsInOrder
  <1>6. ASSUME NEW i \in DOMAIN events', NEW j \in DOMAIN events',
               events'[i].type = "modal", events'[j].type = "modal", i < j
        PROVE  events'[i].prompt < events'[j].prompt
    <2>1. /\ i + d \in DOMAIN events /\ events'[i] = events[i + d]
          /\ j + d \in DOMAIN events /\ events'[j] = events[j + d]
      BY <1>1, <1>6
    <2>2. i + d < j + d
      BY <1>4, <1>6
    <2> QED
      BY <1>2, <1>6, <2>1, <2>2 DEF EventsInOrder
  <1> QED
    BY <1>5, <1>6 DEF EventsInOrder

LEMMA CalmKeepsAnswers ==
    ASSUME IInv, TypeOK', Calm PROVE AnswersOnce'
  <1>1. PICK d \in {0, 1} :
          \A i \in DOMAIN requests' : requests'[i].type = "answer" =>
             i + d \in DOMAIN requests /\ requests'[i] = requests[i + d]
    BY DEF Calm, SameOfType
  <1>2. AnswersOnce /\ said' = said /\ given' = given
    BY DEF IInv, Tokens, Calm
  <1>3. DOMAIN requests \subseteq Nat /\ DOMAIN requests' \subseteq Nat
    <2>1. requests \in Seq(RequestRecords) /\ requests' \in Seq(RequestRecords)
      BY QueuesAreSequences DEF IInv, TypeOK, RequestRecords
    <2> QED
      BY <2>1, LenProperties
  <1>4. ASSUME NEW i \in DOMAIN requests', requests'[i].type = "answer"
        PROVE  LET p == requests'[i].prompt IN
               /\ p \in Prompts /\ requests'[i].answer = said'[p] /\ said'[p] # "none"
               /\ given'[p] = "none"
    BY <1>1, <1>2, <1>4 DEF AnswersOnce
  <1>5. ASSUME NEW i \in DOMAIN requests', NEW j \in DOMAIN requests',
               requests'[i].type = "answer", requests'[j].type = "answer", i < j
        PROVE  requests'[i].prompt # requests'[j].prompt
    <2>1. /\ i + d \in DOMAIN requests /\ requests'[i] = requests[i + d]
          /\ j + d \in DOMAIN requests /\ requests'[j] = requests[j + d]
      BY <1>1, <1>5
    <2>2. i + d < j + d
      BY <1>3, <1>5
    <2> QED
      BY <1>2, <1>5, <2>1, <2>2 DEF AnswersOnce
  <1> QED
    BY <1>4, <1>5 DEF AnswersOnce

\* Where the prompt p is on its way to the user or back.
OnItsWay(p) ==
    \/ modal = p
    \/ \E i \in DOMAIN events : events[i].type = "modal" /\ events[i].prompt = p
    \/ \E i \in DOMAIN requests : requests[i].type = "answer" /\ requests[i].prompt = p

LEMMA EventInRange ==
    ASSUME NEW es \in Seq(EventRecords), NEW p \in Prompts
    PROVE  [type |-> "modal", prompt |-> p] \in Range(es) <=>
             \E i \in DOMAIN es : es[i].type = "modal" /\ es[i].prompt = p
  <1>1. \A i \in DOMAIN es : es[i] \in EventRecords
    BY ElementOfSeq, LenProperties
  <1>2. \A e \in EventRecords : e.type = "modal" /\ e.prompt = p => e = [type |-> "modal", prompt |-> p]
    BY DEF EventRecords
  <1> QED
    BY <1>1, <1>2 DEF Range

LEMMA AnswerInRange ==
    ASSUME NEW rs, NEW p
    PROVE  (\E r \in Range(rs) : r.type = "answer" /\ r.prompt = p) <=>
             \E i \in DOMAIN rs : rs[i].type = "answer" /\ rs[i].prompt = p
  BY DEF Range

\* What LastPromptIsVisible says, by positions in the queues.
LastIsOnItsWay ==
    \A p \in Prompts :
        prompt[p] = "open" /\ ~ gone /\ (\A q \in Prompts : q > p => prompt[q] = "none") =>
            OnItsWay(p)

LEMMA VisibleIsOnItsWay == TypeOK => (LastPromptIsVisible <=> LastIsOnItsWay)
  <1> SUFFICES ASSUME TypeOK PROVE LastPromptIsVisible <=> LastIsOnItsWay
    OBVIOUS
  <1>1. ASSUME NEW p \in Prompts
        PROVE  OnItsWay(p) <=>
                 \/ modal = p
                 \/ [type |-> "modal", prompt |-> p] \in Range(events)
                 \/ \E r \in Range(requests) : r.type = "answer" /\ r.prompt = p
    <2>1. [type |-> "modal", prompt |-> p] \in Range(events) <=>
            \E i \in DOMAIN events : events[i].type = "modal" /\ events[i].prompt = p
      BY QueuesAreSequences, EventInRange
    <2>2. (\E r \in Range(requests) : r.type = "answer" /\ r.prompt = p) <=>
            \E i \in DOMAIN requests : requests[i].type = "answer" /\ requests[i].prompt = p
      BY AnswerInRange
    <2> QED
      BY <2>1, <2>2 DEF OnItsWay
  <1> QED
    BY <1>1 DEF LastPromptIsVisible, LastIsOnItsWay

LEMMA OnItsWayIsVisible == ASSUME TypeOK', LastIsOnItsWay' PROVE LastPromptIsVisible'
  <1>1. (TypeOK => (LastPromptIsVisible <=> LastIsOnItsWay))'
    BY VisibleIsOnItsWay, PTL
  <1> QED
    BY <1>1

LEMMA CalmKeepsVisible ==
    ASSUME IInv, TypeOK', Calm PROVE LastPromptIsVisible'
  <1> SUFFICES ASSUME NEW p \in Prompts, prompt'[p] = "open", ~ gone',
                      \A q \in Prompts : q > p => prompt'[q] = "none"
               PROVE  OnItsWay(p)'
    BY OnItsWayIsVisible DEF LastIsOnItsWay
  <1>1. OnItsWay(p)
    BY VisibleIsOnItsWay DEF Calm, IInv, Tokens, LastIsOnItsWay
  <1>2. CASE modal = p
    BY <1>2 DEF Calm, OnItsWay
  <1>3. ASSUME NEW i \in DOMAIN events, events[i].type = "modal", events[i].prompt = p
        PROVE  OnItsWay(p)'
    BY <1>3 DEF Calm, OnItsWay, SameOfType
  <1>4. ASSUME NEW i \in DOMAIN requests, requests[i].type = "answer", requests[i].prompt = p
        PROVE  OnItsWay(p)'
    BY <1>4 DEF Calm, OnItsWay, SameOfType
  <1> QED
    BY <1>1, <1>2, <1>3, <1>4 DEF OnItsWay

LEMMA CalmPreserves == ASSUME IInv, TypeOK', Calm PROVE Tokens'
  <1>1. EventsInOrder' /\ AnswersOnce' /\ LastPromptIsVisible'
    BY CalmKeepsEvents, CalmKeepsAnswers, CalmKeepsVisible
  <1>2. UnopenedIsUnsaid' /\ GivenIsSaid' /\ ConsentIsOwn'
    BY DEF Calm, IInv, Tokens, UnopenedIsUnsaid, GivenIsSaid, ConsentIsOwn
  <1>3. ShownIsUnsaid'
    BY DEF Calm, IInv, TypeOK, Tokens, ShownIsUnsaid, Nothing
  <1> QED
    BY <1>1, <1>2, <1>3 DEF Tokens

\* Events and requests that are of no prompt.
LEMMA EmitIsQuiet ==
    ASSUME TypeOK, NEW type \in {"turn", "complete", "error", "shutdown"}, Emit(Event(type))
    PROVE  events' \in Seq(EventRecords) /\ SameOfType(events, events', "modal")
  <1>1. Event(type) \in EventRecords /\ Event(type).type # "modal"
    BY DEF Event, EventRecords
  <1>2. events \in Seq(EventRecords)
    BY QueuesAreSequences
  <1> QED
    BY <1>1, <1>2, AppendIsAt, AppendKeepsType DEF Emit

LEMMA SendIsQuiet ==
    ASSUME TypeOK, NEW type \in {"submit_line", "cancel", "shutdown"}, Send(Request(type))
    PROVE  requests' \in Seq(RequestRecords) /\ SameOfType(requests, requests', "answer")
  <1>1. Request(type) \in RequestRecords /\ Request(type).type # "answer"
    BY DEF Request, RequestRecords
  <1>2. requests \in Seq(RequestRecords)
    BY QueuesAreSequences
  <1> QED
    BY <1>1, <1>2, AppendIsAt, AppendKeepsType DEF Send

LEMMA TakeIsQuiet ==
    ASSUME TypeOK, NEW type, type # "answer", Take(type)
    PROVE  requests' \in Seq(RequestRecords) /\ SameOfType(requests, requests', "answer")
  <1>1. requests # <<>> /\ Head(requests).type # "answer" /\ requests' = Tail(requests)
    BY DEF Take
  <1>2. requests \in Seq(RequestRecords)
    BY QueuesAreSequences
  <1> QED
    BY <1>1, <1>2, TailIsAt, TailKeepsType

LEMMA StillIsQuiet ==
    ASSUME TypeOK
    PROVE  /\ events \in Seq(EventRecords) /\ requests \in Seq(RequestRecords)
           /\ SameOfType(events, events, "modal") /\ SameOfType(requests, requests, "answer")
  BY QueuesAreSequences, SameIsSame

LEMMA CalmStep ==
    ASSUME IInv, TypeOK', LineIsCurrent', DroppedIsLeaving', Calm PROVE IInv'
  <1>1. OpenedInOrder'
    BY DEF IInv, OpenedInOrder, Calm
  <1> QED
    BY <1>1, CalmPreserves DEF IInv

\* Steps that do not touch prompts: what they do to the host and its lines, and
\* to the queues.
LEMMA OrphansOnly ==
    ASSUME IInv, UNCHANGED <<prompt, owner, given, granted, expired>>, orphan' \subseteq Prompts,
           UNCHANGED <<modal, said>>, gone => gone',
           pc' \in {"loop", "awaiting", "closing", "ended"}, running' \in BOOLEAN,
           busy' \in BOOLEAN, current' \in Lines \union {Nothing},
           line' \in [Lines -> {"none", "ready", "working", "acting", "cancelled", "over"}],
           fbusy' \in BOOLEAN, gone' \in BOOLEAN, inputs' \in 0..MaxInputs,
           events' \in Seq(EventRecords), SameOfType(events, events', "modal"),
           requests' \in Seq(RequestRecords), SameOfType(requests, requests', "answer"),
           LineIsCurrent', DroppedIsLeaving'
    PROVE  IInv'
  <1>1. TypeOK'
    BY DEF IInv, TypeOK, EventRecords, RequestRecords
  <1>2. Calm
    BY DEF Calm
  <1> QED
    BY <1>1, <1>2, CalmStep

LEMMA PromptsRest ==
    ASSUME IInv, UNCHANGED promptVars,
           UNCHANGED <<modal, said>>, gone => gone',
           pc' \in {"loop", "awaiting", "closing", "ended"}, running' \in BOOLEAN,
           busy' \in BOOLEAN, current' \in Lines \union {Nothing},
           line' \in [Lines -> {"none", "ready", "working", "acting", "cancelled", "over"}],
           fbusy' \in BOOLEAN, gone' \in BOOLEAN, inputs' \in 0..MaxInputs,
           events' \in Seq(EventRecords), SameOfType(events, events', "modal"),
           requests' \in Seq(RequestRecords), SameOfType(requests, requests', "answer"),
           LineIsCurrent', DroppedIsLeaving'
    PROVE  IInv'
  <1>1. UNCHANGED <<prompt, owner, given, granted, expired>> /\ orphan' \subseteq Prompts
    BY DEF promptVars, IInv, TypeOK
  <1> QED
    BY <1>1, OrphansOnly

----------------------------------------------------------------------------
(* The host *)

LEMMA AgainIsLoop == running \in BOOLEAN => Again \in {"loop", "closing"}
  BY DEF Again

\* Cancelling the line that lives.
LEMMA CancelKeeps ==
    ASSUME IInv, NEW l \in Lines, Live(l), Cancel(l), pc' # "loop",
           pc = "loop" \/ line[l] # "cancelled"
    PROVE  /\ LineIsCurrent' /\ DroppedIsLeaving'
           /\ busy' \in BOOLEAN /\ current' \in Lines \union {Nothing}
           /\ line' \in [Lines -> {"none", "ready", "working", "acting", "cancelled", "over"}]
           /\ prompt' \in [Prompts -> {"none", "open", "answered", "dropped", "over"}]
           /\ orphan' \subseteq Prompts
           /\ UNCHANGED <<owner, given, granted, expired>>
           /\ \A p \in Prompts :
                /\ prompt'[p] = "none" <=> prompt[p] = "none"
                /\ prompt'[p] \in {"open", "answered"} => prompt'[p] = prompt[p]
  <1> USE DEF Cancel
  <1>1. LineIsCurrent'
    BY DEF IInv, TypeOK, LineIsCurrent, Live
  <1>2. PICK left \in SUBSET Own(l) :
          /\ orphan' = orphan \union left
          /\ prompt' = [p \in Prompts |-> IF p \in Own(l) \ left THEN "dropped" ELSE prompt[p]]
    OBVIOUS
  <1>3. Own(l) \subseteq {p \in Prompts : Registered(p)}
    BY DEF Own
  <1>4. DroppedIsLeaving'
    <2> SUFFICES ASSUME NEW p \in Prompts, prompt'[p] = "dropped", ~ expired
                 PROVE  p \notin orphan' /\ owner[p] \in Lines /\ line'[owner[p]] = "cancelled"
      BY DEF DroppedIsLeaving
    <2>1. line' = [line EXCEPT ![l] = "cancelled"] /\ line'[l] = "cancelled"
      BY DEF IInv, TypeOK
    <2>2. CASE p \in Own(l) /\ prompt'[p] # prompt[p]
      BY <1>2, <2>1, <2>2 DEF Own
    <2>3. CASE prompt[p] = "dropped"
      <3>1. p \notin orphan /\ owner[p] \in Lines /\ line[owner[p]] = "cancelled" /\ pc # "loop"
        BY <2>3 DEF IInv, DroppedIsLeaving
      <3>2. p \notin Own(l)
        BY <3>1 DEF Own
      <3> QED
        BY <1>2, <2>1, <3>1, <3>2 DEF IInv, TypeOK
    <2> QED
      BY <1>2, <2>2, <2>3
  <1>5. /\ prompt' \in [Prompts -> {"none", "open", "answered", "dropped", "over"}]
        /\ orphan' \subseteq Prompts
    BY <1>2, <1>3 DEF IInv, TypeOK
  <1>6. \A p \in Prompts :
          /\ prompt'[p] = "none" <=> prompt[p] = "none"
          /\ prompt'[p] \in {"open", "answered"} => prompt'[p] = prompt[p]
    BY <1>2, <1>3 DEF Registered
  <1>7. /\ busy' \in BOOLEAN /\ current' \in Lines \union {Nothing}
        /\ line' \in [Lines -> {"none", "ready", "working", "acting", "cancelled", "over"}]
        /\ UNCHANGED <<owner, given, granted, expired>>
    BY DEF IInv, TypeOK
  <1> QED
    BY <1>1, <1>4, <1>5, <1>6, <1>7

\* A step of the host that cancels the line.
LEMMA CancelStep ==
    ASSUME IInv, NEW l \in Lines, Live(l), Cancel(l),
           pc' \in {"awaiting", "closing"}, pc = "loop" \/ line[l] # "cancelled",
           UNCHANGED <<running, frontVars>>,
           events' \in Seq(EventRecords), SameOfType(events, events', "modal"),
           requests' \in Seq(RequestRecords), SameOfType(requests, requests', "answer")
    PROVE  IInv'
  <1>1. /\ LineIsCurrent' /\ DroppedIsLeaving'
        /\ busy' \in BOOLEAN /\ current' \in Lines \union {Nothing}
        /\ line' \in [Lines -> {"none", "ready", "working", "acting", "cancelled", "over"}]
        /\ prompt' \in [Prompts -> {"none", "open", "answered", "dropped", "over"}]
        /\ orphan' \subseteq Prompts
        /\ UNCHANGED <<owner, given, granted, expired>>
        /\ \A p \in Prompts :
             /\ prompt'[p] = "none" <=> prompt[p] = "none"
             /\ prompt'[p] \in {"open", "answered"} => prompt'[p] = prompt[p]
    BY CancelKeeps
  <1>2. TypeOK'
    BY <1>1 DEF IInv, TypeOK, frontVars, EventRecords, RequestRecords
  <1>3. Calm
    BY <1>1 DEF Calm, frontVars
  <1> QED
    BY <1>1, <1>2, <1>3, CalmStep

LEMMA TakeShutdownPreserves == IInv /\ TakeShutdown => IInv'
  <1> SUFFICES ASSUME IInv, TakeShutdown PROVE IInv'
    OBVIOUS
  <1>1. /\ pc = "loop" /\ pc' = "closing" /\ UNCHANGED <<running, frontVars>>
        /\ IF current # Nothing THEN Cancel(current) ELSE UNCHANGED <<lineVars, promptVars>>
    BY DEF TakeShutdown, Take
  <1>2. /\ requests' \in Seq(RequestRecords) /\ SameOfType(requests, requests', "answer")
        /\ events' \in Seq(EventRecords) /\ SameOfType(events, events', "modal")
    BY TakeIsQuiet, EmitIsQuiet DEF TakeShutdown, IInv
  <1>3. CASE current # Nothing
    <2>1. current \in Lines /\ Live(current)
      BY <1>3 DEF IInv, TypeOK, LineIsCurrent
    <2> QED
      BY <1>1, <1>2, <1>3, <2>1, CancelStep
  <1>4. CASE current = Nothing
    <2>1. UNCHANGED <<lineVars, promptVars>>
      BY <1>1, <1>4
    <2>2. LineIsCurrent' /\ DroppedIsLeaving'
      BY <1>1, <2>1 DEF IInv, LineIsCurrent, Live, DroppedIsLeaving, lineVars, promptVars
    <2> QED
      BY <1>1, <1>2, <2>1, <2>2, PromptsRest DEF IInv, TypeOK, lineVars, frontVars
  <1> QED
    BY <1>3, <1>4

LEMMA TakeCancelPreserves == IInv /\ TakeCancel => IInv'
  <1> SUFFICES ASSUME IInv, TakeCancel PROVE IInv'
    OBVIOUS
  <1>1. /\ pc = "loop" /\ UNCHANGED <<running, events, frontVars>>
        /\ IF current = Nothing
             THEN pc' = Again /\ UNCHANGED <<lineVars, promptVars>>
             ELSE pc' = "awaiting" /\ Cancel(current)
    BY DEF TakeCancel, Take
  <1>2. /\ requests' \in Seq(RequestRecords) /\ SameOfType(requests, requests', "answer")
        /\ events' \in Seq(EventRecords) /\ SameOfType(events, events', "modal")
    BY <1>1, TakeIsQuiet, StillIsQuiet DEF TakeCancel, IInv
  <1>3. CASE current # Nothing
    <2>1. current \in Lines /\ Live(current)
      BY <1>3 DEF IInv, TypeOK, LineIsCurrent
    <2> QED
      BY <1>1, <1>2, <1>3, <2>1, CancelStep
  <1>4. CASE current = Nothing
    <2>1. UNCHANGED <<lineVars, promptVars>> /\ pc' \in {"loop", "closing"}
      BY <1>1, <1>4, AgainIsLoop DEF IInv, TypeOK
    <2>2. LineIsCurrent' /\ DroppedIsLeaving'
      BY <1>1, <2>1 DEF IInv, LineIsCurrent, Live, DroppedIsLeaving, lineVars, promptVars
    <2> QED
      BY <1>1, <1>2, <2>1, <2>2, PromptsRest DEF IInv, TypeOK, lineVars, frontVars
  <1> QED
    BY <1>3, <1>4

LEMMA FinishCancelPreserves == IInv /\ FinishCancel => IInv'
  <1> SUFFICES ASSUME IInv, FinishCancel PROVE IInv'
    OBVIOUS
  <1>1. /\ LineIsOver /\ pc' = Again /\ busy' = FALSE /\ current' = Nothing
        /\ UNCHANGED <<running, line, promptVars, frontVars, requests>>
    BY DEF FinishCancel
  <1>2. /\ requests' \in Seq(RequestRecords) /\ SameOfType(requests, requests', "answer")
        /\ events' \in Seq(EventRecords) /\ SameOfType(events, events', "modal")
    BY <1>1, EmitIsQuiet, StillIsQuiet DEF FinishCancel, IInv
  <1>3. LineIsCurrent'
    BY <1>1 DEF LineIsCurrent, LineIsOver, Live
  <1>4. DroppedIsLeaving'
    BY <1>1 DEF IInv, DroppedIsLeaving, LineIsOver, Live, promptVars
  <1>5. pc' \in {"loop", "closing"}
    BY <1>1, AgainIsLoop DEF IInv, TypeOK
  <1> QED
    BY <1>1, <1>2, <1>3, <1>4, <1>5, PromptsRest DEF IInv, TypeOK, frontVars

LEMMA TakeLinePreserves == IInv /\ (RefuseLine \/ TakeLine) => IInv'
  <1> SUFFICES ASSUME IInv, RefuseLine \/ TakeLine PROVE IInv'
    OBVIOUS
  <1>1. pc = "loop" /\ pc' = Again /\ UNCHANGED <<running, promptVars, frontVars>>
    BY DEF RefuseLine, TakeLine, Take
  <1>2. /\ requests' \in Seq(RequestRecords) /\ SameOfType(requests, requests', "answer")
        /\ events' \in Seq(EventRecords) /\ SameOfType(events, events', "modal")
    <2>1. CASE RefuseLine
      BY <2>1, TakeIsQuiet, EmitIsQuiet DEF RefuseLine, IInv
    <2>2. CASE TakeLine
      BY <2>2, TakeIsQuiet, StillIsQuiet DEF TakeLine, IInv
    <2> QED
      BY <2>1, <2>2
  <1>3. pc' \in {"loop", "closing"}
    BY <1>1, AgainIsLoop DEF IInv, TypeOK
  <1>4. CASE RefuseLine
    <2>1. UNCHANGED lineVars
      BY <1>4 DEF RefuseLine
    <2>2. LineIsCurrent' /\ DroppedIsLeaving'
      BY <1>1, <2>1 DEF IInv, LineIsCurrent, Live, DroppedIsLeaving, lineVars, promptVars
    <2> QED
      BY <1>1, <1>2, <1>3, <2>1, <2>2, PromptsRest DEF IInv, TypeOK, lineVars, frontVars
  <1>5. CASE TakeLine
    <2>1. PICK l \in Lines :
            /\ line[l] = "none" /\ ~ busy /\ busy' = TRUE
            /\ current' = l /\ line' = [line EXCEPT ![l] = "ready"]
      BY <1>5 DEF TakeLine, Fresh, IInv, TypeOK
    <2>2. l # Nothing
      BY DEF Lines, Nothing
    <2>3. LineIsCurrent'
      <3>1. \A m \in Lines : ~ Live(m)
        BY <2>1 DEF IInv, LineIsCurrent, Lines, Nothing
      <3>2. line'[l] = "ready" /\ \A m \in Lines : m # l => line'[m] = line[m]
        BY <2>1 DEF IInv, TypeOK
      <3> QED
        BY <2>1, <2>2, <3>1, <3>2 DEF LineIsCurrent, Live
    <2>4. DroppedIsLeaving'
      BY <1>1, <2>1 DEF IInv, TypeOK, DroppedIsLeaving, promptVars
    <2> QED
      BY <1>1, <1>2, <1>3, <2>1, <2>3, <2>4, PromptsRest DEF IInv, TypeOK, frontVars
  <1> QED
    BY <1>4, <1>5

LEMMA ClosePreserves == IInv /\ Close => IInv'
  <1> SUFFICES ASSUME IInv, Close PROVE IInv'
    OBVIOUS
  <1>1. pc = "closing" /\ UNCHANGED <<running, requests, events, frontVars>>
    BY DEF Close
  <1>2. /\ requests' \in Seq(RequestRecords) /\ SameOfType(requests, requests', "answer")
        /\ events' \in Seq(EventRecords) /\ SameOfType(events, events', "modal")
    BY <1>1, StillIsQuiet DEF IInv
  <1>3. CASE LineIsOver
    <2>1. /\ pc' = "ended"
          /\ prompt' = [p \in Prompts |-> IF Registered(p) THEN "over" ELSE prompt[p]]
          /\ UNCHANGED <<lineVars, owner, given, granted, orphan, expired>>
      BY <1>3 DEF Close
    <2>2. LineIsCurrent'
      BY <2>1 DEF IInv, LineIsCurrent, Live, lineVars
    <2>3. DroppedIsLeaving'
      BY <2>1 DEF DroppedIsLeaving, Registered
    <2>4. TypeOK'
      BY <1>1, <1>2, <2>1 DEF IInv, TypeOK, lineVars, frontVars, EventRecords, RequestRecords
    <2>5. Calm
      BY <1>1, <1>2, <2>1 DEF Calm, Registered, frontVars
    <2> QED
      BY <2>2, <2>3, <2>4, <2>5, CalmStep
  <1>4. CASE ~ LineIsOver
    <2>1. PICK l \in Lines : Live(l) /\ line[l] # "cancelled" /\ Cancel(l)
      BY <1>4 DEF Close
    <2>2. pc' = "closing"
      BY <1>1, <1>4 DEF Close
    <2> QED
      BY <1>1, <1>2, <2>1, <2>2, CancelStep
  <1> QED
    BY <1>3, <1>4

LEMMA TakeAnswerPreserves == IInv /\ TakeAnswer => IInv'
  <1> SUFFICES ASSUME IInv, TakeAnswer PROVE IInv'
    OBVIOUS
  <1> DEFINE p == Head(requests).prompt
  <1>1. /\ pc = "loop" /\ requests # <<>> /\ Head(requests).type = "answer"
        /\ requests' = Tail(requests)
        /\ IF prompt[p] = "open"
             THEN /\ prompt' = [prompt EXCEPT ![p] = "answered"]
                  /\ given' = [given EXCEPT ![p] = Head(requests).answer]
             ELSE UNCHANGED <<prompt, given>>
        /\ UNCHANGED <<running, lineVars, owner, granted, orphan, expired, events, frontVars>>
    BY DEF TakeAnswer, Take
  <1>2. pc' \in {"loop", "closing"}
    BY AgainIsLoop DEF TakeAnswer, IInv, TypeOK
  <1>3. requests \in Seq(RequestRecords)
    BY QueuesAreSequences DEF IInv
  <1>4. /\ Tail(requests) \in Seq(RequestRecords) /\ Head(requests) = requests[1]
        /\ Len(requests) \in Nat \ {0}
        /\ DOMAIN requests = 1..Len(requests) /\ DOMAIN Tail(requests) = 1..Len(requests) - 1
        /\ \A i \in 1..Len(requests) - 1 : Tail(requests)[i] = requests[i + 1]
    BY <1>1, <1>3, TailIsAt
  <1>5. /\ p \in Prompts /\ Head(requests).answer = said[p] /\ said[p] # "none"
        /\ given[p] = "none"
        /\ \A i \in 1..Len(requests) - 1 :
             requests[i + 1].type = "answer" => requests[i + 1].prompt # p
    <2>1. 1 \in DOMAIN requests /\ requests[1].type = "answer"
      BY <1>1, <1>4
    <2>2. ASSUME NEW i \in 1..Len(requests) - 1, requests[i + 1].type = "answer"
          PROVE  requests[i + 1].prompt # p
      <3>1. i + 1 \in DOMAIN requests /\ 1 < i + 1
        BY <1>4
      <3> QED
        BY <1>4, <2>1, <2>2, <3>1 DEF IInv, Tokens, AnswersOnce
    <2> QED
      BY <1>4, <2>1, <2>2 DEF IInv, Tokens, AnswersOnce
  <1>6. said[p] \in Answers \union {"none"}
    BY <1>5 DEF IInv, TypeOK
  <1> HIDE DEF p
  <1>7. /\ \A q \in Prompts : q # p => prompt'[q] = prompt[q] /\ given'[q] = given[q]
        /\ prompt'[p] = (IF prompt[p] = "open" THEN "answered" ELSE prompt[p])
        /\ given'[p] = (IF prompt[p] = "open" THEN said[p] ELSE given[p])
    BY <1>1, <1>5 DEF IInv, TypeOK
  <1>8. TypeOK'
    <2>1. /\ prompt' \in [Prompts -> {"none", "open", "answered", "dropped", "over"}]
          /\ given' \in [Prompts -> Answers \union {"none"}]
      <3>1. CASE prompt[p] = "open"
        <4>1. prompt' = [prompt EXCEPT ![p] = "answered"] /\ given' = [given EXCEPT ![p] = said[p]]
          BY <1>1, <1>5, <3>1
        <4> QED
          BY <1>6, <4>1 DEF IInv, TypeOK
      <3>2. CASE prompt[p] # "open"
        BY <1>1, <3>2 DEF IInv, TypeOK
      <3> QED
        BY <3>1, <3>2
    <2> QED
      BY <1>1, <1>2, <1>4, <2>1 DEF IInv, TypeOK, lineVars, frontVars, RequestRecords
  <1>9. LineIsCurrent' /\ DroppedIsLeaving' /\ OpenedInOrder'
    <2>1. LineIsCurrent'
      BY <1>1 DEF IInv, LineIsCurrent, Live, lineVars
    <2>2. DroppedIsLeaving'
      BY <1>1, <1>7 DEF IInv, DroppedIsLeaving
    <2>3. OpenedInOrder'
      BY <1>7 DEF IInv, OpenedInOrder
    <2> QED
      BY <2>1, <2>2, <2>3
  <1>10. UnopenedIsUnsaid' /\ ShownIsUnsaid' /\ EventsInOrder' /\ GivenIsSaid' /\ ConsentIsOwn'
    <2>1. said' = said /\ modal' = modal /\ events' = events /\ granted' = granted
      BY <1>1 DEF frontVars
    <2>2. \A q \in Prompts : prompt'[q] = "none" <=> prompt[q] = "none"
      BY <1>7
    <2>3. UnopenedIsUnsaid' /\ ShownIsUnsaid' /\ ConsentIsOwn'
      BY <2>1, <2>2 DEF IInv, TypeOK, Tokens, UnopenedIsUnsaid, ShownIsUnsaid, ConsentIsOwn, Nothing
    <2>4. EventsInOrder'
      BY <2>1, <2>2 DEF IInv, Tokens, EventsInOrder
    <2>5. GivenIsSaid'
      BY <1>5, <1>7, <2>1 DEF IInv, Tokens, GivenIsSaid
    <2> QED
      BY <2>3, <2>4, <2>5
  <1>11. AnswersOnce'
    <2>1. ASSUME NEW i \in DOMAIN requests', requests'[i].type = "answer"
          PROVE  LET q == requests'[i].prompt IN
                 /\ q \in Prompts /\ requests'[i].answer = said'[q] /\ said'[q] # "none"
                 /\ given'[q] = "none"
      <3>1. i \in 1..Len(requests) - 1 /\ i + 1 \in DOMAIN requests /\ requests'[i] = requests[i + 1]
        BY <1>1, <1>4
      <3>2. requests'[i].prompt # p
        BY <1>5, <2>1, <3>1
      <3> QED
        BY <1>1, <1>7, <2>1, <3>1, <3>2 DEF IInv, Tokens, AnswersOnce, frontVars
    <2>2. ASSUME NEW i \in DOMAIN requests', NEW j \in DOMAIN requests',
                 requests'[i].type = "answer", requests'[j].type = "answer", i < j
          PROVE  requests'[i].prompt # requests'[j].prompt
      <3>1. /\ i + 1 \in DOMAIN requests /\ requests'[i] = requests[i + 1]
            /\ j + 1 \in DOMAIN requests /\ requests'[j] = requests[j + 1]
            /\ i + 1 < j + 1
        BY <1>1, <1>4, <2>2
      <3> QED
        BY <2>2, <3>1 DEF IInv, Tokens, AnswersOnce
    <2> QED
      BY <2>1, <2>2 DEF AnswersOnce
  <1>12. LastPromptIsVisible'
    <2> SUFFICES ASSUME NEW q \in Prompts, prompt'[q] = "open", ~ gone',
                        \A r \in Prompts : r > q => prompt'[r] = "none"
                 PROVE  OnItsWay(q)'
      BY <1>8, OnItsWayIsVisible DEF LastIsOnItsWay
    <2>1. q # p /\ prompt[q] = "open"
      BY <1>7
    <2>2. OnItsWay(q)
      <3>1. ~ gone /\ \A r \in Prompts : r > q => prompt[r] = "none"
        BY <1>1, <1>7 DEF frontVars
      <3> QED
        BY <2>1, <3>1, VisibleIsOnItsWay DEF IInv, Tokens, LastIsOnItsWay
    <2>3. ASSUME NEW i \in DOMAIN requests, requests[i].type = "answer", requests[i].prompt = q
          PROVE  OnItsWay(q)'
      <3>1. i # 1
        BY <1>4, <2>1, <2>3 DEF p
      <3>2. i - 1 \in 1..Len(requests) - 1 /\ (i - 1) + 1 = i
        BY <1>4, <3>1
      <3>3. i - 1 \in DOMAIN requests' /\ requests'[i - 1] = requests[i]
        BY <1>1, <1>4, <3>2
      <3> QED
        BY <2>3, <3>3 DEF OnItsWay
    <2> QED
      BY <1>1, <2>2, <2>3 DEF OnItsWay, frontVars
  <1> QED
    BY <1>8, <1>9, <1>10, <1>11, <1>12 DEF IInv, Tokens

LEMMA HostPreserves == IInv /\ Host => IInv'
  BY TakeShutdownPreserves, TakeCancelPreserves, FinishCancelPreserves, TakeAnswerPreserves,
     TakeLinePreserves, ClosePreserves DEF Host

----------------------------------------------------------------------------
(* The task of a line and its calls *)

\* A line that lives goes on or leaves; it leaves a cancellation behind only
\* when no call of its own is left, and may leave its calls behind otherwise.
LEMMA LineChanges ==
    ASSUME IInv, NEW l \in Lines, Live(l), UNCHANGED <<pc, prompt, owner, expired>>,
           line[l] = "cancelled" => Own(l) = {},
           orphan' \in {orphan, orphan \union Own(l)},
           \/ /\ line' = [line EXCEPT ![l] = "working"] /\ line[l] # "cancelled"
              /\ UNCHANGED <<busy, current>>
           \/ /\ line' = [line EXCEPT ![l] = "acting"] /\ line[l] # "cancelled"
              /\ UNCHANGED <<busy, current>>
           \/ Leave(l)
    PROVE  /\ LineIsCurrent' /\ DroppedIsLeaving'
           /\ busy' \in BOOLEAN /\ current' \in Lines \union {Nothing}
           /\ line' \in [Lines -> {"none", "ready", "working", "acting", "cancelled", "over"}]
  <1>1. current = l /\ \A m \in Lines : Live(m) => m = l
    BY DEF IInv, LineIsCurrent
  <1>2. /\ busy' \in BOOLEAN /\ current' \in Lines \union {Nothing}
        /\ line' \in [Lines -> {"none", "ready", "working", "acting", "cancelled", "over"}]
    BY DEF Leave, IInv, TypeOK
  <1>3. \A m \in Lines : m # l => line'[m] = line[m]
    BY DEF Leave, IInv, TypeOK
  <1>4. LineIsCurrent'
    <2>1. CASE Leave(l)
      <3>1. line'[l] = "over" /\ busy' = FALSE /\ current' = Nothing
        BY <2>1 DEF Leave, IInv, TypeOK
      <3> QED
        BY <1>1, <1>3, <3>1 DEF LineIsCurrent, Live
    <2>2. CASE ~ Leave(l)
      <3>1. line'[l] \in {"working", "acting"} /\ busy' = busy /\ current' = current
        BY <2>2 DEF IInv, TypeOK
      <3> QED
        BY <1>1, <1>3, <3>1 DEF IInv, LineIsCurrent, Live
    <2> QED
      BY <2>1, <2>2
  <1>5. DroppedIsLeaving'
    <2> SUFFICES ASSUME NEW p \in Prompts, prompt[p] = "dropped", ~ expired
                 PROVE  /\ p \notin orphan' /\ owner[p] \in Lines
                        /\ line'[owner[p]] = "cancelled" /\ pc # "loop"
      BY DEF DroppedIsLeaving
    <2>1. p \notin orphan /\ owner[p] \in Lines /\ line[owner[p]] = "cancelled" /\ pc # "loop"
      BY DEF IInv, DroppedIsLeaving
    <2>2. owner[p] # l
      BY <2>1 DEF Own, Registered
    <2>3. p \notin orphan'
      BY <2>1, <2>2 DEF Own
    <2> QED
      BY <1>3, <2>1, <2>2, <2>3
  <1> QED
    BY <1>2, <1>4, <1>5

LEMMA StartLinePreserves == ASSUME IInv, NEW l \in Lines, StartLine(l) PROVE IInv'
  <1>1. /\ line[l] = "ready" /\ line' = [line EXCEPT ![l] = "working"]
        /\ UNCHANGED <<hostVars, busy, current, promptVars, requests, events, frontVars>>
    BY DEF StartLine
  <1>2. /\ LineIsCurrent' /\ DroppedIsLeaving'
        /\ busy' \in BOOLEAN /\ current' \in Lines \union {Nothing}
        /\ line' \in [Lines -> {"none", "ready", "working", "acting", "cancelled", "over"}]
    BY <1>1, LineChanges DEF Live, hostVars, promptVars
  <1>3. /\ requests' \in Seq(RequestRecords) /\ SameOfType(requests, requests', "answer")
        /\ events' \in Seq(EventRecords) /\ SameOfType(events, events', "modal")
    BY <1>1, StillIsQuiet DEF IInv
  <1> QED
    BY <1>1, <1>2, <1>3, PromptsRest DEF IInv, TypeOK, hostVars, frontVars

LEMMA ReportTurnPreserves == ASSUME IInv, NEW l \in Lines, ReportTurn(l) PROVE IInv'
  <1>1. /\ line[l] = "working" /\ line' = [line EXCEPT ![l] = "acting"] /\ Emit(Event("turn"))
        /\ UNCHANGED <<hostVars, busy, current, promptVars, requests, frontVars>>
    BY DEF ReportTurn
  <1>2. /\ LineIsCurrent' /\ DroppedIsLeaving'
        /\ busy' \in BOOLEAN /\ current' \in Lines \union {Nothing}
        /\ line' \in [Lines -> {"none", "ready", "working", "acting", "cancelled", "over"}]
    BY <1>1, LineChanges DEF Live, hostVars, promptVars
  <1>3. /\ requests' \in Seq(RequestRecords) /\ SameOfType(requests, requests', "answer")
        /\ events' \in Seq(EventRecords) /\ SameOfType(events, events', "modal")
    BY <1>1, StillIsQuiet, EmitIsQuiet DEF IInv
  <1> QED
    BY <1>1, <1>2, <1>3, PromptsRest DEF IInv, TypeOK, hostVars, frontVars

LEMMA LeavingPreserves ==
    ASSUME IInv, NEW l \in Lines, EndLine(l) \/ ExitLine(l) \/ FailLine(l) \/ UnwindLine(l)
    PROVE  IInv'
  <1>1. /\ Live(l) /\ Leave(l)
        /\ UNCHANGED <<pc, prompt, owner, given, granted, expired, requests, frontVars>>
        /\ line[l] = "cancelled" => Own(l) = {}
        /\ orphan' \in {orphan, orphan \union Own(l)}
    BY DEF EndLine, ExitLine, FailLine, UnwindLine, LeaveBehind, Live, hostVars, promptVars
  <1>2. /\ LineIsCurrent' /\ DroppedIsLeaving'
        /\ busy' \in BOOLEAN /\ current' \in Lines \union {Nothing}
        /\ line' \in [Lines -> {"none", "ready", "working", "acting", "cancelled", "over"}]
    BY <1>1, LineChanges
  <1>3. events' \in Seq(EventRecords) /\ SameOfType(events, events', "modal")
    <2>1. CASE EndLine(l) \/ FailLine(l)
      BY <2>1, EmitIsQuiet DEF EndLine, FailLine, IInv
    <2>2. CASE ExitLine(l)
      <3>1. events' = events \o <<Event("complete"), Event("shutdown")>>
        BY <2>2 DEF ExitLine
      <3>2. /\ Event("complete") \in EventRecords /\ Event("complete").type # "modal"
            /\ Event("shutdown") \in EventRecords /\ Event("shutdown").type # "modal"
        BY DEF Event, EventRecords
      <3> QED
        BY <3>1, <3>2, SameTwice, QueuesAreSequences DEF IInv
    <2>3. CASE UnwindLine(l)
      BY <2>3, StillIsQuiet DEF UnwindLine, IInv
    <2> QED
      BY <2>1, <2>2, <2>3
  <1>4. running' \in BOOLEAN
    BY DEF EndLine, ExitLine, FailLine, UnwindLine, hostVars, IInv, TypeOK
  <1>5. requests' \in Seq(RequestRecords) /\ SameOfType(requests, requests', "answer")
    BY <1>1, StillIsQuiet DEF IInv
  <1>6. orphan' \subseteq Prompts
    BY <1>1 DEF IInv, TypeOK, Own
  <1> QED
    BY <1>1, <1>2, <1>3, <1>4, <1>5, <1>6, OrphansOnly DEF IInv, TypeOK, frontVars

\* A new prompt is the last one, and its event the last on the way.
LEMMA AskPreserves == ASSUME IInv, NEW l \in Lines, Ask(l) PROVE IInv'
  <1>1. PICK p \in Fresh(prompt) :
          /\ prompt' = [prompt EXCEPT ![p] = "open"]
          /\ owner' = [owner EXCEPT ![p] = l]
          /\ orphan' = IF line[l] \in {"working", "acting"} THEN orphan ELSE orphan \union {p}
          /\ Emit([type |-> "modal", prompt |-> p])
    BY DEF Ask
  <1>2. UNCHANGED <<hostVars, lineVars, given, granted, expired, requests, frontVars>>
    BY DEF Ask
  <1>3. p \in Prompts /\ prompt[p] = "none" /\ \A q \in Prompts : q < p => prompt[q] # "none"
    BY <1>1 DEF Fresh, IInv, TypeOK
  <1>4. \A q \in Prompts : q > p => prompt[q] = "none"
    BY <1>3 DEF IInv, OpenedInOrder, Prompts
  <1>5. \A q \in Prompts : q \in Int /\ q # 0
    BY DEF Prompts
  <1>6. /\ prompt'[p] = "open" /\ \A q \in Prompts : q # p => prompt'[q] = prompt[q]
        /\ \A q \in Prompts : q # p => owner'[q] = owner[q] /\ (q \in orphan' => q \in orphan)
    BY <1>1, <1>3 DEF IInv, TypeOK
  <1>7. said[p] = "none"
    BY <1>3 DEF IInv, Tokens, UnopenedIsUnsaid
  <1> DEFINE e == [type |-> "modal", prompt |-> p]
  <1>8. /\ events \in Seq(EventRecords) /\ e \in EventRecords
        /\ e.type = "modal" /\ e.prompt = p /\ events' = Append(events, e)
    BY <1>1, <1>3, QueuesAreSequences DEF EventRecords, Emit, IInv
  <1>9. /\ events' \in Seq(EventRecords) /\ Len(events) \in Nat
        /\ DOMAIN events = 1..Len(events) /\ DOMAIN events' = 1..Len(events) + 1
        /\ \A i \in 1..Len(events) : events'[i] = events[i]
        /\ events'[Len(events) + 1] = e
    BY <1>8, AppendIsAt
  <1> HIDE DEF e
  <1>10. TypeOK'
    <2>1. /\ prompt' \in [Prompts -> {"none", "open", "answered", "dropped", "over"}]
          /\ owner' \in [Prompts -> Lines \union {Nothing}]
          /\ orphan' \subseteq Prompts
      BY <1>1, <1>3 DEF IInv, TypeOK
    <2> QED
      BY <1>2, <1>9, <2>1 DEF IInv, TypeOK, hostVars, lineVars, frontVars, EventRecords
  <1>11. LineIsCurrent' /\ DroppedIsLeaving' /\ OpenedInOrder'
    <2>1. LineIsCurrent'
      BY <1>2 DEF IInv, LineIsCurrent, Live, lineVars
    <2>2. DroppedIsLeaving'
      BY <1>2, <1>6 DEF IInv, DroppedIsLeaving, lineVars, hostVars
    <2>3. OpenedInOrder'
      BY <1>3, <1>4, <1>5, <1>6 DEF OpenedInOrder
    <2> QED
      BY <2>1, <2>2, <2>3
  <1>12. UnopenedIsUnsaid' /\ ShownIsUnsaid' /\ AnswersOnce' /\ GivenIsSaid' /\ ConsentIsOwn'
    <2>1. /\ said' = said /\ modal' = modal /\ given' = given /\ granted' = granted
          /\ requests' = requests
      BY <1>2 DEF frontVars
    <2>2. UnopenedIsUnsaid' /\ ShownIsUnsaid' /\ ConsentIsOwn'
      BY <1>6, <2>1 DEF IInv, TypeOK, Tokens, UnopenedIsUnsaid, ShownIsUnsaid, ConsentIsOwn, Nothing
    <2>3. AnswersOnce'
      BY <2>1 DEF IInv, Tokens, AnswersOnce
    <2>4. GivenIsSaid'
      BY <1>6, <2>1 DEF IInv, Tokens, GivenIsSaid
    <2> QED
      BY <2>2, <2>3, <2>4
  <1>13. EventsInOrder'
    <2>1. said' = said /\ modal' = modal
      BY <1>2 DEF frontVars
    <2>2. modal < p
      BY <1>3, <1>4, <1>5 DEF IInv, TypeOK, Tokens, ShownIsUnsaid, Nothing, Prompts
    <2>3. ASSUME NEW i \in DOMAIN events, events[i].type = "modal"
          PROVE  events[i].prompt \in Prompts /\ prompt[events[i].prompt] # "none"
      BY <2>3 DEF IInv, Tokens, EventsInOrder
    <2>4. ASSUME NEW i \in DOMAIN events, events[i].type = "modal"
          PROVE  events[i].prompt < p
      BY <1>3, <1>4, <1>5, <2>3, <2>4
    <2>5. ASSUME NEW i \in DOMAIN events', events'[i].type = "modal"
          PROVE  LET q == events'[i].prompt IN
                 q \in Prompts /\ modal' < q /\ prompt'[q] # "none" /\ said'[q] = "none"
      <3>1. CASE i \in DOMAIN events
        <4>1. events'[i] = events[i]
          BY <1>9, <3>1
        <4> QED
          BY <1>6, <2>1, <2>5, <3>1, <4>1 DEF IInv, Tokens, EventsInOrder
      <3>2. CASE i \notin DOMAIN events
        <4>1. events'[i] = e
          BY <1>9, <3>2
        <4> QED
          BY <1>3, <1>6, <1>7, <1>8, <2>1, <2>2, <4>1
      <3> QED
        BY <3>1, <3>2
    <2>6. ASSUME NEW i \in DOMAIN events', NEW j \in DOMAIN events',
                 events'[i].type = "modal", events'[j].type = "modal", i < j
          PROVE  events'[i].prompt < events'[j].prompt
      <3>1. i \in DOMAIN events /\ events'[i] = events[i]
        BY <1>9, <2>6
      <3>2. CASE j \in DOMAIN events
        <4>1. events'[j] = events[j]
          BY <1>9, <3>2
        <4> QED
          BY <2>6, <3>1, <3>2, <4>1 DEF IInv, Tokens, EventsInOrder
      <3>3. CASE j \notin DOMAIN events
        <4>1. events'[j] = e
          BY <1>9, <3>3
        <4> QED
          BY <1>8, <2>4, <2>6, <3>1, <4>1
      <3> QED
        BY <3>2, <3>3
    <2> QED
      BY <2>5, <2>6 DEF EventsInOrder
  <1>14. LastPromptIsVisible'
    <2> SUFFICES ASSUME NEW q \in Prompts, prompt'[q] = "open",
                        \A r \in Prompts : r > q => prompt'[r] = "none"
                 PROVE  OnItsWay(q)'
      BY <1>10, OnItsWayIsVisible DEF LastIsOnItsWay
    <2>1. q = p
      BY <1>3, <1>4, <1>5, <1>6
    <2>2. Len(events) + 1 \in DOMAIN events'
      BY <1>9
    <2> QED
      BY <1>8, <1>9, <2>1, <2>2 DEF OnItsWay
  <1> QED
    BY <1>10, <1>11, <1>12, <1>13, <1>14 DEF IInv, Tokens

\* The call goes on with what its future holds, and that is what the user said.
LEMMA ResumePreserves == ASSUME IInv, NEW p \in Prompts, Resume(p) PROVE IInv'
  <1>1. /\ prompt[p] \in {"answered", "dropped"}
        /\ granted' = [granted EXCEPT ![p] = IF prompt[p] = "answered" THEN given[p] ELSE "none"]
        /\ prompt' = [prompt EXCEPT ![p] = "over"]
        /\ UNCHANGED <<hostVars, lineVars, owner, given, orphan, expired, requests, events, frontVars>>
    BY DEF Resume
  <1>2. /\ prompt'[p] = "over" /\ \A q \in Prompts : q # p => prompt'[q] = prompt[q]
        /\ granted'[p] \in {given[p], "none"}
        /\ \A q \in Prompts : q # p => granted'[q] = granted[q]
    BY <1>1 DEF IInv, TypeOK
  <1>3. TypeOK'
    BY <1>1, <1>2 DEF IInv, TypeOK, hostVars, lineVars, frontVars
  <1>4. LineIsCurrent' /\ DroppedIsLeaving'
    BY <1>1, <1>2 DEF IInv, LineIsCurrent, Live, DroppedIsLeaving, lineVars, hostVars
  <1>5. Calm
    BY <1>1, <1>2, StillIsQuiet DEF Calm, frontVars, IInv
  <1> QED
    BY <1>3, <1>4, <1>5, CalmStep

LEMMA ExpirePreserves == ASSUME IInv, NEW p \in Prompts, Expire(p) PROVE IInv'
  <1>1. /\ prompt[p] = "open" /\ prompt' = [prompt EXCEPT ![p] = "dropped"] /\ expired' = TRUE
        /\ UNCHANGED <<hostVars, lineVars, owner, given, granted, orphan, requests, events, frontVars>>
    BY DEF Expire
  <1>2. prompt'[p] = "dropped" /\ \A q \in Prompts : q # p => prompt'[q] = prompt[q]
    BY <1>1 DEF IInv, TypeOK
  <1>3. TypeOK'
    BY <1>1 DEF IInv, TypeOK, hostVars, lineVars, frontVars
  <1>4. LineIsCurrent' /\ DroppedIsLeaving'
    BY <1>1 DEF IInv, LineIsCurrent, Live, DroppedIsLeaving, lineVars
  <1>5. Calm
    BY <1>1, <1>2, StillIsQuiet DEF Calm, frontVars, IInv
  <1> QED
    BY <1>3, <1>4, <1>5, CalmStep

----------------------------------------------------------------------------
(* The frontend and the user *)

\* Steps that leave the host, its lines and the prompts alone.
LEMMA FrontendSteps ==
    ASSUME IInv, UNCHANGED <<hostVars, lineVars, promptVars, modal, said>>, gone => gone',
           fbusy' \in BOOLEAN, gone' \in BOOLEAN, inputs' \in 0..MaxInputs,
           events' \in Seq(EventRecords), SameOfType(events, events', "modal"),
           requests' \in Seq(RequestRecords), SameOfType(requests, requests', "answer")
    PROVE  IInv'
  <1>1. LineIsCurrent' /\ DroppedIsLeaving'
    BY DEF IInv, LineIsCurrent, Live, DroppedIsLeaving, hostVars, lineVars, promptVars
  <1> QED
    BY <1>1, PromptsRest DEF IInv, TypeOK, hostVars, lineVars

LEMMA EnterCounts == IInv /\ Enter => ~ gone /\ inputs' \in 0..MaxInputs
  BY TerminalAssumption DEF IInv, TypeOK, Enter

LEMMA InputPreserves ==
    ASSUME IInv, Submit \/ CycleMode \/ RequestSessions \/ Escape \/ Quit PROVE IInv'
  <1>1. Enter /\ UNCHANGED modal
    BY DEF Submit, CycleMode, RequestSessions, Escape, Quit
  <1>2. ~ gone /\ inputs' \in 0..MaxInputs /\ UNCHANGED <<hostVars, lineVars, promptVars, modal, said>>
    BY <1>1, EnterCounts DEF Enter
  <1>3. fbusy' \in BOOLEAN /\ gone' \in BOOLEAN
    BY DEF Submit, CycleMode, RequestSessions, Escape, Quit, IInv, TypeOK
  <1>4. events' \in Seq(EventRecords) /\ SameOfType(events, events', "modal")
    BY StillIsQuiet, EmitIsQuiet DEF Submit, CycleMode, RequestSessions, Escape, Quit, IInv
  <1>5. requests' \in Seq(RequestRecords) /\ SameOfType(requests, requests', "answer")
    BY StillIsQuiet, SendIsQuiet DEF Submit, CycleMode, RequestSessions, Escape, Quit, IInv
  <1> QED
    BY <1>2, <1>3, <1>4, <1>5, FrontendSteps

LEMMA NoticeEndPreserves == IInv /\ NoticeEnd => IInv'
  BY StillIsQuiet, FrontendSteps DEF NoticeEnd, IInv, TypeOK

\* A modal event takes the screen from the prompt that had it, which is then not
\* the one opened last.
LEMMA ShowPreserves ==
    ASSUME IInv, HandleEvent, Head(events).type = "modal" PROVE IInv'
  <1> DEFINE p == Head(events).prompt
  <1>1. /\ ~ gone /\ events # <<>> /\ events' = Tail(events) /\ modal' = p
        /\ fbusy' \in BOOLEAN /\ gone' = FALSE /\ requests' = requests
        /\ UNCHANGED <<hostVars, lineVars, promptVars, said, inputs>>
    BY DEF HandleEvent, IInv, TypeOK
  <1>2. events \in Seq(EventRecords)
    BY QueuesAreSequences DEF IInv
  <1>3. /\ Tail(events) \in Seq(EventRecords) /\ Head(events) = events[1]
        /\ Len(events) \in Nat \ {0}
        /\ DOMAIN events = 1..Len(events) /\ DOMAIN Tail(events) = 1..Len(events) - 1
        /\ \A i \in 1..Len(events) - 1 : Tail(events)[i] = events[i + 1]
    BY <1>1, <1>2, TailIsAt
  <1>4. /\ p \in Prompts /\ modal < p /\ prompt[p] # "none" /\ said[p] = "none"
        /\ \A i \in 1..Len(events) - 1 :
             events[i + 1].type = "modal" => p < events[i + 1].prompt
    <2>1. 1 \in DOMAIN events /\ events[1].type = "modal"
      BY <1>3
    <2>2. ASSUME NEW i \in 1..Len(events) - 1, events[i + 1].type = "modal"
          PROVE  p < events[i + 1].prompt
      <3>1. i + 1 \in DOMAIN events /\ 1 < i + 1
        BY <1>3
      <3> QED
        BY <1>3, <2>1, <2>2, <3>1 DEF IInv, Tokens, EventsInOrder
    <2> QED
      BY <1>3, <2>1, <2>2 DEF IInv, Tokens, EventsInOrder
  <1>5. TypeOK'
    BY <1>1, <1>3, <1>4 DEF IInv, TypeOK, hostVars, lineVars, promptVars, EventRecords
  <1>6. LineIsCurrent' /\ DroppedIsLeaving' /\ OpenedInOrder'
    BY <1>1 DEF IInv, LineIsCurrent, Live, DroppedIsLeaving, OpenedInOrder, hostVars, lineVars, promptVars
  <1>7. /\ UnopenedIsUnsaid' /\ AnswersOnce' /\ GivenIsSaid' /\ ConsentIsOwn'
    BY <1>1 DEF IInv, Tokens, UnopenedIsUnsaid, AnswersOnce, GivenIsSaid, ConsentIsOwn, promptVars
  <1>8. ShownIsUnsaid'
    BY <1>1, <1>4 DEF ShownIsUnsaid, promptVars
  <1>9. EventsInOrder'
    <2>1. ASSUME NEW i \in DOMAIN events', events'[i].type = "modal"
          PROVE  LET q == events'[i].prompt IN
                 q \in Prompts /\ modal' < q /\ prompt'[q] # "none" /\ said'[q] = "none"
      <3>1. i \in 1..Len(events) - 1 /\ i + 1 \in DOMAIN events /\ events'[i] = events[i + 1]
        BY <1>1, <1>3
      <3> HIDE DEF p
      <3> QED
        BY <1>1, <1>4, <2>1, <3>1 DEF IInv, Tokens, EventsInOrder, promptVars
    <2>2. ASSUME NEW i \in DOMAIN events', NEW j \in DOMAIN events',
                 events'[i].type = "modal", events'[j].type = "modal", i < j
          PROVE  events'[i].prompt < events'[j].prompt
      <3>1. /\ i + 1 \in DOMAIN events /\ events'[i] = events[i + 1]
            /\ j + 1 \in DOMAIN events /\ events'[j] = events[j + 1]
            /\ i + 1 < j + 1
        BY <1>1, <1>3, <2>2
      <3> QED
        BY <2>2, <3>1 DEF IInv, Tokens, EventsInOrder
    <2> QED
      BY <2>1, <2>2 DEF EventsInOrder
  <1>10. LastPromptIsVisible'
    <2> SUFFICES ASSUME NEW q \in Prompts, prompt[q] = "open",
                        \A r \in Prompts : r > q => prompt[r] = "none"
                 PROVE  OnItsWay(q)'
      BY <1>1, <1>5, OnItsWayIsVisible DEF LastIsOnItsWay, promptVars
    <2>1. OnItsWay(q)
      BY <1>1, VisibleIsOnItsWay DEF IInv, Tokens, LastIsOnItsWay
    <2>2. modal # q
      BY <1>4 DEF Prompts
    <2>3. ASSUME NEW i \in DOMAIN events, events[i].type = "modal", events[i].prompt = q
          PROVE  OnItsWay(q)'
      <3>1. CASE i = 1
        BY <1>1, <1>3, <2>3, <3>1 DEF OnItsWay
      <3>2. CASE i # 1
        <4>1. i - 1 \in 1..Len(events) - 1 /\ (i - 1) + 1 = i
          BY <1>3, <3>2
        <4>2. i - 1 \in DOMAIN events' /\ events'[i - 1] = events[i]
          BY <1>1, <1>3, <4>1
        <4> QED
          BY <2>3, <4>2 DEF OnItsWay
      <3> QED
        BY <3>1, <3>2
    <2> QED
      BY <1>1, <2>1, <2>2, <2>3 DEF OnItsWay
  <1> QED
    BY <1>5, <1>6, <1>7, <1>8, <1>9, <1>10 DEF IInv, Tokens

LEMMA HandleEventPreserves == IInv /\ HandleEvent => IInv'
  <1> SUFFICES ASSUME IInv, HandleEvent PROVE IInv'
    OBVIOUS
  <1>1. CASE Head(events).type # "modal"
    <2>1. /\ ~ gone /\ events # <<>> /\ events' = Tail(events) /\ modal' = modal
          /\ fbusy' \in BOOLEAN /\ gone' \in BOOLEAN
          /\ IF gone' THEN Send(Request("shutdown")) ELSE requests' = requests
          /\ UNCHANGED <<hostVars, lineVars, promptVars, said, inputs>>
      BY <1>1 DEF HandleEvent, Send, IInv, TypeOK
    <2>2. events' \in Seq(EventRecords) /\ SameOfType(events, events', "modal")
      BY <1>1, <2>1, QueuesAreSequences, TailIsAt, TailKeepsType DEF IInv
    <2>3. requests' \in Seq(RequestRecords) /\ SameOfType(requests, requests', "answer")
      BY <2>1, StillIsQuiet, SendIsQuiet DEF IInv
    <2> QED
      BY <2>1, <2>2, <2>3, FrontendSteps DEF IInv, TypeOK
  <1> QED
    BY <1>1, ShowPreserves

\* The prompt that is shown has had no answer, on the way or taken.
LEMMA AnswerModalPreserves == IInv /\ AnswerModal => IInv'
  <1> SUFFICES ASSUME IInv, AnswerModal PROVE IInv'
    OBVIOUS
  <1>1. PICK a \in Answers :
          /\ said' = [said EXCEPT ![modal] = a]
          /\ Send([type |-> "answer", prompt |-> modal, answer |-> a])
    BY DEF AnswerModal, AnswersTo, Answers
  <1>2. /\ modal # Nothing /\ modal' = Nothing
        /\ UNCHANGED <<hostVars, lineVars, promptVars, events, fbusy, gone, inputs>>
    BY DEF AnswerModal
  <1> DEFINE r == [type |-> "answer", prompt |-> modal, answer |-> a]
  <1>3. modal \in Prompts /\ prompt[modal] # "none" /\ said[modal] = "none" /\ a # "none"
    BY <1>2, TerminalAssumption DEF IInv, TypeOK, Tokens, ShownIsUnsaid, Answers
  <1>4. /\ said' \in [Prompts -> Answers \union {"none"}] /\ said'[modal] = a
        /\ \A q \in Prompts : q # modal => said'[q] = said[q]
    BY <1>1, <1>3 DEF IInv, TypeOK
  <1>5. /\ requests \in Seq(RequestRecords) /\ r \in RequestRecords
        /\ r.type = "answer" /\ r.prompt = modal /\ r.answer = a /\ requests' = Append(requests, r)
    BY <1>1, <1>3, QueuesAreSequences DEF RequestRecords, Send, IInv
  <1>6. /\ requests' \in Seq(RequestRecords) /\ Len(requests) \in Nat
        /\ DOMAIN requests = 1..Len(requests) /\ DOMAIN requests' = 1..Len(requests) + 1
        /\ \A i \in 1..Len(requests) : requests'[i] = requests[i]
        /\ requests'[Len(requests) + 1] = r
    BY <1>5, AppendIsAt
  <1> HIDE DEF r
  <1>7. given[modal] = "none" /\ granted[modal] = "none"
    BY <1>3 DEF IInv, Tokens, GivenIsSaid, ConsentIsOwn
  <1>8. TypeOK'
    BY <1>2, <1>4, <1>6 DEF IInv, TypeOK, hostVars, lineVars, promptVars, RequestRecords
  <1>9. LineIsCurrent' /\ DroppedIsLeaving' /\ OpenedInOrder'
    BY <1>2 DEF IInv, LineIsCurrent, Live, DroppedIsLeaving, OpenedInOrder, hostVars, lineVars, promptVars
  <1>10. UnopenedIsUnsaid' /\ ShownIsUnsaid' /\ GivenIsSaid' /\ ConsentIsOwn'
    <2>1. prompt' = prompt /\ given' = given /\ granted' = granted
      BY <1>2 DEF promptVars
    <2>2. UnopenedIsUnsaid' /\ ShownIsUnsaid'
      BY <1>2, <1>3, <1>4, <2>1 DEF IInv, Tokens, UnopenedIsUnsaid, ShownIsUnsaid
    <2>3. GivenIsSaid' /\ ConsentIsOwn'
      BY <1>4, <1>7, <2>1 DEF IInv, Tokens, GivenIsSaid, ConsentIsOwn
    <2> QED
      BY <2>2, <2>3
  <1>11. EventsInOrder'
    <2>1. prompt' = prompt /\ events' = events
      BY <1>2 DEF promptVars
    <2>2. ASSUME NEW i \in DOMAIN events, events[i].type = "modal"
          PROVE  LET q == events[i].prompt IN
                 q \in Prompts /\ modal' < q /\ prompt[q] # "none" /\ said'[q] = "none"
      <3>1. /\ events[i].prompt \in Prompts /\ modal < events[i].prompt
            /\ prompt[events[i].prompt] # "none" /\ said[events[i].prompt] = "none"
        BY <2>2 DEF IInv, Tokens, EventsInOrder
      <3>2. events[i].prompt # modal /\ Nothing < events[i].prompt
        BY <1>3, <3>1 DEF Prompts, Nothing
      <3> QED
        BY <1>2, <1>4, <3>1, <3>2
    <2> QED
      BY <2>1, <2>2 DEF IInv, Tokens, EventsInOrder
  <1>12. AnswersOnce'
    <2>1. ASSUME NEW i \in DOMAIN requests, requests[i].type = "answer"
          PROVE  /\ requests[i].prompt \in Prompts /\ requests[i].prompt # modal
                 /\ requests[i].answer = said[requests[i].prompt]
                 /\ said[requests[i].prompt] # "none" /\ given[requests[i].prompt] = "none"
      BY <1>3, <2>1 DEF IInv, Tokens, AnswersOnce
    <2>2. given' = given
      BY <1>2 DEF promptVars
    <2>3. ASSUME NEW i \in DOMAIN requests', requests'[i].type = "answer"
          PROVE  LET q == requests'[i].prompt IN
                 /\ q \in Prompts /\ requests'[i].answer = said'[q] /\ said'[q] # "none"
                 /\ given'[q] = "none"
      <3>1. CASE i \in DOMAIN requests
        <4>1. requests'[i] = requests[i]
          BY <1>6, <3>1
        <4> QED
          BY <1>4, <2>1, <2>2, <2>3, <3>1, <4>1
      <3>2. CASE i \notin DOMAIN requests
        <4>1. requests'[i] = r
          BY <1>6, <3>2
        <4> QED
          BY <1>3, <1>4, <1>5, <1>7, <2>2, <4>1
      <3> QED
        BY <3>1, <3>2
    <2>4. ASSUME NEW i \in DOMAIN requests', NEW j \in DOMAIN requests',
                 requests'[i].type = "answer", requests'[j].type = "answer", i < j
          PROVE  requests'[i].prompt # requests'[j].prompt
      <3>1. i \in DOMAIN requests /\ requests'[i] = requests[i]
        BY <1>6, <2>4
      <3>2. CASE j \in DOMAIN requests
        <4>1. requests'[j] = requests[j]
          BY <1>6, <3>2
        <4> QED
          BY <2>4, <3>1, <3>2, <4>1 DEF IInv, Tokens, AnswersOnce
      <3>3. CASE j \notin DOMAIN requests
        <4>1. requests'[j] = r
          BY <1>6, <3>3
        <4> QED
          BY <1>5, <2>1, <2>4, <3>1, <4>1
      <3> QED
        BY <3>2, <3>3
    <2> QED
      BY <2>3, <2>4 DEF AnswersOnce
  <1>13. LastPromptIsVisible'
    <2> SUFFICES ASSUME NEW q \in Prompts, prompt[q] = "open", ~ gone,
                        \A s \in Prompts : s > q => prompt[s] = "none"
                 PROVE  OnItsWay(q)'
      BY <1>2, <1>8, OnItsWayIsVisible DEF LastIsOnItsWay, promptVars
    <2>1. OnItsWay(q)
      BY VisibleIsOnItsWay DEF IInv, Tokens, LastIsOnItsWay
    <2>2. CASE modal = q
      <3>1. Len(requests) + 1 \in DOMAIN requests'
        BY <1>6
      <3> QED
        BY <1>5, <1>6, <2>2, <3>1 DEF OnItsWay
    <2>3. ASSUME NEW i \in DOMAIN requests, requests[i].type = "answer", requests[i].prompt = q
          PROVE  OnItsWay(q)'
      <3>1. i \in DOMAIN requests' /\ requests'[i] = requests[i]
        BY <1>6
      <3> QED
        BY <2>3, <3>1 DEF OnItsWay
    <2> QED
      BY <1>2, <2>1, <2>2, <2>3 DEF OnItsWay
  <1> QED
    BY <1>8, <1>9, <1>10, <1>11, <1>12, <1>13 DEF IInv, Tokens

----------------------------------------------------------------------------
LEMMA InitEstablishes == Init => IInv
  <1> SUFFICES ASSUME Init PROVE IInv
    OBVIOUS
  <1>1. TypeOK
    <2>1. /\ requests \in Seq([type : {"submit_line", "cancel", "shutdown", "answer"},
                               prompt : Prompts \union {Nothing}, answer : Answers \union {"none"}])
          /\ events \in Seq([type : {"modal", "turn", "complete", "error", "shutdown"},
                             prompt : Prompts \union {Nothing}])
      BY EmptySeq DEF Init
    <2>2. /\ line \in [Lines -> {"none", "ready", "working", "acting", "cancelled", "over"}]
          /\ prompt \in [Prompts -> {"none", "open", "answered", "dropped", "over"}]
          /\ owner \in [Prompts -> Lines \union {Nothing}]
          /\ given \in [Prompts -> Answers \union {"none"}]
          /\ granted \in [Prompts -> Answers \union {"none"}]
          /\ said \in [Prompts -> Answers \union {"none"}]
      BY DEF Init
    <2>3. inputs \in 0..MaxInputs
      BY TerminalAssumption DEF Init
    <2> QED
      BY <2>1, <2>2, <2>3 DEF Init, TypeOK
  <1>2. LineIsCurrent /\ DroppedIsLeaving /\ OpenedInOrder
    BY DEF Init, LineIsCurrent, Live, DroppedIsLeaving, OpenedInOrder, Nothing
  <1>3. DOMAIN events = {} /\ DOMAIN requests = {}
    BY DEF Init
  <1>4. Tokens
    BY <1>3 DEF Init, Tokens, UnopenedIsUnsaid, ShownIsUnsaid, EventsInOrder, AnswersOnce,
                GivenIsSaid, ConsentIsOwn, LastPromptIsVisible
  <1> QED
    BY <1>1, <1>2, <1>4 DEF IInv

LEMMA StutterPreserves == IInv /\ UNCHANGED vars => IInv'
  BY StillIsQuiet, FrontendSteps DEF IInv, TypeOK, vars, hostVars, lineVars, promptVars, frontVars

\* The strengthened invariant holds in every session.
THEOREM TerminalInvariant == Spec => []IInv
  <1>1. IInv /\ [Next]_vars => IInv'
    <2> SUFFICES ASSUME IInv, [Next]_vars PROVE IInv'
      OBVIOUS
    <2>1. CASE Host
      BY <2>1, HostPreserves
    <2>2. ASSUME NEW l \in Lines, LineStep(l) PROVE IInv'
      BY <2>2, StartLinePreserves, ReportTurnPreserves, AskPreserves, LeavingPreserves DEF LineStep
    <2>3. ASSUME NEW p \in Prompts, Resume(p) \/ Expire(p) PROVE IInv'
      BY <2>3, ResumePreserves, ExpirePreserves
    <2>4. CASE HandleEvent \/ NoticeEnd
      BY <2>4, HandleEventPreserves, NoticeEndPreserves
    <2>5. CASE User
      BY <2>5, InputPreserves, AnswerModalPreserves DEF User
    <2>6. CASE UNCHANGED vars
      BY <2>6, StutterPreserves
    <2> QED
      BY <2>1, <2>2, <2>3, <2>4, <2>5, <2>6 DEF Next
  <1> QED
    BY <1>1, InitEstablishes, PTL DEF Spec

\* The variables have their types, the queues included.
THEOREM TerminalTypes == Spec => []TypeOK
  <1>1. IInv => TypeOK
    BY DEF IInv
  <1> QED
    BY <1>1, TerminalInvariant, PTL

\* `_busy` and `_current_task` belong to the one line that lives, so no line is
\* started beside another and no clean-up takes them from a successor
\* (backend_host.py:86-152).
THEOREM LinesTakeTurns == Spec => []OneLineAtATime
  <1>1. IInv => OneLineAtATime
    <2> SUFFICES ASSUME IInv PROVE OneLineAtATime
      OBVIOUS
    <2>1. \A l \in Lines : Live(l) => current = l /\ l # Nothing
      BY DEF IInv, LineIsCurrent, Lines, Nothing
    <2>2. \A l \in Lines : Live(l) => busy
      BY <2>1 DEF IInv, LineIsCurrent
    <2>3. busy => current \in Lines /\ Live(current)
      BY DEF IInv, TypeOK, LineIsCurrent
    <2>4. \A l, m \in Lines : Live(l) /\ Live(m) => l = m
      BY <2>1
    <2> QED
      BY <2>1, <2>2, <2>3, <2>4 DEF OneLineAtATime
  <1> QED
    BY <1>1, TerminalInvariant, PTL

\* An answer reaches the call of the prompt it was given to, however many prompts
\* are open or were replaced (backend_host.py:106-113, 250-287; App.tsx:230-249).
THEOREM ConsentReachesItsCall == Spec => []ConsentIsOwn
  <1>1. IInv => ConsentIsOwn
    BY DEF IInv, Tokens
  <1> QED
    BY <1>1, TerminalInvariant, PTL

\* Every answer the host takes is the only one to its prompt and finds it open or
\* gone, unless a branch timed out in front of it (backend_host.py:86-113).
THEOREM LateAnswersAreHarmless == Spec => []AnswersAreHarmless
  <1>1. IInv => AnswersAreHarmless
    <2> SUFFICES ASSUME IInv, requests # <<>>, pc = "loop", Head(requests).type = "answer", ~ expired
                 PROVE  prompt[Head(requests).prompt] \notin {"answered", "dropped"}
      BY DEF AnswersAreHarmless
    <2>1. Head(requests) = requests[1] /\ 1 \in DOMAIN requests
      <3>1. Head(requests) = requests[1] /\ Len(requests) \in Nat \ {0} /\ DOMAIN requests = 1..Len(requests)
        BY QueuesAreSequences, TailIsAt DEF IInv
      <3> QED
        BY <3>1
    <2>2. Head(requests).prompt \in Prompts /\ given[Head(requests).prompt] = "none"
      BY <2>1 DEF IInv, Tokens, AnswersOnce
    <2> QED
      BY <2>2 DEF IInv, Tokens, GivenIsSaid, DroppedIsLeaving
  <1> QED
    BY <1>1, TerminalInvariant, PTL

\* While its call waits, the prompt that was opened last is on its way to the
\* user, in front of the user, or answered (useBackendSession.ts:138-141).
THEOREM LastPromptReachesTheUser == Spec => []LastPromptIsVisible
  <1>1. IInv => LastPromptIsVisible
    BY DEF IInv, Tokens
  <1> QED
    BY <1>1, TerminalInvariant, PTL

-----------------------------------------------------------------------------
\* The provider.

\* What is collected of a call; nothing yet of a call without an entry.
Entry(i) == IF i \in DOMAIN calls THEN calls[i] ELSE [named |-> FALSE, arguments |-> <<>>]

CallsAreTrue ==
    \A i \in Indexes :
        /\ Entry(i).named <=> \E n \in DOMAIN sent : sent[n].index = i /\ sent[n].named
        /\ Lists(Entry(i).arguments, ArgumentsSent(i))

RetriesAreLeft == state = "waiting" => attempt < MaxRetries

StreamInv ==
    /\ StreamTypeOK /\ RetriesAreLeft
    /\ Lists(text, TextSent) /\ CallsAreTrue
    /\ Shows(text) /\ MessageIsOfLastAttempt

Below(S, i) == {j \in S : j < i}

\* The members of a finite set of numbers are numbered from below: each has a
\* place of its own, and every place is taken.
LEMMA PlacesAreTaken ==
    ASSUME NEW S \in SUBSET Nat, IsFiniteSet(S)
    PROVE  /\ \A i \in S : Cardinality(Below(S, i)) \in 0..(Cardinality(S) - 1)
           /\ \A i, j \in S : i < j => Cardinality(Below(S, i)) < Cardinality(Below(S, j))
           /\ \A k \in 1..Cardinality(S) : \E i \in S : Cardinality(Below(S, i)) = k - 1
  <1> DEFINE Place == [i \in S |-> Cardinality(Below(S, i))]
             Places == 0..(Cardinality(S) - 1)
  <1>1. /\ \A i \in S : IsFiniteSet(Below(S, i)) /\ Cardinality(Below(S, i)) \in Nat
        /\ Cardinality(S) \in Nat
    <2>1. \A i \in S : Below(S, i) \in SUBSET S
      BY DEF Below
    <2>2. \A i \in S : IsFiniteSet(Below(S, i))
      BY <2>1, FS_Subset
    <2> QED
      BY <2>2, FS_CardinalityType
  <1>2. \A i \in S : Cardinality(Below(S, i)) \in Places
    <2> TAKE i \in S
    <2>1. Below(S, i) \in SUBSET S /\ Below(S, i) # S
      BY DEF Below
    <2>2. Cardinality(Below(S, i)) <= Cardinality(S) /\ Cardinality(Below(S, i)) # Cardinality(S)
      BY <2>1, FS_Subset
    <2> QED
      BY <1>1, <2>2
  <1>3. \A i, j \in S : i < j => Cardinality(Below(S, i)) < Cardinality(Below(S, j))
    <2> SUFFICES ASSUME NEW i \in S, NEW j \in S, i < j
                 PROVE  Cardinality(Below(S, i)) < Cardinality(Below(S, j))
      OBVIOUS
    <2>1. Below(S, i) \union {i} \in SUBSET Below(S, j)
      <3>1. \A k \in S : k \in Nat
        OBVIOUS
      <3>2. \A k \in S : k < i => k < j
        BY <3>1
      <3>3. Below(S, i) \subseteq Below(S, j) /\ i \in Below(S, j)
        BY <3>2 DEF Below
      <3> QED
        BY <3>3
    <2>2. i \notin Below(S, i)
      BY DEF Below
    <2>3. Cardinality(Below(S, i) \union {i}) = Cardinality(Below(S, i)) + 1
      <3> DEFINE B == Below(S, i)
      <3>1. IsFiniteSet(B)
        BY <1>1
      <3>2. i \notin B
        BY <2>2
      <3> HIDE DEF B
      <3>3. Cardinality(B \union {i}) = Cardinality(B) + 1
        BY <3>1, <3>2, FS_AddElement
      <3> QED
        BY <3>3 DEF B
    <2>4. Cardinality(Below(S, i) \union {i}) <= Cardinality(Below(S, j))
      BY <1>1, <2>1, FS_Subset
    <2> QED
      BY <1>1, <2>3, <2>4
  <1>4. Place \in Injection(S, Places)
    <2>1. Place \in [S -> Places]
      BY <1>2
    <2>2. ASSUME NEW i \in S, NEW j \in S, Place[i] = Place[j]
          PROVE  i = j
      <3>1. i < j \/ j < i \/ i = j
        OBVIOUS
      <3>2. ~(Place[i] < Place[j]) /\ ~(Place[j] < Place[i])
        BY <1>1, <2>2
      <3> QED
        BY <1>3, <3>1, <3>2
    <2> QED
      BY <2>1, <2>2 DEF Injection, IsInjective
  <1>5. IsFiniteSet(Places) /\ Cardinality(Places) = Cardinality(S)
    <2> 0 \in Int /\ Cardinality(S) - 1 \in Int
      BY <1>1
    <2> QED
      BY <1>1, FS_Interval
  <1>6. Place \in Surjection(S, Places)
    <2> HIDE DEF Place, Places
    <2> QED
      BY <1>4, <1>5, FS_Injection
  <1>7. \A k \in 1..Cardinality(S) : \E i \in S : Cardinality(Below(S, i)) = k - 1
    <2> TAKE k \in 1..Cardinality(S)
    <2>1. k - 1 \in Places
      BY <1>1
    <2>2. PICK i \in S : Place[i] = k - 1
      BY <1>6, <2>1 DEF Surjection
    <2> QED
      BY <2>2
  <1> QED
    BY <1>2, <1>3, <1>7

----------------------------------------------------------------------------
(* One chunk more *)

LEMMA OneMoreIsListed ==
    ASSUME NEW s \in Seq(Nat), NEW n \in Nat, NEW S, Lists(s, S), \A m \in S : m < n
    PROVE  Lists(Append(s, n), S \union {n})
  <1> DEFINE t == Append(s, n)
  <1>1. /\ DOMAIN s = 1..Len(s) /\ DOMAIN t = 1..(Len(s) + 1) /\ Len(s) \in Nat
        /\ \A k \in DOMAIN s : t[k] = s[k] /\ s[k] \in S
        /\ t[Len(s) + 1] = n
    BY DEF Lists
  <1> HIDE DEF t
  <1>2. \A k \in DOMAIN t : k \in DOMAIN s \/ k = Len(s) + 1
    BY <1>1
  <1>3. {t[k] : k \in DOMAIN t} = S \union {n}
    <2>1. ASSUME NEW x \in S  PROVE  \E k \in DOMAIN t : t[k] = x
      <3>1. PICK k \in DOMAIN s : s[k] = x
        BY DEF Lists
      <3> QED
        BY <1>1, <3>1
    <2>2. \E k \in DOMAIN t : t[k] = n
      BY <1>1
    <2>3. \A k \in DOMAIN t : t[k] \in S \union {n}
      BY <1>1, <1>2
    <2> QED
      BY <2>1, <2>2, <2>3
  <1>4. \A k, l \in DOMAIN t : k < l => t[k] < t[l]
    <2> SUFFICES ASSUME NEW k \in DOMAIN t, NEW l \in DOMAIN t, k < l
                 PROVE  t[k] < t[l]
      OBVIOUS
    <2>1. k \in DOMAIN s
      BY <1>1
    <2>2. CASE l \in DOMAIN s
      BY <1>1, <2>1, <2>2 DEF Lists
    <2>3. CASE l = Len(s) + 1
      BY <1>1, <2>1, <2>3
    <2> QED
      BY <1>2, <2>2, <2>3
  <1> QED
    BY <1>3, <1>4 DEF Lists, t

LEMMA NothingIsListed == Lists(<<>>, {})
  BY DEF Lists

\* What a chunk adds to what has been sent.
LEMMA OneMoreIsSent ==
    ASSUME StreamTypeOK, NEW chunk \in Chunks, sent' = Append(sent, chunk)
    PROVE  LET n == Len(sent) + 1 IN
           /\ n \in Nat /\ (Len(sent) < MaxChunks => n \in 1..MaxChunks)
           /\ TextSent' = IF chunk.index = Text THEN TextSent \union {n} ELSE TextSent
           /\ \A i : ArgumentsSent(i)' =
                IF chunk.index = i /\ chunk.argument THEN ArgumentsSent(i) \union {n}
                ELSE ArgumentsSent(i)
           /\ \A i : (\E m \in DOMAIN sent : sent[m].index = i /\ sent[m].named)'
                <=> \/ chunk.index = i /\ chunk.named
                    \/ \E m \in DOMAIN sent : sent[m].index = i /\ sent[m].named
           /\ \A m \in DOMAIN sent : m \in Nat /\ m < n
  <1> DEFINE n == Len(sent) + 1
  <1>1. /\ sent \in Seq(Chunks) /\ Len(sent) \in Nat /\ DOMAIN sent = 1..Len(sent)
        /\ MaxChunks \in Nat
    BY StreamAssumption DEF StreamTypeOK
  <1>2. /\ DOMAIN sent' = DOMAIN sent \union {n} /\ n \notin DOMAIN sent
        /\ \A m \in DOMAIN sent : sent'[m] = sent[m]
        /\ sent'[n] = chunk
    BY <1>1
  <1>3. n \in Nat /\ (Len(sent) < MaxChunks => n \in 1..MaxChunks)
        /\ \A m \in DOMAIN sent : m \in Nat /\ m < n
    BY <1>1
  <1> HIDE DEF n
  <1>4. TextSent' = IF chunk.index = Text THEN TextSent \union {n} ELSE TextSent
    BY <1>2 DEF TextSent, Text
  <1>5. \A i : ArgumentsSent(i)' =
                  IF chunk.index = i /\ chunk.argument THEN ArgumentsSent(i) \union {n}
                  ELSE ArgumentsSent(i)
    BY <1>2 DEF ArgumentsSent
  <1>6. \A i : (\E m \in DOMAIN sent : sent[m].index = i /\ sent[m].named)'
                  <=> \/ chunk.index = i /\ chunk.named
                      \/ \E m \in DOMAIN sent : sent[m].index = i /\ sent[m].named
    BY <1>2
  <1> QED
    BY <1>3, <1>4, <1>5, <1>6 DEF n

LEMMA PlacesAreNumbers ==
    ASSUME NEW s \in Seq(1..MaxChunks)
    PROVE  s \in Seq(Nat)
  <1>1. s \in [1..Len(s) -> 1..MaxChunks] /\ Len(s) \in Nat
    BY LenProperties
  <1>2. s \in [1..Len(s) -> Nat]
    BY <1>1
  <1> QED
    BY <1>1, <1>2

LEMMA EntryIsTyped ==
    ASSUME StreamTypeOK, NEW i
    PROVE  Entry(i) \in [named : BOOLEAN, arguments : Seq(1..MaxChunks)]
  BY DEF Entry, StreamTypeOK

\* What Collect changes is the entry of the chunk.
LEMMA CollectedIsTrue ==
    ASSUME StreamInv, NEW chunk \in Chunks, chunk.index # Text, Len(sent) < MaxChunks,
           sent' = Append(sent, chunk), calls' = Collect(chunk, Len(sent) + 1)
    PROVE  /\ DOMAIN calls' \subseteq Indexes
           /\ calls' \in [DOMAIN calls' -> [named : BOOLEAN, arguments : Seq(1..MaxChunks)]]
           /\ CallsAreTrue'
  <1> DEFINE n == Len(sent) + 1
             c == chunk.index
             new == [named |-> Entry(c).named \/ chunk.named,
                     arguments |-> IF chunk.argument THEN Append(Entry(c).arguments, n)
                                   ELSE Entry(c).arguments]
  <1>1. c \in Indexes /\ chunk.named \in BOOLEAN /\ chunk.argument \in BOOLEAN
    BY DEF Chunks
  <1>2. /\ n \in 1..MaxChunks
        /\ \A m \in DOMAIN sent : m \in Nat /\ m < n
    BY OneMoreIsSent DEF StreamInv
  <1>3. calls' = [i \in DOMAIN calls \union {c} |-> IF i = c THEN new ELSE calls[i]]
    BY DEF Collect, Entry
  <1>4. Entry(c) \in [named : BOOLEAN, arguments : Seq(1..MaxChunks)]
    BY EntryIsTyped DEF StreamInv
  <1>5. new \in [named : BOOLEAN, arguments : Seq(1..MaxChunks)]
    <2>1. Entry(c).arguments \in Seq(1..MaxChunks) /\ Entry(c).named \in BOOLEAN
      BY <1>4
    <2>2. Append(Entry(c).arguments, n) \in Seq(1..MaxChunks)
      BY <1>2, <2>1
    <2> QED
      BY <1>1, <2>1, <2>2
  <1>6. /\ Entry(c)' = new
        /\ \A i : i # c => Entry(i)' = Entry(i)
    <2> HIDE DEF new
    <2> QED
      BY <1>3 DEF Entry
  <1>7. DOMAIN calls' \subseteq Indexes
        /\ calls' \in [DOMAIN calls' -> [named : BOOLEAN, arguments : Seq(1..MaxChunks)]]
    <2>1. /\ DOMAIN calls \subseteq Indexes
          /\ \A i \in DOMAIN calls : calls[i] \in [named : BOOLEAN, arguments : Seq(1..MaxChunks)]
      BY DEF StreamInv, StreamTypeOK
    <2> HIDE DEF new, c
    <2> QED
      BY <1>1, <1>3, <1>5, <2>1
  <1>8. ASSUME NEW i \in Indexes
        PROVE  /\ Entry(i)'.named <=> (\E m \in DOMAIN sent : sent[m].index = i /\ sent[m].named)'
               /\ Lists(Entry(i)'.arguments, ArgumentsSent(i)')
    <2>1. /\ Entry(i).named <=> \E m \in DOMAIN sent : sent[m].index = i /\ sent[m].named
          /\ Lists(Entry(i).arguments, ArgumentsSent(i))
      BY DEF StreamInv, CallsAreTrue
    <2>2. /\ ArgumentsSent(i)' = IF c = i /\ chunk.argument THEN ArgumentsSent(i) \union {n}
                                 ELSE ArgumentsSent(i)
          /\ (\E m \in DOMAIN sent : sent[m].index = i /\ sent[m].named)'
               <=> \/ c = i /\ chunk.named
                   \/ \E m \in DOMAIN sent : sent[m].index = i /\ sent[m].named
      BY OneMoreIsSent DEF StreamInv
    <2>3. CASE i # c
      BY <1>6, <2>1, <2>2, <2>3
    <2>4. CASE i = c
      <3>1. /\ Entry(i)'.named <=> Entry(c).named \/ chunk.named
            /\ Entry(i)'.arguments = IF chunk.argument THEN Append(Entry(c).arguments, n)
                                     ELSE Entry(c).arguments
        <4>1. Entry(i)' = new
          <5> HIDE DEF new, c
          <5> QED
            BY <1>6, <2>4
        <4>2. new.named <=> Entry(c).named \/ chunk.named
          BY <1>1, <1>4
        <4> QED
          BY <4>1, <4>2
      <3>2. CASE chunk.argument
        <4>1. Entry(c).arguments \in Seq(Nat)
          BY <1>4, PlacesAreNumbers
        <4>2. \A m \in ArgumentsSent(i) : m < n
          BY <1>2 DEF ArgumentsSent
        <4>3. Lists(Append(Entry(c).arguments, n), ArgumentsSent(i) \union {n})
          <5> n \in Nat
            BY <1>2
          <5> HIDE DEF n
          <5> QED
            BY <2>1, <2>4, <4>1, <4>2, OneMoreIsListed
        <4> QED
          BY <1>6, <2>1, <2>2, <2>4, <3>1, <3>2, <4>3
      <3>3. CASE ~chunk.argument
        BY <1>6, <2>1, <2>2, <2>4, <3>1, <3>3
      <3> QED
        BY <3>2, <3>3
    <2> QED
      BY <2>3, <2>4
  <1> QED
    BY <1>7, <1>8 DEF CallsAreTrue

LEMMA TextIsTrue ==
    ASSUME StreamInv, NEW chunk \in Chunks, chunk.index = Text, Len(sent) < MaxChunks,
           sent' = Append(sent, chunk), text' = Append(text, Len(sent) + 1), UNCHANGED calls
    PROVE  /\ text' \in Seq(1..MaxChunks) /\ Lists(text, TextSent)'
           /\ CallsAreTrue'
  <1> DEFINE n == Len(sent) + 1
  <1>1. /\ n \in 1..MaxChunks
        /\ TextSent' = TextSent \union {n}
        /\ \A m \in DOMAIN sent : m \in Nat /\ m < n
    BY OneMoreIsSent DEF StreamInv
  <1>2. text \in Seq(1..MaxChunks) /\ text \in Seq(Nat)
    BY PlacesAreNumbers DEF StreamInv, StreamTypeOK
  <1>3. Lists(Append(text, n), TextSent \union {n})
    <2>1. Lists(text, TextSent) /\ n \in Nat /\ \A m \in TextSent : m < n
      BY <1>1 DEF StreamInv, TextSent
    <2> HIDE DEF n
    <2> QED
      BY <1>2, <2>1, OneMoreIsListed
  <1>4. CallsAreTrue'
    <2>1. \A i \in Indexes : i # chunk.index
      BY StreamAssumption DEF Indexes, Text
    <2>2. \A i \in Indexes :
            /\ ArgumentsSent(i)' = ArgumentsSent(i)
            /\ (\E m \in DOMAIN sent : sent[m].index = i /\ sent[m].named)'
                 <=> \E m \in DOMAIN sent : sent[m].index = i /\ sent[m].named
      BY <2>1, OneMoreIsSent DEF StreamInv
    <2>3. \A i : Entry(i)' = Entry(i)
      BY DEF Entry
    <2> QED
      BY <2>2, <2>3 DEF StreamInv, CallsAreTrue
  <1>5. text' \in Seq(1..MaxChunks)
    BY <1>1, <1>2
  <1> QED
    BY <1>1, <1>3, <1>4, <1>5 DEF Lists

----------------------------------------------------------------------------
(* The final message *)

Named == {i \in DOMAIN calls : calls[i].named}
Nth(k) == CHOOSE i \in Named : Cardinality(Below(Named, i)) = k - 1

\* The calls of a message are the named ones, in the order of their indexes.
LEMMA NamedInOrder ==
    ASSUME StreamTypeOK
    PROVE  /\ Cardinality(Named) \in Nat
           /\ NamedCalls = [k \in 1..Cardinality(Named) |-> Use(Nth(k))]
           /\ \A k \in 1..Cardinality(Named) : Nth(k) \in Named
           /\ \A i \in Named : \E k \in 1..Cardinality(Named) : Nth(k) = i
           /\ \A k, l \in 1..Cardinality(Named) : k < l => Nth(k) < Nth(l)
  <1>1. Named \in SUBSET Nat /\ IsFiniteSet(Named) /\ Named \subseteq Indexes
    <2>1. Named \in SUBSET Indexes
      BY DEF StreamTypeOK, Named
    <2>2. Indexes \in SUBSET Nat /\ IsFiniteSet(Indexes)
      <3>1. 0 \in Int /\ Calls - 1 \in Int
        BY StreamAssumption
      <3> QED
        BY <3>1, FS_Interval DEF Indexes
    <2> QED
      BY <2>1, <2>2, FS_Subset
  <1>2. Cardinality(Named) \in Nat
    BY <1>1, FS_CardinalityType
  <1>3. NamedCalls = [k \in 1..Cardinality(Named) |-> Use(Nth(k))]
    BY DEF NamedCalls, Named, Nth, Below
  <1>4. \A k \in 1..Cardinality(Named) :
          Nth(k) \in Named /\ Cardinality(Below(Named, Nth(k))) = k - 1
    <2> TAKE k \in 1..Cardinality(Named)
    <2>1. \E i \in Named : Cardinality(Below(Named, i)) = k - 1
      BY <1>1, PlacesAreTaken
    <2> QED
      BY <2>1 DEF Nth
  <1>5. \A i, j \in Named : i < j => Cardinality(Below(Named, i)) < Cardinality(Below(Named, j))
    BY <1>1, PlacesAreTaken
  <1>6. \A i \in Named : Cardinality(Below(Named, i)) \in 0..(Cardinality(Named) - 1)
    BY <1>1, PlacesAreTaken
  <1>7. \A i \in Named : i \in Nat
    BY <1>1
  <1>8. ASSUME NEW i \in Named
        PROVE  \E k \in 1..Cardinality(Named) : Nth(k) = i
    <2> DEFINE k == Cardinality(Below(Named, i)) + 1
    <2>1. k \in 1..Cardinality(Named) /\ k - 1 = Cardinality(Below(Named, i))
      BY <1>2, <1>6
    <2> HIDE DEF k
    <2>2. Nth(k) \in Named /\ Cardinality(Below(Named, Nth(k))) = Cardinality(Below(Named, i))
      BY <1>4, <2>1
    <2>3. ~(Nth(k) < i) /\ ~(i < Nth(k))
      BY <1>5, <1>6, <2>2
    <2>4. Nth(k) = i
      BY <1>7, <2>2, <2>3
    <2> QED
      BY <2>1, <2>4
  <1>9. ASSUME NEW k \in 1..Cardinality(Named), NEW l \in 1..Cardinality(Named), k < l
        PROVE  Nth(k) < Nth(l)
    <2>1. Nth(k) \in Nat /\ Nth(l) \in Nat /\ Nth(k) \in Named /\ Nth(l) \in Named
      BY <1>4, <1>7
    <2>2. k \in Int /\ l \in Int /\ k - 1 < l - 1 /\ k - 1 # l - 1
      BY <1>2, <1>9
    <2>3. /\ Cardinality(Below(Named, Nth(k))) = k - 1
          /\ Cardinality(Below(Named, Nth(l))) = l - 1
      BY <1>4
    <2>4. Nth(k) # Nth(l)
      BY <2>2, <2>3
    <2>5. ~(Nth(l) < Nth(k))
      <3>1. ~(l - 1 < k - 1)
        BY <2>2
      <3> QED
        BY <1>5, <2>1, <2>3, <3>1
    <2> QED
      BY <2>1, <2>4, <2>5
  <1> QED
    BY <1>2, <1>3, <1>4, <1>8, <1>9

\* What a reader has ends with the text of the attempt, also after one more
\* chunk of it, and after the start of the next attempt.
LEMMA ShownGrows ==
    ASSUME StreamTypeOK, Shows(text), NEW n \in 1..MaxChunks,
           text' = Append(text, n), buffer' = Append(buffer, <<attempt, n>>), UNCHANGED attempt
    PROVE  Shows(text)'
  <1> DEFINE before == Len(buffer) - Len(text)
             P == (0..MaxRetries) \X (1..MaxChunks)
             shown == <<attempt, n>>
  <1>1. /\ buffer \in Seq(P) /\ text \in Seq(1..MaxChunks) /\ attempt \in 0..MaxRetries
        /\ shown \in P /\ shown[1] = attempt /\ shown[2] = n
    BY DEF StreamTypeOK
  <1>2. /\ before \in Nat
        /\ \A k \in 1..Len(text) : buffer[before + k] = <<attempt, text[k]>>
        /\ \A k \in 1..before : buffer[k][1] < attempt
    <2>1. DOMAIN text = 1..Len(text)
      BY <1>1
    <2> QED
      BY <2>1 DEF Shows
  <1> HIDE DEF P, shown
  <1>3. /\ Len(buffer') = Len(buffer) + 1 /\ Len(text') = Len(text) + 1
        /\ \A k \in 1..Len(buffer) : buffer'[k] = buffer[k]
        /\ \A k \in 1..Len(text) : text'[k] = text[k]
        /\ buffer'[Len(buffer) + 1] = shown /\ text'[Len(text) + 1] = n
        /\ Len(buffer) \in Nat /\ Len(text) \in Nat
        /\ DOMAIN text' = 1..(Len(text) + 1)
    BY <1>1 DEF shown
  <1>4. Len(buffer') - Len(text') = before
    BY <1>3
  <1>5. ASSUME NEW k \in DOMAIN text' PROVE buffer'[before + k] = <<attempt, text'[k]>>
    <2>1. CASE k = Len(text) + 1
      BY <1>3, <2>1 DEF shown
    <2>2. CASE k \in 1..Len(text)
      <3>1. before + k \in 1..Len(buffer)
        BY <1>2, <1>3, <2>2
      <3> QED
        BY <1>2, <1>3, <2>2, <3>1
    <2>3. k = Len(text) + 1 \/ k \in 1..Len(text)
      BY <1>3
    <2> QED
      BY <2>1, <2>2, <2>3
  <1>6. ASSUME NEW k \in 1..before PROVE buffer'[k][1] < attempt
    <2>1. k \in 1..Len(buffer)
      BY <1>2, <1>3
    <2> QED
      BY <1>2, <1>3, <2>1
  <1> HIDE DEF before
  <1> QED
    BY <1>2, <1>4, <1>5, <1>6 DEF Shows

LEMMA ShownIsEarlier ==
    ASSUME StreamTypeOK, Shows(text), text' = <<>>, attempt' = attempt + 1, UNCHANGED buffer
    PROVE  Shows(text)'
  <1> DEFINE before == Len(buffer) - Len(text)
             P == (0..MaxRetries) \X (1..MaxChunks)
  <1>1. /\ buffer \in Seq(P) /\ text \in Seq(1..MaxChunks) /\ attempt \in Nat
        /\ Len(buffer) \in Nat /\ Len(text) \in Nat
    BY StreamAssumption DEF StreamTypeOK
  <1>2. /\ before \in Nat
        /\ \A k \in 1..Len(text) : buffer[before + k] = <<attempt, text[k]>>
        /\ \A k \in 1..before : buffer[k][1] < attempt
    <2>1. DOMAIN text = 1..Len(text)
      BY <1>1
    <2> QED
      BY <2>1 DEF Shows
  <1>3. ASSUME NEW k \in 1..Len(buffer) PROVE buffer[k][1] < attempt + 1
    <2>1. CASE k \in 1..before
      <3>1. buffer[k] \in P
        BY <1>1
      <3>2. buffer[k][1] \in Int
        BY <3>1
      <3> QED
        BY <1>1, <1>2, <2>1, <3>2
    <2>2. CASE k \notin 1..before
      <3> DEFINE l == k - before
      <3>1. l \in 1..Len(text) /\ before + l = k
        BY <1>1, <1>2, <2>2
      <3>2. buffer[k] = <<attempt, text[l]>>
        BY <1>2, <3>1
      <3> QED
        BY <1>1, <3>2
    <2> QED
      BY <2>1, <2>2
  <1> QED
    BY <1>1, <1>3 DEF Shows

LEMMA MessageIsTrue ==
    ASSUME StreamInv, Complete
    PROVE  /\ message' \in [text : Seq(1..MaxChunks),
                            calls : Seq([index : Indexes, input : Seq(1..MaxChunks)])]
           /\ buffer' \in Seq((0..MaxRetries) \X (1..MaxChunks))
           /\ Shows(text)' /\ MessageIsOfLastAttempt'
  <1> DEFINE count == Cardinality(Named)
             uses == message'.calls
  <1>0. StreamTypeOK /\ Lists(text, TextSent) /\ CallsAreTrue /\ Shows(text)
    BY DEF StreamInv
  <1>1. /\ message' = [text |-> text, calls |-> NamedCalls]
        /\ \/ /\ reader = "terminal"
              /\ buffer' = [k \in 1..Len(text) |-> <<attempt, text[k]>>]
           \/ reader # "terminal" /\ UNCHANGED buffer
        /\ UNCHANGED <<reader, attempt, sent, text, calls>>
    BY DEF Complete, Replaced, Kept
  <1>2. /\ count \in Nat
        /\ uses = [k \in 1..count |-> Use(Nth(k))]
        /\ \A k \in 1..count : Nth(k) \in Named
        /\ \A i \in Named : \E k \in 1..count : Nth(k) = i
        /\ \A k, l \in 1..count : k < l => Nth(k) < Nth(l)
    BY <1>0, <1>1, NamedInOrder
  <1>3. \A i \in Named :
          /\ i \in Indexes /\ Entry(i) = calls[i] /\ Entry(i).named
          /\ Use(i).index = i
          /\ Use(i).input = <<>> \/ Use(i).input = Entry(i).arguments
          /\ Use(i) \in [index : Indexes, input : Seq(1..MaxChunks)]
    <2> TAKE i \in Named
    <2>1. i \in Indexes /\ Entry(i) = calls[i] /\ calls[i].named
      BY <1>0 DEF Named, Entry, StreamTypeOK
    <2>2. Entry(i).arguments \in Seq(1..MaxChunks)
      BY <1>0, EntryIsTyped
    <2>3. /\ Use(i).index = i
          /\ Use(i).input = <<>> \/ Use(i).input = calls[i].arguments
          /\ Use(i) = [index |-> Use(i).index, input |-> Use(i).input]
      BY DEF Use
    <2>4. Use(i).input \in Seq(1..MaxChunks)
      <3>1. <<>> \in Seq(1..MaxChunks)
        OBVIOUS
      <3> QED
        BY <2>1, <2>2, <2>3, <3>1
    <2> QED
      BY <2>1, <2>3, <2>4
  <1> HIDE DEF count, uses
  <1>4. /\ DOMAIN uses = 1..count
        /\ \A k \in DOMAIN uses : uses[k] = Use(Nth(k)) /\ uses[k].index = Nth(k)
    BY <1>2, <1>3
  <1>5. ASSUME NEW i \in Indexes
        PROVE  (\E k \in DOMAIN uses : uses[k].index = i)
                 <=> \E n \in DOMAIN sent : sent[n].index = i /\ sent[n].named
    <2>1. Entry(i).named <=> \E n \in DOMAIN sent : sent[n].index = i /\ sent[n].named
      BY <1>0 DEF CallsAreTrue
    <2>2. Entry(i).named <=> i \in Named
      BY DEF Entry, Named
    <2>3. (\E k \in DOMAIN uses : uses[k].index = i) <=> i \in Named
      BY <1>2, <1>4
    <2> QED
      BY <2>1, <2>2, <2>3
  <1>6. ASSUME NEW k \in DOMAIN uses
        PROVE  uses[k].input = <<>> \/ Lists(uses[k].input, ArgumentsSent(uses[k].index))
    <2>1. Nth(k) \in Named /\ uses[k] = Use(Nth(k)) /\ uses[k].index = Nth(k)
      BY <1>2, <1>4
    <2>2. Lists(Entry(Nth(k)).arguments, ArgumentsSent(Nth(k)))
      BY <1>0, <1>3, <2>1 DEF CallsAreTrue
    <2> QED
      BY <1>3, <2>1, <2>2
  <1>7. \A k, l \in DOMAIN uses : k < l => uses[k].index < uses[l].index
    BY <1>2, <1>4
  <1>8. message'.text = text /\ Lists(text, TextSent) /\ text \in Seq(1..MaxChunks)
    BY <1>0, <1>1 DEF StreamTypeOK
  <1>12. Shows(text)' /\ (reader' = "terminal" => Len(buffer') = Len(text'))
    <2>1. CASE UNCHANGED buffer /\ reader # "terminal"
      BY <1>0, <1>1, <2>1 DEF Shows
    <2>2. CASE buffer' = [k \in 1..Len(text) |-> <<attempt, text[k]>>]
      <3>1. Len(text) \in Nat /\ Len(buffer') = Len(text) /\ DOMAIN text = 1..Len(text)
        BY <1>8, <2>2
      <3> QED
        BY <1>1, <2>2, <3>1 DEF Shows
    <2> QED
      BY <1>1, <2>1, <2>2
  <1>9. MessageIsOfLastAttempt'
    <2>1. Lists(message.text, TextSent)'
      BY <1>1, <1>8 DEF TextSent
    <2>2. \A k \in DOMAIN message'.calls :
            \/ message'.calls[k].input = <<>>
            \/ Lists(message'.calls[k].input, ArgumentsSent(message'.calls[k].index))
      BY <1>6 DEF uses
    <2>3. \A i : ArgumentsSent(i)' = ArgumentsSent(i)
      BY <1>1 DEF ArgumentsSent
    <2>4. Shows(message.text)' /\ (reader' = "terminal" => Len(buffer') = Len(message'.text))
      <3>1. message'.text = text'
        BY <1>1, <1>8
      <3> QED
        BY <1>12, <3>1 DEF Shows
    <2>5. \A i \in Indexes : (\E k \in DOMAIN message'.calls : message'.calls[k].index = i)
                 <=> \E n \in DOMAIN sent' : sent'[n].index = i /\ sent'[n].named
      BY <1>1, <1>5 DEF uses
    <2> QED
      BY <1>7, <2>1, <2>2, <2>3, <2>4, <2>5 DEF MessageIsOfLastAttempt, uses
  <1>10. message' \in [text : Seq(1..MaxChunks),
                       calls : Seq([index : Indexes, input : Seq(1..MaxChunks)])]
    <2>1. \A k \in 1..count : Use(Nth(k)) \in [index : Indexes, input : Seq(1..MaxChunks)]
      BY <1>2, <1>3
    <2>2. uses \in Seq([index : Indexes, input : Seq(1..MaxChunks)])
      BY <1>2, <2>1
    <2> QED
      BY <1>1, <1>8, <2>2 DEF uses
  <1>11. buffer' \in Seq((0..MaxRetries) \X (1..MaxChunks))
    <2>1. attempt \in 0..MaxRetries /\ Len(text) \in Nat /\ \A k \in 1..Len(text) : text[k] \in 1..MaxChunks
      BY <1>0, LenProperties DEF StreamTypeOK
    <2>2. buffer \in Seq((0..MaxRetries) \X (1..MaxChunks))
      BY <1>0 DEF StreamTypeOK
    <2> QED
      BY <1>1, <2>1, <2>2
  <1> QED
    BY <1>9, <1>10, <1>11, <1>12

----------------------------------------------------------------------------
(* The invariant *)

LEMMA StreamStarts == StreamInit => StreamInv
  <1> SUFFICES ASSUME StreamInit  PROVE StreamInv
    OBVIOUS
  <1> USE StreamAssumption DEF StreamInit
  <1>1. calls = [i \in {} |-> [named |-> FALSE, arguments |-> <<>>]] /\ DOMAIN calls = {}
    BY DEF NoCalls
  <1>2. StreamTypeOK
    <2>1. calls \in [DOMAIN calls -> [named : BOOLEAN, arguments : Seq(1..MaxChunks)]]
      BY <1>1
    <2>2. /\ sent \in Seq(Chunks) /\ Len(sent) <= MaxChunks /\ text \in Seq(1..MaxChunks)
          /\ buffer \in Seq((0..MaxRetries) \X (1..MaxChunks))
      OBVIOUS
    <2>3. message \in [text : Seq(1..MaxChunks),
                       calls : Seq([index : Indexes, input : Seq(1..MaxChunks)])]
      BY DEF NoMessage
    <2>4. /\ provider \in Providers /\ reader \in {"terminal", "print"}
          /\ attempt \in 0..MaxRetries /\ state = "connecting"
      OBVIOUS
    <2> QED
      BY <1>1, <2>1, <2>2, <2>3, <2>4 DEF StreamTypeOK
  <1>3. TextSent = {} /\ \A i : ArgumentsSent(i) = {} /\ Entry(i) = [named |-> FALSE, arguments |-> <<>>]
    BY <1>1 DEF TextSent, ArgumentsSent, Entry
  <1>4. Lists(text, TextSent)
    BY <1>3, NothingIsListed
  <1>5. CallsAreTrue
    <2>1. DOMAIN sent = {} /\ \A i : ~Entry(i).named /\ Entry(i).arguments = <<>>
      BY <1>3
    <2> QED
      BY <1>3, <2>1, NothingIsListed DEF CallsAreTrue
  <1>6. MessageIsOfLastAttempt /\ RetriesAreLeft /\ Shows(text)
    BY DEF MessageIsOfLastAttempt, RetriesAreLeft, Shows
  <1> QED
    BY <1>2, <1>4, <1>5, <1>6 DEF StreamInv

\* What is sent and collected is not touched, or starts anew.
LEMMA QuietStepsKeep ==
    ASSUME StreamInv, Break \/ Connect \/ Retry
    PROVE  StreamInv'
  <1>1. /\ state' \in {"connecting", "streaming", "waiting", "failed"}
        /\ UNCHANGED <<provider, reader, buffer, message>>
    BY DEF Break, Connect, Retry
  <1>2. MessageIsOfLastAttempt' /\ RetriesAreLeft'
    BY <1>1 DEF MessageIsOfLastAttempt, RetriesAreLeft, Break, Connect, Retry
  <1>3. CASE Break \/ Connect
    <2>1. UNCHANGED <<attempt, sent, text, calls>>
      BY <1>3 DEF Break, Connect
    <2>2. StreamTypeOK'
      BY <1>1, <2>1 DEF StreamInv, StreamTypeOK
    <2>3. Lists(text, TextSent)'
      BY <2>1 DEF StreamInv, TextSent
    <2>4. CallsAreTrue'
      BY <2>1 DEF StreamInv, CallsAreTrue, Entry, ArgumentsSent
    <2>5. Shows(text)'
      BY <1>1, <2>1 DEF StreamInv, Shows
    <2> QED
      BY <1>2, <2>2, <2>3, <2>4, <2>5 DEF StreamInv
  <1>4. CASE Retry
    <2>1. /\ attempt' = attempt + 1 /\ sent' = <<>> /\ text' = <<>>
          /\ calls' = [i \in {} |-> [named |-> FALSE, arguments |-> <<>>]] /\ DOMAIN calls' = {}
      BY <1>4 DEF Retry, NoCalls
    <2>2. attempt' \in 0..MaxRetries
      BY <1>4, <2>1, StreamAssumption DEF Retry, StreamInv, StreamTypeOK, RetriesAreLeft
    <2>3. StreamTypeOK'
      <3>1. /\ calls' \in [DOMAIN calls' -> [named : BOOLEAN, arguments : Seq(1..MaxChunks)]]
            /\ DOMAIN calls' \subseteq Indexes
        BY <2>1
      <3>2. sent' \in Seq(Chunks) /\ Len(sent') <= MaxChunks /\ text' \in Seq(1..MaxChunks)
        BY <2>1, StreamAssumption
      <3> QED
        BY <1>1, <2>2, <3>1, <3>2 DEF StreamInv, StreamTypeOK
    <2>4. /\ TextSent' = {}
          /\ \A i : ArgumentsSent(i)' = {} /\ Entry(i)' = [named |-> FALSE, arguments |-> <<>>]
      BY <2>1 DEF TextSent, ArgumentsSent, Entry
    <2>5. Lists(text, TextSent)'
      BY <2>1, <2>4, NothingIsListed
    <2>6. CallsAreTrue'
      <3>1. DOMAIN sent' = {} /\ \A i : ~Entry(i)'.named /\ Entry(i)'.arguments = <<>>
        BY <2>1, <2>4
      <3> QED
        BY <2>1, <2>4, <3>1, NothingIsListed DEF CallsAreTrue
    <2>7. Shows(text)'
      BY <1>1, <2>1, ShownIsEarlier DEF StreamInv
    <2> QED
      BY <1>2, <2>3, <2>5, <2>6, <2>7 DEF StreamInv
  <1> QED
    BY <1>3, <1>4

LEMMA ReceiveKeeps ==
    ASSUME StreamInv, Receive
    PROVE  StreamInv'
  <1>1. PICK chunk \in Chunks :
           /\ sent' = Append(sent, chunk) /\ Len(sent) < MaxChunks
           /\ IF chunk.index = Text
                THEN /\ text' = Append(text, Len(sent) + 1)
                     /\ buffer' = Append(buffer, <<attempt, Len(sent) + 1>>)
                     /\ UNCHANGED calls
                ELSE calls' = Collect(chunk, Len(sent) + 1) /\ UNCHANGED <<text, buffer>>
    BY DEF Receive
  <1>2. state = "streaming" /\ UNCHANGED <<provider, reader, attempt, state, message>>
    BY DEF Receive
  <1>3. MessageIsOfLastAttempt' /\ RetriesAreLeft'
    BY <1>2 DEF MessageIsOfLastAttempt, RetriesAreLeft
  <1>4. sent' \in Seq(Chunks) /\ Len(sent') <= MaxChunks
    BY <1>1, StreamAssumption DEF StreamInv, StreamTypeOK
  <1>5. CASE chunk.index = Text
    <2>1. text' \in Seq(1..MaxChunks) /\ Lists(text, TextSent)' /\ CallsAreTrue'
      BY <1>1, <1>5, TextIsTrue
    <2>2. buffer' \in Seq((0..MaxRetries) \X (1..MaxChunks))
      <3>1. Len(sent) + 1 \in 1..MaxChunks
        BY <1>1, OneMoreIsSent DEF StreamInv
      <3>2. <<attempt, Len(sent) + 1>> \in (0..MaxRetries) \X (1..MaxChunks)
        BY <3>1 DEF StreamInv, StreamTypeOK
      <3>3. buffer \in Seq((0..MaxRetries) \X (1..MaxChunks))
        BY DEF StreamInv, StreamTypeOK
      <3> DEFINE P == (0..MaxRetries) \X (1..MaxChunks)
                 shown == <<attempt, Len(sent) + 1>>
      <3>4. buffer \in Seq(P) /\ shown \in P /\ buffer' = Append(buffer, shown)
        BY <1>1, <1>5, <3>2, <3>3
      <3> HIDE DEF P, shown
      <3>5. buffer' \in Seq(P)
        BY <3>4
      <3> QED
        BY <3>5 DEF P
    <2>3. StreamTypeOK'
      BY <1>1, <1>2, <1>4, <1>5, <2>1, <2>2 DEF StreamInv, StreamTypeOK
    <2>4. Shows(text)'
      <3>1. Len(sent) + 1 \in 1..MaxChunks
        BY <1>1, OneMoreIsSent DEF StreamInv
      <3> QED
        BY <1>1, <1>2, <1>5, <3>1, ShownGrows DEF StreamInv
    <2> QED
      BY <1>3, <2>1, <2>3, <2>4 DEF StreamInv
  <1>6. CASE chunk.index # Text
    <2>1. /\ DOMAIN calls' \subseteq Indexes
          /\ calls' \in [DOMAIN calls' -> [named : BOOLEAN, arguments : Seq(1..MaxChunks)]]
          /\ CallsAreTrue'
      BY <1>1, <1>6, CollectedIsTrue
    <2>2. Lists(text, TextSent)'
      <3>1. TextSent' = TextSent
        BY <1>1, <1>6, OneMoreIsSent DEF StreamInv
      <3> QED
        BY <1>1, <1>6, <3>1 DEF StreamInv
    <2>3. StreamTypeOK'
      BY <1>1, <1>2, <1>4, <1>6, <2>1 DEF StreamInv, StreamTypeOK
    <2>4. Shows(text)'
      BY <1>1, <1>2, <1>6 DEF StreamInv, Shows
    <2> QED
      BY <1>3, <2>1, <2>2, <2>3, <2>4 DEF StreamInv
  <1> QED
    BY <1>5, <1>6

LEMMA CompleteKeeps ==
    ASSUME StreamInv, Complete
    PROVE  StreamInv'
  <1>1. state' = "done" /\ UNCHANGED <<provider, reader, attempt, sent, text, calls>>
    BY DEF Complete
  <1>2. StreamTypeOK'
    BY <1>1, MessageIsTrue DEF StreamInv, StreamTypeOK
  <1>3. Lists(text, TextSent)'
    BY <1>1 DEF StreamInv, TextSent
  <1>4. CallsAreTrue'
    BY <1>1 DEF StreamInv, CallsAreTrue, Entry, ArgumentsSent
  <1> QED
    BY <1>1, <1>2, <1>3, <1>4, MessageIsTrue DEF StreamInv, RetriesAreLeft

THEOREM StreamInvariant == StreamSpec => []StreamInv
  <1>1. StreamInit => StreamInv
    BY StreamStarts
  <1>2. StreamInv /\ [StreamNext]_streamVars => StreamInv'
    <2> SUFFICES ASSUME StreamInv, [StreamNext]_streamVars  PROVE StreamInv'
      OBVIOUS
    <2>1. CASE Break \/ Connect \/ Retry
      BY <2>1, QuietStepsKeep
    <2>2. CASE Receive
      BY <2>2, ReceiveKeeps
    <2>3. CASE Complete
      BY <2>3, CompleteKeeps
    <2>4. CASE UNCHANGED streamVars
      <3>1. UNCHANGED <<provider, reader, attempt, state, sent, text, calls, buffer, message>>
        BY <2>4 DEF streamVars
      <3>2. StreamTypeOK' /\ RetriesAreLeft'
        BY <3>1 DEF StreamInv, StreamTypeOK, RetriesAreLeft
      <3>3. Lists(text, TextSent)' /\ CallsAreTrue'
        BY <3>1 DEF StreamInv, CallsAreTrue, Entry, TextSent, ArgumentsSent
      <3>4. MessageIsOfLastAttempt'
        <4>1. TextSent' = TextSent /\ \A i : ArgumentsSent(i)' = ArgumentsSent(i)
          BY <3>1 DEF TextSent, ArgumentsSent
        <4>2. Shows(message.text)' <=> Shows(message.text)
          BY <3>1 DEF Shows
        <4> QED
          BY <3>1, <4>1, <4>2 DEF StreamInv, MessageIsOfLastAttempt
      <3>5. Shows(text)'
        BY <3>1 DEF StreamInv, Shows
      <3> QED
        BY <3>2, <3>3, <3>4, <3>5 DEF StreamInv
    <2> QED
      BY <2>1, <2>2, <2>3, <2>4 DEF StreamNext, Stopped
  <1> QED
    BY <1>1, <1>2, PTL DEF StreamSpec

\* The types of the variables, for any number of retries, calls and chunks
\* (openai_client.py:201-285).
THEOREM StreamTypes == StreamSpec => []StreamTypeOK
  BY StreamInvariant, PTL DEF StreamInv

\* However often an attempt broke off and however the pieces of the calls were
\* mixed, the final message is what the last attempt sent; the terminal shows it
\* and nothing else, print mode behind the texts of the attempts before it
\* (client.py:107-136; openai_client.py:201-285; useBackendSession.ts:99-105;
\* app.py:109-122).
THEOREM LastAttemptIsTheMessage == StreamSpec => []MessageIsOfLastAttempt
  BY StreamInvariant, PTL DEF StreamInv

=============================================================================
