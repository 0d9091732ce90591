---------------------------- MODULE SessionProofs ----------------------------
(***************************************************************************)
(* For every number of lines, answers and turns and every length a         *)
(* compaction keeps: only a line that was cut off in its calls makes the   *)
(* history of a session unfit for requests, and only /clear mends it.      *)
(***************************************************************************)
EXTENDS Session, HistoryProofs

\* Outside of a line there is no list of run_query, and within one it is the
\* session's as long as they are aliased.
ListsBelong ==
    /\ Idle \/ pc = "summarising" => sent = <<>> /\ ~ aliased
    /\ aliased => kept = sent

\* The calls under way are the one unpaired message at the end of the list.
CallsComeLast ==
    pc = "calls" =>
        \E h \in Seq(Messages) :
            WellPaired(h) /\ sent = Append(h, Message("calls", turn - 1))

WithinTurns == pc = "model" => answers < MaxTurns

IInv == TypeOK /\ WithinTurns /\ ListsBelong /\ CallsComeLast /\ PairedUnlessCut

----------------------------------------------------------------------------
LEMMA EmptyIsPaired == WellPaired(<<>>)
  BY DEF WellPaired

LEMMA InitEstablishes == Init => IInv
  <1> SUFFICES ASSUME Init PROVE IInv
    OBVIOUS
  <1>1. TypeOK
    <2>1. kept \in Seq(Messages) /\ sent \in Seq(Messages)
      BY EmptySeq DEF Init
    <2>2. 0 \in 0..MaxLines /\ 0 \in 0..MaxAnswers /\ 0 \in 0..MaxTurns /\ 0 \in 0..MaxFailures
      BY SessionAssumption
    <2>3. aliased \in BOOLEAN /\ cut \in BOOLEAN
      BY DEF Init
    <2> QED
      BY <2>1, <2>2, <2>3 DEF Init, TypeOK
  <1>2. WithinTurns /\ ListsBelong /\ CallsComeLast
    BY DEF Init, WithinTurns, Idle, ListsBelong, CallsComeLast
  <1>3. PairedUnlessCut
    BY EmptyIsPaired DEF Init, PairedUnlessCut
  <1> QED
    BY <1>1, <1>2, <1>3 DEF IInv

LEMMA SubmitPreserves == IInv /\ SubmitMessage => IInv'
  <1> SUFFICES ASSUME IInv, SubmitMessage PROVE IInv'
    OBVIOUS
  <1> DEFINE m == Message("prompt", turn)
  <1>1. /\ Idle /\ lines < MaxLines /\ pc' = "turn" /\ lines' = lines + 1
        /\ answers' = 0 /\ failures' = 0 /\ kept' = Append(kept, m) /\ sent' = kept'
        /\ aliased' = TRUE /\ UNCHANGED <<turn, cut>>
    BY DEF SubmitMessage
  <1>2. m \in Messages /\ m.kind = "prompt"
    <2>1. turn \in Int
      BY DEF IInv, TypeOK
    <2> QED
      BY <2>1, MessagesAre DEF Message
  <1> HIDE DEF m
  <1>3. kept \in Seq(Messages) /\ kept' \in Seq(Messages)
    BY <1>1, <1>2, AppendKeeps DEF IInv, TypeOK
  <1>4. TypeOK'
    BY <1>1, <1>3, SessionAssumption DEF IInv, TypeOK
  <1>5. ~ cut => WellPaired(kept')
    <2>1. ~ cut => WellPaired(kept)
      BY <1>1 DEF IInv, PairedUnlessCut, Idle
    <2> QED
      BY <1>1, <1>2, <1>3, <2>1, AppendStaysPaired
  <1>6. WithinTurns' /\ ListsBelong' /\ CallsComeLast'
    BY <1>1 DEF WithinTurns, ListsBelong, CallsComeLast, Idle
  <1>7. PairedUnlessCut'
    BY <1>1, <1>5 DEF PairedUnlessCut
  <1> QED
    BY <1>4, <1>6, <1>7 DEF IInv

\* A step that leaves a line: its list is gone, and what is kept is well paired
\* unless the line was cut off.
LEMMA LeavePreserves ==
    ASSUME IInv, NEW state \in {"idle", "answered"}, Leave(state),
           kept' \in Seq(Messages), turn' \in 0..MaxAnswers, cut' \in BOOLEAN,
           ~ cut' => WellPaired(kept')
    PROVE  IInv'
  <1>1. pc' = state /\ sent' = <<>> /\ aliased' = FALSE /\ UNCHANGED <<lines, answers, failures>>
    BY DEF Leave
  <1>2. TypeOK'
    BY <1>1, EmptySeq DEF IInv, TypeOK
  <1>3. WithinTurns' /\ ListsBelong' /\ CallsComeLast'
    BY <1>1 DEF WithinTurns, ListsBelong, CallsComeLast
  <1>4. PairedUnlessCut'
    BY <1>1, EmptyIsPaired DEF PairedUnlessCut
  <1> QED
    BY <1>2, <1>3, <1>4 DEF IInv

LEMMA EndsPreserve == IInv /\ (ExhaustTurns \/ CutOff \/ EndLine) => IInv'
  <1> SUFFICES ASSUME IInv, ExhaustTurns \/ CutOff \/ EndLine PROVE IInv'
    OBVIOUS
  <1>1. Leave("idle") /\ UNCHANGED <<turn, kept>>
    BY DEF ExhaustTurns, CutOff, EndLine
  <1>2. \/ cut' = cut /\ pc # "calls"
        \/ cut' = (cut \/ aliased)
    BY DEF ExhaustTurns, CutOff, EndLine
  <1>3. kept' \in Seq(Messages) /\ turn' \in 0..MaxAnswers /\ cut' \in BOOLEAN
    BY <1>1, <1>2 DEF IInv, TypeOK
  <1>4. ~ cut' => WellPaired(kept')
    BY <1>1, <1>2 DEF IInv, PairedUnlessCut
  <1> QED
    BY <1>1, <1>3, <1>4, LeavePreserves

\* The three ways through the compaction check: the list stays, is copied or is
\* replaced.
LEMMA CompactionPreserves ==
    IInv /\ (SkipCompaction \/ CompactInLine \/ FailCompaction) => IInv'
  <1> SUFFICES ASSUME IInv, SkipCompaction \/ CompactInLine \/ FailCompaction PROVE IInv'
    OBVIOUS
  <1>1. /\ pc = "turn" /\ answers < MaxTurns /\ pc' = "model"
        /\ UNCHANGED <<lines, turn, answers, kept, cut>>
        /\ \/ UNCHANGED <<sent, aliased>>
           \/ sent' = sent /\ aliased' = FALSE
           \/ Summarisable(sent) /\ sent' = Compacted(sent) /\ aliased' = FALSE
    BY DEF SkipCompaction, CompactInLine, FailCompaction
  <1>2. failures' \in 0..MaxFailures
    BY SessionAssumption DEF IInv, TypeOK, SkipCompaction, CompactInLine, FailCompaction
  <1>3. Summarisable(sent) =>
          /\ Compacted(sent) \in Seq(Messages)
          /\ WellPaired(sent) => WellPaired(Compacted(sent))
    BY CompactedKeeps, CompactedStaysPaired DEF Summarisable, IInv, TypeOK
  <1>4. TypeOK'
    BY <1>1, <1>2, <1>3 DEF IInv, TypeOK
  <1>5. WithinTurns' /\ ListsBelong' /\ CallsComeLast'
    BY <1>1 DEF IInv, WithinTurns, ListsBelong, CallsComeLast, Idle
  <1>6. PairedUnlessCut'
    BY <1>1, <1>3 DEF IInv, PairedUnlessCut
  <1> QED
    BY <1>4, <1>5, <1>6 DEF IInv

LEMMA AnswerPreserves == IInv /\ Answer => IInv'
  <1> SUFFICES ASSUME IInv, Answer PROVE IInv'
    OBVIOUS
  <1> DEFINE m == Message("answer", turn)
  <1>1. /\ pc = "model" /\ turn < MaxAnswers /\ WellPaired(sent)
        /\ kept' = IF aliased THEN Append(kept, m) ELSE kept
        /\ turn' = turn + 1 /\ Leave("answered") /\ cut' = cut
    BY DEF Answer, Say
  <1>2. m \in Messages /\ m.kind = "answer"
    <2>1. turn \in Int
      BY DEF IInv, TypeOK
    <2> QED
      BY <2>1, MessagesAre DEF Message
  <1> HIDE DEF m
  <1>3. kept \in Seq(Messages) /\ turn' \in 0..MaxAnswers /\ cut' \in BOOLEAN
    BY <1>1, SessionAssumption DEF IInv, TypeOK
  <1>4. ~ cut => WellPaired(kept)
    BY <1>1 DEF IInv, PairedUnlessCut
  <1>5. kept' \in Seq(Messages) /\ (~ cut' => WellPaired(kept'))
    BY <1>1, <1>2, <1>3, <1>4, AppendKeeps, AppendStaysPaired
  <1> QED
    BY <1>1, <1>3, <1>5, LeavePreserves

LEMMA AnswerWithCallsPreserves == IInv /\ AnswerWithCalls => IInv'
  <1> SUFFICES ASSUME IInv, AnswerWithCalls PROVE IInv'
    OBVIOUS
  <1> DEFINE m == Message("calls", turn)
  <1>1. /\ pc = "model" /\ turn < MaxAnswers /\ WellPaired(sent)
        /\ kept' = IF aliased THEN Append(kept, m) ELSE kept
        /\ sent' = Append(sent, m)
        /\ turn' = turn + 1 /\ answers' = answers + 1 /\ pc' = "calls"
        /\ UNCHANGED <<lines, failures, aliased, cut>>
    BY DEF AnswerWithCalls, Say
  <1>2. turn \in Nat /\ turn' - 1 = turn
    BY <1>1 DEF IInv, TypeOK
  <1>3. m \in Messages
    BY <1>2, MessagesAre
  <1>4. kept' \in Seq(Messages) /\ sent' \in Seq(Messages)
    BY <1>1, <1>3, AppendKeeps DEF IInv, TypeOK
  <1>5. answers < MaxTurns
    BY <1>1 DEF IInv, WithinTurns
  <1>6. TypeOK'
    BY <1>1, <1>4, <1>5, SessionAssumption DEF IInv, TypeOK
  <1>7. ListsBelong'
    BY <1>1 DEF IInv, ListsBelong, Idle
  <1>8. CallsComeLast'
    BY <1>1, <1>2 DEF IInv, TypeOK, CallsComeLast
  <1>9. PairedUnlessCut'
    BY <1>1 DEF IInv, PairedUnlessCut
  <1> QED
    BY <1>6, <1>7, <1>8, <1>9, <1>1 DEF IInv, WithinTurns

LEMMA CollectResultsPreserves == IInv /\ CollectResults => IInv'
  <1> SUFFICES ASSUME IInv, CollectResults PROVE IInv'
    OBVIOUS
  <1> DEFINE m == Message("results", turn - 1)
  <1>1. /\ pc = "calls" /\ pc' = "turn"
        /\ kept' = IF aliased THEN Append(kept, m) ELSE kept
        /\ sent' = Append(sent, m)
        /\ UNCHANGED <<lines, turn, answers, failures, aliased, cut>>
    BY DEF CollectResults, Say
  <1>2. turn - 1 \in Int
    BY DEF IInv, TypeOK
  <1>3. m \in Messages
    BY <1>2, MessagesAre
  <1>4. kept' \in Seq(Messages) /\ sent' \in Seq(Messages)
    BY <1>1, <1>3, AppendKeeps DEF IInv, TypeOK
  <1>5. TypeOK'
    BY <1>1, <1>4 DEF IInv, TypeOK
  <1>6. WithinTurns' /\ ListsBelong' /\ CallsComeLast'
    BY <1>1 DEF IInv, WithinTurns, ListsBelong, CallsComeLast, Idle
  <1>7. WellPaired(sent')
    <2>1. PICK h \in Seq(Messages) :
            WellPaired(h) /\ sent = Append(h, Message("calls", turn - 1))
      BY <1>1 DEF IInv, CallsComeLast
    <2> QED
      BY <1>1, <1>2, <2>1, AppendPairStaysPaired
  <1>8. PairedUnlessCut'
    BY <1>1, <1>7 DEF IInv, ListsBelong, PairedUnlessCut
  <1> QED
    BY <1>5, <1>6, <1>8 DEF IInv

LEMMA CommandsPreserve == IInv /\ (Clear \/ StartCompact \/ LoadCompacted) => IInv'
  <1> SUFFICES ASSUME IInv, Clear \/ StartCompact \/ LoadCompacted PROVE IInv'
    OBVIOUS
  <1>1. CASE Clear
    <2>1. /\ Idle /\ kept' = <<>> /\ pc' = "idle" /\ cut' = FALSE
          /\ UNCHANGED <<lines, turn, answers, failures, sent, aliased>>
      BY <1>1 DEF Clear
    <2>2. sent = <<>> /\ ~ aliased
      BY <2>1 DEF IInv, ListsBelong
    <2>3. TypeOK'
      BY <2>1, EmptySeq DEF IInv, TypeOK
    <2>4. WithinTurns' /\ ListsBelong' /\ CallsComeLast' /\ PairedUnlessCut'
      BY <2>1, <2>2, EmptyIsPaired
      DEF WithinTurns, ListsBelong, CallsComeLast, PairedUnlessCut
    <2> QED
      BY <2>3, <2>4 DEF IInv
  <1>2. CASE StartCompact
    <2>1. /\ Idle /\ pc' = "summarising"
          /\ UNCHANGED <<lines, turn, answers, failures, kept, sent, aliased, cut>>
      BY <1>2 DEF StartCompact
    <2>2. TypeOK'
      BY <2>1 DEF IInv, TypeOK
    <2>3. WithinTurns' /\ ListsBelong' /\ CallsComeLast' /\ PairedUnlessCut'
      BY <2>1 DEF IInv, Idle, WithinTurns, ListsBelong, CallsComeLast, PairedUnlessCut
    <2> QED
      BY <2>2, <2>3 DEF IInv
  <1>3. CASE LoadCompacted
    <2>1. /\ pc = "summarising" /\ Summarisable(kept) /\ kept' \in {kept, Compacted(kept)}
          /\ Leave("idle") /\ UNCHANGED <<turn, cut>>
      BY <1>3 DEF LoadCompacted
    <2>2. /\ Compacted(kept) \in Seq(Messages)
          /\ WellPaired(kept) => WellPaired(Compacted(kept))
      BY <2>1, CompactedKeeps, CompactedStaysPaired DEF Summarisable, IInv, TypeOK
    <2>3. kept' \in Seq(Messages) /\ turn' \in 0..MaxAnswers /\ cut' \in BOOLEAN
      BY <2>1, <2>2 DEF IInv, TypeOK
    <2>4. ~ cut' => WellPaired(kept')
      BY <2>1, <2>2 DEF IInv, PairedUnlessCut
    <2> QED
      BY <2>1, <2>3, <2>4, LeavePreserves
  <1> QED
    BY <1>1, <1>2, <1>3

LEMMA StutterPreserves == IInv /\ UNCHANGED vars => IInv'
  BY DEF vars, IInv, TypeOK, WithinTurns, ListsBelong, CallsComeLast, PairedUnlessCut, Idle

THEOREM SessionInvariant == Spec => []IInv
  <1>1. IInv /\ [Next]_vars => IInv'
    BY SubmitPreserves, EndsPreserve, CompactionPreserves, AnswerPreserves,
       AnswerWithCallsPreserves, CollectResultsPreserves, CommandsPreserve, StutterPreserves
    DEF Next, Stopped
  <1> QED
    BY InitEstablishes, <1>1, PTL DEF Spec

----------------------------------------------------------------------------
(* Theorems *)

\* The type of the variables; a line stays within its turns.
THEOREM SessionTypes == Spec => []TypeOK
  BY SessionInvariant, PTL DEF IInv

\* Whatever is cancelled, fails or is compacted, the history of a session stays
\* fit for requests until a line is cut off in its calls (query.py:110-145).
THEOREM OnlyCutsBreak == Spec => []PairedUnlessCut
  BY SessionInvariant, PTL DEF IInv

\* No line and no /compact mends a broken history (query_engine.py:46-98).
THEOREM NothingElseMends == Spec => OnlyClearRepairs
  <1>1. IInv /\ [Next]_vars =>
            [pc # "calls" /\ ~ WellPaired(kept) => ~ WellPaired(kept') \/ kept' = <<>>]_vars
    <2> SUFFICES ASSUME IInv, Next, pc # "calls", ~ WellPaired(kept), WellPaired(kept'),
                        kept' # <<>>
                 PROVE  FALSE
      OBVIOUS
    <2>1. CASE kept' = kept
      BY <2>1
    <2>2. CASE SubmitMessage
      <3>1. turn \in Int /\ kept \in Seq(Messages)
        BY DEF IInv, TypeOK
      <3>2. Message("prompt", turn) \in Messages /\ Message("prompt", turn).kind = "prompt"
        BY <3>1, MessagesAre DEF Message
      <3>3. WellPaired(Append(kept, Message("prompt", turn)))
        BY <2>2 DEF SubmitMessage
      <3> QED
        BY <3>1, <3>2, <3>3, PrefixIsPaired
    <2>3. CASE Answer \/ AnswerWithCalls
      <3>1. aliased /\ WellPaired(sent)
        BY <2>3 DEF Answer, AnswerWithCalls, Say
      <3> QED
        BY <3>1 DEF IInv, ListsBelong
    <2>4. CASE LoadCompacted
      <3>1. kept \in Seq(Messages) /\ Summarisable(kept) /\ kept' = Compacted(kept)
        BY <2>4 DEF LoadCompacted, IInv, TypeOK
      <3> QED
        BY <3>1, WholeIsPaired DEF Summarisable
    <2> QED
      BY <2>1, <2>2, <2>3, <2>4
      DEF Next, ExhaustTurns, SkipCompaction, CompactInLine, FailCompaction, CollectResults,
          CutOff, EndLine, Clear, StartCompact, Stopped, vars
  <1> QED
    BY SessionInvariant, <1>1, PTL DEF OnlyClearRepairs, Spec
=============================================================================
