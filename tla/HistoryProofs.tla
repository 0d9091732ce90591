---------------------------- MODULE HistoryProofs ----------------------------
(***************************************************************************)
(* Facts about histories and their compaction, for every number of         *)
(* messages a compaction keeps.                                            *)
(***************************************************************************)
EXTENDS History, SequenceTheorems, TLAPS

LEMMA MessagesAre ==
    ASSUME NEW turn \in Int,
           NEW kind \in {"prompt", "summary", "warning", "answer", "calls", "results"}
    PROVE  Message(kind, turn) \in Messages
  BY DEF Message, Messages

\* A compaction keeps the end of the history behind one summary.
LEMMA CompactedKeeps ==
    ASSUME NEW h \in Seq(Messages), Len(h) > PreserveRecent
    PROVE  /\ Compacted(h) \in Seq(Messages)
           /\ Len(Compacted(h)) = PreserveRecent + 1
           /\ Compacted(h)[1] = Message("summary", 0)
           /\ \A i \in 2..PreserveRecent + 1 :
                 Compacted(h)[i] = h[Len(h) - PreserveRecent - 1 + i]
  <1>1. /\ PreserveRecent \in Nat /\ Len(h) \in Nat
        /\ \A i \in 1..Len(h) : h[i] \in Messages
    BY HistoryAssumption, LenProperties, ElementOfSeq
  <1> DEFINE m == Len(h) - PreserveRecent + 1
  <1>2. m \in Int /\ m >= 1 /\ Len(h) - m + 1 = PreserveRecent
    BY <1>1
  <1>3. \A i \in m..Len(h) : h[i] \in Messages
    BY <1>1, <1>2
  <1>4. /\ Newer(h) \in Seq(Messages) /\ Len(Newer(h)) = PreserveRecent
        /\ \A i \in 1..PreserveRecent : Newer(h)[i] = h[m + i - 1]
    <2>1. Newer(h) = SubSeq(h, m, Len(h))
      BY DEF Newer
    <2> HIDE DEF m
    <2>2. /\ SubSeq(h, m, Len(h)) \in Seq(Messages)
          /\ Len(SubSeq(h, m, Len(h))) = IF m <= Len(h) THEN Len(h) - m + 1 ELSE 0
          /\ \A i \in 1..Len(h) - m + 1 : SubSeq(h, m, Len(h))[i] = h[m + i - 1]
      BY <1>1, <1>2, <1>3, SubSeqProperties
    <2>3. m <= Len(h) \/ PreserveRecent = 0
      BY <1>1, <1>2
    <2> QED
      BY <1>1, <1>2, <2>1, <2>2, <2>3
  <1>5. Message("summary", 0) \in Messages
    BY DEF Message, Messages
  <1> DEFINE head == <<Message("summary", 0)>>
  <1>6. head \in Seq(Messages) /\ Len(head) = 1 /\ head[1] = Message("summary", 0)
    BY <1>5
  <1>7. Compacted(h) = head \o Newer(h)
    BY DEF Compacted
  <1> HIDE DEF head
  <1>8. /\ Compacted(h) \in Seq(Messages)
        /\ Len(Compacted(h)) = 1 + PreserveRecent
        /\ \A i \in 1..1 + PreserveRecent :
              Compacted(h)[i] = IF i <= 1 THEN head[i] ELSE Newer(h)[i - 1]
    BY <1>4, <1>6, <1>7, ConcatProperties
  <1> QED
    BY <1>1, <1>4, <1>6, <1>8

\* A history whose older part is well paired can be cut there: an answer that
\* calls tools and its results are on the same side of the cut.
LEMMA CompactedStaysPaired ==
    ASSUME NEW h \in Seq(Messages), Len(h) > PreserveRecent,
           WellPaired(h), WellPaired(Older(h))
    PROVE  WellPaired(Compacted(h))
  <1>1. /\ PreserveRecent \in Nat /\ PreserveRecent >= 1 /\ Len(h) \in Nat
        /\ \A i \in 1..Len(h) : h[i] \in Messages
    BY HistoryAssumption, LenProperties, ElementOfSeq
  <1> DEFINE cut == Len(h) - PreserveRecent
             c == Compacted(h)
  <1>2. cut \in Nat /\ cut >= 1 /\ cut < Len(h) /\ Len(h) = cut + PreserveRecent
    BY <1>1
  <1>3. /\ Len(c) = PreserveRecent + 1
        /\ c[1] = Message("summary", 0)
        /\ \A i \in 2..PreserveRecent + 1 : c[i] = h[cut - 1 + i]
    BY CompactedKeeps
  <1>4. h[cut].kind # "calls"
    <2>1. Older(h) = SubSeq(h, 1, cut)
      BY DEF Older
    <2>2. \A i \in 1..cut : h[i] \in Messages
      BY <1>1, <1>2
    <2>3. Len(SubSeq(h, 1, cut)) = cut /\ \A i \in 1..cut : SubSeq(h, 1, cut)[i] = h[i]
      <3> HIDE DEF cut
      <3>1. /\ Len(SubSeq(h, 1, cut)) = IF 1 <= cut THEN cut - 1 + 1 ELSE 0
            /\ \A i \in 1..cut - 1 + 1 : SubSeq(h, 1, cut)[i] = h[1 + i - 1]
        BY <1>2, <2>2, SubSeqProperties
      <3> QED
        BY <1>2, <3>1
    <2> HIDE DEF cut
    <2> QED
      BY <1>2, <2>1, <2>3 DEF WellPaired
  <1>5. ASSUME NEW k \in Nat, k > cut, k <= Len(h)
        PROVE  /\ h[k].kind = "calls" => k < Len(h) /\ h[k + 1] = Message("results", h[k].turn)
               /\ h[k].kind = "results" => k > cut + 1 /\ h[k - 1] = Message("calls", h[k].turn)
    <2>1. /\ h[k].kind = "calls" => k < Len(h) /\ h[k + 1] = Message("results", h[k].turn)
          /\ h[k].kind = "results" => k > 1 /\ h[k - 1] = Message("calls", h[k].turn)
      BY <1>2, <1>5 DEF WellPaired
    <2>2. h[k].kind = "results" => k - 1 # cut
      BY <1>4, <2>1 DEF Message
    <2> HIDE DEF cut
    <2> QED
      BY <1>2, <1>5, <2>1, <2>2
  <1> HIDE DEF c, cut
  <1>6. ASSUME NEW i \in 1..Len(c)
        PROVE  /\ c[i].kind = "calls" => i < Len(c) /\ c[i + 1] = Message("results", c[i].turn)
               /\ c[i].kind = "results" => i > 1 /\ c[i - 1] = Message("calls", c[i].turn)
    <2>1. CASE i = 1
      BY <1>3, <2>1 DEF Message
    <2>2. CASE i > 1
      <3> DEFINE k == cut - 1 + i
      <3>1. k \in Nat /\ k > cut /\ k <= Len(h) /\ c[i] = h[k]
        <4>1. i \in 2..PreserveRecent + 1
          BY <1>1, <1>3, <1>6, <2>2
        <4>2. k \in Nat /\ k > cut /\ k <= Len(h)
          BY <1>1, <1>2, <4>1
        <4> QED
          BY <1>3, <4>1, <4>2
      <3>2. k < Len(h) => i < Len(c) /\ c[i + 1] = h[k + 1]
        <4>1. k < Len(h) => i < Len(c) /\ i + 1 \in 2..PreserveRecent + 1
          BY <1>1, <1>2, <1>3, <1>6, <2>2
        <4>2. cut - 1 + (i + 1) = k + 1
          BY <1>2, <1>6
        <4> QED
          BY <1>3, <4>1, <4>2
      <3>3. k > cut + 1 => c[i - 1] = h[k - 1]
        <4>1. k > cut + 1 => i - 1 \in 2..PreserveRecent + 1
          BY <1>1, <1>2, <1>3, <1>6, <2>2
        <4>2. cut - 1 + (i - 1) = k - 1
          BY <1>2, <1>6
        <4> QED
          BY <1>3, <4>1, <4>2
      <3> HIDE DEF k
      <3> QED
        BY <2>2, <3>1, <3>2, <3>3, <1>5
    <2> QED
      BY <1>1, <1>3, <1>6, <2>1, <2>2
  <1> QED
    BY <1>6 DEF WellPaired, c

LEMMA AppendKeeps ==
    ASSUME NEW h \in Seq(Messages), NEW m \in Messages
    PROVE  /\ Append(h, m) \in Seq(Messages) /\ Len(h) \in Nat
           /\ Len(Append(h, m)) = Len(h) + 1
           /\ \A i \in 1..Len(h) : Append(h, m)[i] = h[i]
           /\ Append(h, m)[Len(h) + 1] = m
  BY AppendProperties, LenProperties

\* A message that is neither calls nor results may follow a well paired history.
LEMMA AppendStaysPaired ==
    ASSUME NEW h \in Seq(Messages), NEW m \in Messages, WellPaired(h),
           m.kind \notin {"calls", "results"}
    PROVE  WellPaired(Append(h, m))
  <1> DEFINE g == Append(h, m)
  <1>1. /\ Len(h) \in Nat /\ Len(g) = Len(h) + 1
        /\ \A i \in 1..Len(h) : g[i] = h[i]
        /\ g[Len(h) + 1] = m
    BY AppendKeeps
  <1> HIDE DEF g
  <1>2. ASSUME NEW i \in 1..Len(g)
        PROVE  /\ g[i].kind = "calls" => i < Len(g) /\ g[i + 1] = Message("results", g[i].turn)
               /\ g[i].kind = "results" => i > 1 /\ g[i - 1] = Message("calls", g[i].turn)
    <2>1. CASE i = Len(h) + 1
      BY <1>1, <2>1
    <2>2. CASE i \in 1..Len(h)
      <3>1. /\ h[i].kind = "calls" => i < Len(h) /\ h[i + 1] = Message("results", h[i].turn)
            /\ h[i].kind = "results" => i > 1 /\ h[i - 1] = Message("calls", h[i].turn)
        BY <2>2 DEF WellPaired
      <3>2. g[i] = h[i]
            /\ (i < Len(h) => g[i + 1] = h[i + 1] /\ i < Len(g))
            /\ (i > 1 => g[i - 1] = h[i - 1])
        BY <1>1, <2>2
      <3> QED
        BY <3>1, <3>2
    <2> QED
      BY <1>1, <2>1, <2>2
  <1> QED
    BY <1>2 DEF WellPaired, g

\* An answer that calls tools and its results may follow as a pair.
LEMMA AppendPairStaysPaired ==
    ASSUME NEW h \in Seq(Messages), NEW turn \in Int, WellPaired(h)
    PROVE  WellPaired(Append(Append(h, Message("calls", turn)), Message("results", turn)))
  <1> DEFINE a == Message("calls", turn)
             b == Message("results", turn)
             f == Append(h, a)
             g == Append(f, b)
  <1>1. a \in Messages /\ b \in Messages
    BY MessagesAre
  <1>2. a.kind = "calls" /\ a.turn = turn /\ b.kind = "results" /\ b.turn = turn
    BY DEF Message
  <1> HIDE DEF a, b
  <1>3. /\ Len(h) \in Nat /\ f \in Seq(Messages) /\ Len(f) = Len(h) + 1
        /\ \A i \in 1..Len(h) : f[i] = h[i]
        /\ f[Len(h) + 1] = a
    BY <1>1, AppendKeeps
  <1> HIDE DEF f
  <1>4. /\ Len(g) = Len(f) + 1
        /\ \A i \in 1..Len(f) : g[i] = f[i]
        /\ g[Len(f) + 1] = b
    BY <1>1, <1>3, AppendKeeps
  <1> HIDE DEF g
  <1>5. ASSUME NEW i \in 1..Len(g)
        PROVE  /\ g[i].kind = "calls" => i < Len(g) /\ g[i + 1] = Message("results", g[i].turn)
               /\ g[i].kind = "results" => i > 1 /\ g[i - 1] = Message("calls", g[i].turn)
    <2>1. CASE i = Len(h) + 2
      <3>1. g[i] = b /\ g[i - 1] = a /\ i > 1
        BY <1>3, <1>4, <2>1
      <3> QED
        BY <1>2, <3>1 DEF a
    <2>2. CASE i = Len(h) + 1
      <3>1. g[i] = a /\ g[i + 1] = b /\ i < Len(g)
        BY <1>3, <1>4, <2>2
      <3> QED
        BY <1>2, <3>1 DEF b
    <2>3. CASE i \in 1..Len(h)
      <3>1. /\ h[i].kind = "calls" => i < Len(h) /\ h[i + 1] = Message("results", h[i].turn)
            /\ h[i].kind = "results" => i > 1 /\ h[i - 1] = Message("calls", h[i].turn)
        BY <2>3 DEF WellPaired
      <3>2. g[i] = h[i]
            /\ (i < Len(h) => g[i + 1] = h[i + 1] /\ i < Len(g))
            /\ (i > 1 => g[i - 1] = h[i - 1])
        BY <1>3, <1>4, <2>3
      <3> QED
        BY <3>1, <3>2
    <2> QED
      BY <1>3, <1>4, <2>1, <2>2, <2>3
  <1> QED
    BY <1>5 DEF WellPaired, g, f, a, b

\* A history that may go on with such a message was well paired before it.
LEMMA PrefixIsPaired ==
    ASSUME NEW h \in Seq(Messages), NEW m \in Messages, WellPaired(Append(h, m)),
           m.kind \notin {"calls", "results"}
    PROVE  WellPaired(h)
  <1> DEFINE g == Append(h, m)
  <1>1. /\ Len(h) \in Nat /\ Len(g) = Len(h) + 1
        /\ \A i \in 1..Len(h) : g[i] = h[i]
        /\ g[Len(h) + 1] = m
    BY AppendKeeps
  <1>2. \A i \in 1..Len(g) :
          /\ g[i].kind = "calls" => i < Len(g) /\ g[i + 1] = Message("results", g[i].turn)
          /\ g[i].kind = "results" => i > 1 /\ g[i - 1] = Message("calls", g[i].turn)
    BY DEF WellPaired
  <1> HIDE DEF g
  <1>3. ASSUME NEW i \in 1..Len(h)
        PROVE  /\ h[i].kind = "calls" => i < Len(h) /\ h[i + 1] = Message("results", h[i].turn)
               /\ h[i].kind = "results" => i > 1 /\ h[i - 1] = Message("calls", h[i].turn)
    <2>1. /\ g[i].kind = "calls" => i < Len(g) /\ g[i + 1] = Message("results", g[i].turn)
          /\ g[i].kind = "results" => i > 1 /\ g[i - 1] = Message("calls", g[i].turn)
      BY <1>1, <1>2
    <2>2. g[i] = h[i] /\ (i > 1 => g[i - 1] = h[i - 1]) /\ (i < Len(h) => g[i + 1] = h[i + 1])
      BY <1>1
    <2>3. i = Len(h) => g[i + 1] # Message("results", g[i].turn)
      BY <1>1 DEF Message
    <2> QED
      BY <1>1, <2>1, <2>2, <2>3
  <1> QED
    BY <1>3 DEF WellPaired

\* A compaction mends nothing: when its result and what it was made from are well
\* paired, so was the whole.
LEMMA WholeIsPaired ==
    ASSUME NEW h \in Seq(Messages), Len(h) > PreserveRecent,
           WellPaired(Older(h)), WellPaired(Compacted(h))
    PROVE  WellPaired(h)
  <1> DEFINE cut == Len(h) - PreserveRecent
             c == Compacted(h)
             o == Older(h)
  <1>1. /\ PreserveRecent \in Nat /\ PreserveRecent >= 1 /\ Len(h) \in Nat
        /\ \A i \in 1..Len(h) : h[i] \in Messages
    BY HistoryAssumption, LenProperties, ElementOfSeq
  <1>2. cut \in Nat /\ cut >= 1 /\ cut < Len(h) /\ Len(h) = cut + PreserveRecent
    BY <1>1
  <1>3. /\ Len(c) = PreserveRecent + 1
        /\ c[1] = Message("summary", 0)
        /\ \A i \in 2..PreserveRecent + 1 : c[i] = h[cut - 1 + i]
    BY CompactedKeeps
  <1>4. Len(o) = cut /\ \A i \in 1..cut : o[i] = h[i]
    <2>1. o = SubSeq(h, 1, cut)
      BY DEF Older
    <2>2. \A i \in 1..cut : h[i] \in Messages
      BY <1>1, <1>2
    <2> HIDE DEF cut, o
    <2>3. /\ Len(SubSeq(h, 1, cut)) = IF 1 <= cut THEN cut - 1 + 1 ELSE 0
          /\ \A i \in 1..cut - 1 + 1 : SubSeq(h, 1, cut)[i] = h[1 + i - 1]
      BY <1>2, <2>2, SubSeqProperties
    <2> QED
      BY <1>2, <2>1, <2>3
  <1>5. \A i \in 1..Len(o) :
          /\ o[i].kind = "calls" => i < Len(o) /\ o[i + 1] = Message("results", o[i].turn)
          /\ o[i].kind = "results" => i > 1 /\ o[i - 1] = Message("calls", o[i].turn)
    BY DEF WellPaired
  <1>6. \A i \in 1..Len(c) :
          /\ c[i].kind = "calls" => i < Len(c) /\ c[i + 1] = Message("results", c[i].turn)
          /\ c[i].kind = "results" => i > 1 /\ c[i - 1] = Message("calls", c[i].turn)
    BY DEF WellPaired
  <1> HIDE DEF cut, c, o
  <1>7. ASSUME NEW k \in 1..Len(h)
        PROVE  /\ h[k].kind = "calls" => k < Len(h) /\ h[k + 1] = Message("results", h[k].turn)
               /\ h[k].kind = "results" => k > 1 /\ h[k - 1] = Message("calls", h[k].turn)
    <2>1. CASE k <= cut
      <3>1. /\ o[k].kind = "calls" => k < cut /\ o[k + 1] = Message("results", o[k].turn)
            /\ o[k].kind = "results" => k > 1 /\ o[k - 1] = Message("calls", o[k].turn)
        BY <1>2, <1>4, <1>5, <2>1
      <3>2. o[k] = h[k] /\ (k < cut => o[k + 1] = h[k + 1]) /\ (k > 1 => o[k - 1] = h[k - 1])
        BY <1>2, <1>4, <2>1
      <3> QED
        BY <1>2, <2>1, <3>1, <3>2
    <2>2. CASE k > cut
      <3> DEFINE i == k - cut + 1
      <3>1. i \in 2..PreserveRecent + 1 /\ cut - 1 + i = k
        BY <1>1, <1>2, <2>2
      <3>2. c[i] = h[k]
        BY <1>3, <3>1
      <3>3. i < Len(c) => k < Len(h) /\ c[i + 1] = h[k + 1]
        <4>1. i < Len(c) => k < Len(h) /\ i + 1 \in 2..PreserveRecent + 1
          BY <1>1, <1>2, <1>3, <3>1
        <4>2. cut - 1 + (i + 1) = k + 1
          BY <1>2, <3>1
        <4> QED
          BY <1>3, <4>1, <4>2
      <3>4. i > 2 => k > 1 /\ c[i - 1] = h[k - 1]
        <4>1. i > 2 => k > 1 /\ i - 1 \in 2..PreserveRecent + 1
          BY <1>1, <1>2, <3>1
        <4>2. cut - 1 + (i - 1) = k - 1
          BY <1>2, <3>1
        <4> QED
          BY <1>3, <4>1, <4>2
      <3>5. i = 2 => c[i - 1] # Message("calls", c[i].turn)
        BY <1>3 DEF Message
      <3>6. /\ c[i].kind = "calls" => i < Len(c) /\ c[i + 1] = Message("results", c[i].turn)
            /\ c[i].kind = "results" => i > 1 /\ c[i - 1] = Message("calls", c[i].turn)
        BY <1>1, <1>3, <1>6, <3>1
      <3>7. i = 2 \/ i > 2
        BY <1>1, <3>1
      <3> HIDE DEF i
      <3> QED
        BY <3>2, <3>3, <3>4, <3>5, <3>6, <3>7
    <2> QED
      BY <1>1, <1>2, <2>1, <2>2
  <1> QED
    BY <1>7 DEF WellPaired
=============================================================================
