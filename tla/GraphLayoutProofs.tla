-------------------------- MODULE GraphLayoutProofs --------------------------
(***************************************************************************)
(* For every graph over every set of names: the validator accepts exactly  *)
(* the well-formed definitions, parallel nodes without branches being      *)
(* malformed, and the layout of an accepted one draws    *)
(* every edge down to another layer or as a loop that closes a cycle.      *)
(*                                                                         *)
(* The invariant of the validator has three parts.  Its search owes the    *)
(* unseen targets of the names it has seen, so that an empty stack means a *)
(* closed set; it never leaves a closed set it started in, so that what it *)
(* has seen is the least closed set; and the verdict is read off when the  *)
(* stack is empty and nothing moves afterwards.                            *)
(*                                                                         *)
(* The invariant of the layout says what the running calls of _dfs and     *)
(* those that have returned know of the edges: the edges kept lead from a  *)
(* returned call to returned ones only, and hold no cycle there, while an  *)
(* edge that closes a cycle starts below its target.                       *)
(*                                                                         *)
(* That nothing is clipped is arithmetic of sums over finite sets: the     *)
(* boxes left of a box, with it, are some of the boxes of its layer, and   *)
(* no layer is wider than the grid.                                        *)
(***************************************************************************)
EXTENDS GraphLayout, SequenceTheorems, FiniteSetTheorems, WellFoundedInduction, TLAPS

VerdictIsFinal ==
    /\ verdict # "checking" => stack = {}
    /\ verdict = "accepted" => Valid
    /\ verdict = "rejected" => ~ Valid

IInv == TypeOK /\ SearchOwesTheRest /\ SearchStaysInside /\ VerdictIsFinal

\* The nodes whose call of _dfs has returned, and the edges the sort goes by.
Returned == visited \ ToSet(path)
Kept == explored \ closing

\* What the edges E over the nodes N lead to from t: it is in every set that
\* holds t and that no edge leaves.
Closed(S, E) == \A e \in E : e[1] \in S => e[2] \in S
Below(N, E, t) == {m \in N : \A S \in SUBSET N : t \in S /\ Closed(S, E) => m \in S}

LayoutTypes ==
    /\ path \in Seq(Nodes) /\ ToSet(path) \subseteq visited /\ visited \subseteq Nodes
    /\ explored \subseteq Edges /\ closing \subseteq explored
    /\ sorted \subseteq visited

\* What each phase leaves for the next.
Phases ==
    /\ visited # {} => verdict = "accepted" /\ start \in visited
    /\ layers = <<>> => sorted = {} /\ order = <<>>
    /\ layers # <<>> => path = <<>> /\ visited # {} /\ layers \in [visited -> Nat]
    /\ order # <<>> => sorted = visited

PathIsSimple == \A i, j \in DOMAIN path : path[i] = path[j] => i = j

ReturnedIsExplored == \A m \in Returned : \A t \in targets[m] : <<m, t>> \in explored

ReturnedIsClosed == \A m \in Returned, t \in Nodes : <<m, t>> \in Kept => t \in Returned

\* A running call has kept edges to returned ones, and one to the call it waits for.
PathLeadsOn ==
    \A i \in DOMAIN path, t \in Nodes :
        <<path[i], t>> \in Kept => t \in Returned \/ (i < Len(path) /\ t = path[i + 1])

PathDescends == \A i, j \in DOMAIN path : i <= j => path[j] \in Below(Nodes, Kept, path[i])

ClosingIsBelow == \A n, t \in Nodes : <<n, t>> \in closing => n \in Below(Nodes, Kept, t)

\* No cycle of kept edges: every set of returned nodes has one no other leads to.
NoCycleIsKept ==
    \A U \in SUBSET Returned : U # {} => \E n \in U : \A m \in U : <<m, n>> \notin Kept

SortedIsClosed == \A m \in visited : \A n \in sorted : n \in Forward(m) => m \in sorted

SortedGoesDown == layers # <<>> => \A n \in sorted : \A t \in Forward(n) : layers[t] > layers[n]

LayersHaveReason ==
    layers # <<>> =>
        \A n \in visited : layers[n] > 0 => \E m \in sorted : n \in Forward(m) /\ layers[m] + 1 = layers[n]

Explored == ReturnedIsExplored /\ ReturnedIsClosed /\ PathLeadsOn /\ PathIsSimple
Acyclic == PathDescends /\ ClosingIsBelow /\ NoCycleIsKept
Layered == SortedIsClosed /\ SortedGoesDown /\ LayersHaveReason

LInv == IInv /\ LayoutTypes /\ Phases /\ Explored /\ Acyclic /\ Layered

----------------------------------------------------------------------------
(* The validator *)

\* The initial search is empty or owes the start node alone.
LEMMA InitEstablishes == Init => IInv
  BY DEF Init, IInv, TypeOK, SearchOwesTheRest, SearchStaysInside,
         VerdictIsFinal, ClosedFromStart, Nodes

\* Expanding one name keeps the three parts.
LEMMA VisitPreserves == IInv /\ Visit => IInv'
  <1> SUFFICES ASSUME IInv, NEW current \in stack,
                      reachable' = reachable \union {current},
                      Push(current),
                      UNCHANGED <<start, targets, parallel, verdict>>
               PROVE  IInv'
    BY DEF Visit
  <1> USE DEF Push, Nodes
  <1>1. TypeOK'
    BY DEF IInv, TypeOK
  <1>2. SearchOwesTheRest'
    BY DEF IInv, TypeOK, SearchOwesTheRest
  <1>3. SearchStaysInside'
    BY DEF IInv, TypeOK, SearchStaysInside, ClosedFromStart
  <1>4. VerdictIsFinal'
    BY DEF IInv, TypeOK, VerdictIsFinal, Valid, Parses
  <1> QED
    BY <1>1, <1>2, <1>3, <1>4 DEF IInv

\* Reading off the verdict moves nothing else.
LEMMA ConcludePreserves == IInv /\ Conclude => IInv'
  BY DEF IInv, Conclude, TypeOK, SearchOwesTheRest, SearchStaysInside,
         VerdictIsFinal, ClosedFromStart, Valid, Parses, Nodes

\* A step that changes nothing.
LEMMA StutterPreserves == IInv /\ UNCHANGED vars => IInv'
  BY DEF IInv, vars, TypeOK, SearchOwesTheRest, SearchStaysInside,
         VerdictIsFinal, ClosedFromStart, Valid, Parses, Nodes

\* The search keeps the invariant for every graph (types.py:166-180).
THEOREM SearchInvariant == Spec => []IInv
  <1>1. IInv /\ [Next]_vars => IInv'
    BY VisitPreserves, ConcludePreserves, StutterPreserves DEF Next, Done
  <1> QED
    BY InitEstablishes, <1>1, PTL DEF Spec

----------------------------------------------------------------------------
\* Only definitions whose every node is reachable are accepted.
LEMMA AcceptanceIsSound == IInv /\ verdict = "accepted" => WellFormed
  BY DEF IInv, TypeOK, SearchStaysInside, VerdictIsFinal, Valid, Parses, Specs, WellFormed

\* No definition whose every node is reachable is refused: what the search
\* has seen is itself the closed set that is too small.
LEMMA AcceptanceIsComplete == IInv /\ verdict = "rejected" => ~ WellFormed
  <1>1. ASSUME IInv, verdict = "rejected", start \in Nodes,
               \A n \in Nodes : targets[n] \subseteq Nodes,
               \A n \in Nodes : parallel[n] # "none" => parallel[n] = "branches"
        PROVE  ClosedFromStart(reachable) /\ reachable # Nodes
    BY <1>1 DEF IInv, TypeOK, SearchOwesTheRest, VerdictIsFinal, Valid, Parses,
                ClosedFromStart
  <1> QED
    BY <1>1 DEF IInv, TypeOK, WellFormed

\* The verdict is right for every graph over every set of names.
THEOREM ValidationDecides == Spec => []VerdictIsRight
  <1>1. IInv => VerdictIsRight
    BY AcceptanceIsSound, AcceptanceIsComplete DEF VerdictIsRight
  <1> QED
    BY SearchInvariant, <1>1, PTL

----------------------------------------------------------------------------
(* Sequences, edges and what lies below a node *)

LEMMA PushIsAt ==
    ASSUME NEW R, NEW s \in Seq(R), NEW e \in R
    PROVE  /\ Append(s, e) \in Seq(R) /\ Len(s) \in Nat /\ Len(Append(s, e)) = Len(s) + 1
           /\ DOMAIN s = 1..Len(s) /\ DOMAIN Append(s, e) = 1..Len(s) + 1
           /\ \A i \in 1..Len(s) : Append(s, e)[i] = s[i]
           /\ Append(s, e)[Len(s) + 1] = e
           /\ ToSet(Append(s, e)) = ToSet(s) \union {e}
  <1>1. /\ Append(s, e) \in Seq(R) /\ Len(Append(s, e)) = Len(s) + 1
        /\ \A i \in 1..Len(s) : Append(s, e)[i] = s[i]
        /\ Append(s, e)[Len(s) + 1] = e
    BY AppendProperties
  <1>2. /\ Len(s) \in Nat /\ DOMAIN s = 1..Len(s) /\ DOMAIN Append(s, e) = 1..Len(s) + 1
    BY <1>1, LenProperties
  <1> DEFINE t == Append(s, e)
  <1> HIDE DEF t
  <1>3. /\ DOMAIN t = 1..Len(s) + 1 /\ t[Len(s) + 1] = e /\ \A i \in 1..Len(s) : t[i] = s[i]
    BY <1>1, <1>2 DEF t
  <1>4. ToSet(t) = ToSet(s) \union {e}
    <2>1. ToSet(t) \subseteq ToSet(s) \union {e}
      BY <1>2, <1>3 DEF ToSet
    <2>2. ToSet(s) \subseteq ToSet(t)
      BY <1>2, <1>3 DEF ToSet
    <2>3. e \in ToSet(t)
      BY <1>2, <1>3 DEF ToSet
    <2> QED
      BY <2>1, <2>2, <2>3
  <1> QED
    BY <1>1, <1>2, <1>4 DEF t

LEMMA PopIsAt ==
    ASSUME NEW R, NEW s \in Seq(R), s # <<>>
    PROVE  /\ Front(s) \in Seq(R) /\ Len(s) \in Nat \ {0} /\ Len(Front(s)) = Len(s) - 1
           /\ DOMAIN s = 1..Len(s) /\ DOMAIN Front(s) = 1..Len(s) - 1
           /\ \A i \in 1..Len(s) - 1 : Front(s)[i] = s[i]
           /\ Last(s) = s[Len(s)] /\ Last(s) \in R
           /\ ToSet(s) = ToSet(Front(s)) \union {Last(s)}
  <1>1. Len(s) \in Nat \ {0} /\ DOMAIN s = 1..Len(s) /\ \A i \in 1..Len(s) : s[i] \in R
    BY EmptySeq, LenProperties, ElementOfSeq
  <1>2. /\ Front(s) \in Seq(R) /\ Len(Front(s)) = Len(s) - 1
        /\ \A i \in 1..Len(s) - 1 : Front(s)[i] = s[i]
    <2>1. /\ SubSeq(s, 1, Len(s) - 1) \in Seq(R)
          /\ Len(SubSeq(s, 1, Len(s) - 1)) = IF 1 <= Len(s) - 1 THEN (Len(s) - 1) - 1 + 1 ELSE 0
          /\ \A i \in 1..((Len(s) - 1) - 1 + 1) : SubSeq(s, 1, Len(s) - 1)[i] = s[1 + i - 1]
      <3>1. 1 \in Int /\ Len(s) - 1 \in Int /\ \A i \in 1..Len(s) - 1 : s[i] \in R
        BY <1>1
      <3> HIDE DEF Front
      <3> QED
        BY <3>1, SubSeqProperties
    <2> QED
      BY <1>1, <2>1 DEF Front
  <1>3. DOMAIN Front(s) = 1..Len(s) - 1
    BY <1>1, <1>2, LenProperties
  <1>4. Last(s) = s[Len(s)] /\ Last(s) \in R
    BY <1>1 DEF Last
  <1> DEFINE t == Front(s)
  <1> HIDE DEF t
  <1>5. DOMAIN t = 1..Len(s) - 1 /\ \A i \in 1..Len(s) - 1 : t[i] = s[i]
    BY <1>2, <1>3 DEF t
  <1>6. ToSet(s) = ToSet(t) \union {Last(s)}
    <2>1. ToSet(s) \subseteq ToSet(t) \union {Last(s)}
      BY <1>1, <1>4, <1>5 DEF ToSet
    <2>2. ToSet(t) \subseteq ToSet(s)
      BY <1>1, <1>5 DEF ToSet
    <2>3. Last(s) \in ToSet(s)
      BY <1>1, <1>4 DEF ToSet
    <2> QED
      BY <2>1, <2>2, <2>3
  <1> QED
    BY <1>1, <1>2, <1>3, <1>4, <1>6 DEF t

\* The search begins without layers, and a sort has some.
LEMMA NoLayersYet == [n \in {} |-> 0] = <<>>
  <1>1. [n \in {} |-> 0] \in [1..0 -> {}]
    OBVIOUS
  <1>2. [n \in {} |-> 0] \in Seq({})
    BY <1>1, SeqDef
  <1>3. Len([n \in {} |-> 0]) = 0
    <2>1. /\ Len([n \in {} |-> 0]) \in Nat
          /\ DOMAIN [n \in {} |-> 0] = 1..Len([n \in {} |-> 0])
      BY <1>2, LenProperties
    <2>2. 1..Len([n \in {} |-> 0]) = {}
      BY <2>1
    <2> QED
      BY <2>1, <2>2
  <1> QED
    BY <1>2, <1>3, EmptySeq

LEMMA LayersAreSome == ASSUME NEW V, V # {}, NEW f \in [V -> Nat] PROVE f # <<>>
  <1>1. DOMAIN <<>> = {}
    OBVIOUS
  <1> QED
    BY <1>1

LEMMA EdgeIsPair ==
    \A m, t : <<m, t>> \in Edges <=> m \in visited /\ t \in visited /\ t \in targets[m]
  BY DEF Edges

LEMMA BelowGrows ==
    ASSUME NEW N, NEW E, NEW F, E \subseteq F, NEW t
    PROVE  Below(N, E, t) \subseteq Below(N, F, t)
  BY DEF Below, Closed

LEMMA BelowStarts == ASSUME NEW N, NEW E, NEW t \in N PROVE t \in Below(N, E, t)
  BY DEF Below

LEMMA BelowGoesOn ==
    ASSUME NEW N, NEW E, NEW t, NEW m \in Below(N, E, t), NEW u \in N, <<m, u>> \in E
    PROVE  u \in Below(N, E, t)
  BY DEF Below, Closed

----------------------------------------------------------------------------
(* The search for edges that close a cycle *)

LEMMA LayoutBegins == LayoutInit => LInv
  <1> SUFFICES ASSUME LayoutInit PROVE LInv
    OBVIOUS
  <1>1. layers = <<>>
    BY NoLayersYet DEF LayoutInit
  <1>2. /\ path = <<>> /\ DOMAIN path = {} /\ ToSet(path) = {} /\ path \in Seq(Nodes)
        /\ visited = {} /\ explored = {} /\ closing = {} /\ sorted = {} /\ order = <<>>
    BY EmptySeq DEF LayoutInit, ToSet
  <1>3. IInv
    BY InitEstablishes DEF LayoutInit
  <1>4. LayoutTypes /\ Phases
    BY <1>1, <1>2 DEF LayoutTypes, Phases
  <1>5. Explored
    BY <1>2 DEF Explored, ReturnedIsExplored, ReturnedIsClosed, PathLeadsOn, PathIsSimple, Returned
  <1>6. Acyclic
    BY <1>2 DEF Acyclic, PathDescends, ClosingIsBelow, NoCycleIsKept, Returned
  <1>7. Layered
    BY <1>1, <1>2 DEF Layered, SortedIsClosed, SortedGoesDown, LayersHaveReason
  <1> QED
    BY <1>3, <1>4, <1>5, <1>6, <1>7 DEF LInv

\* While the validator moves the layout has not begun.
LEMMA ValidatePreserves == LInv /\ Validate => LInv'
  <1> SUFFICES ASSUME LInv, Validate PROVE LInv'
    OBVIOUS
  <1>1. IInv'
    BY VisitPreserves, ConcludePreserves DEF Validate, LInv
  <1>2. UNCHANGED layoutVars /\ UNCHANGED <<start, targets>> /\ Nodes' = Nodes
    BY DEF Validate, Visit, Conclude, Nodes
  <1>3. verdict = "accepted" => verdict' = "accepted"
    BY DEF Validate, Visit, Conclude
  <1>4. /\ Edges' = Edges /\ Returned' = Returned /\ Kept' = Kept
        /\ \A m : Forward(m)' = Forward(m)
    BY <1>2 DEF layoutVars, Edges, Returned, Kept, Forward
  <1>5. LayoutTypes' /\ Phases'
    BY <1>2, <1>3, <1>4 DEF LInv, LayoutTypes, Phases, layoutVars
  <1>6. Explored'
    BY <1>2, <1>4 DEF LInv, layoutVars, Explored, ReturnedIsExplored, ReturnedIsClosed,
          PathLeadsOn, PathIsSimple
  <1>7. Acyclic'
    BY <1>2, <1>4 DEF LInv, layoutVars, Acyclic, PathDescends, ClosingIsBelow, NoCycleIsKept
  <1>8. Layered'
    BY <1>2, <1>4 DEF LInv, layoutVars, Layered, SortedIsClosed, SortedGoesDown, LayersHaveReason
  <1> QED
    BY <1>1, <1>5, <1>6, <1>7, <1>8 DEF LInv

\* What a definition that has been accepted allows the search to rely on.
LEMMA SearchIsInside ==
    ASSUME LInv, visited # {}
    PROVE  start \in Nodes /\ \A n \in Nodes : targets[n] \subseteq Nodes
  BY AcceptanceIsSound DEF LInv, Phases, WellFormed

\* A call of _dfs begins: from the start node, or along an edge that is kept.
LEMMA EnterKeeps ==
    ASSUME LInv, layers = <<>>, UNCHANGED <<vars, closing, sorted, layers, order>>, verdict = "accepted",
           NEW name \in Nodes, name \notin visited, Enter(name),
           \/ visited = {} /\ name = start /\ explored' = explored
           \/ /\ path # <<>> /\ name \in targets[Last(path)]
              /\ explored' = explored \union {<<Last(path), name>>}
    PROVE  LInv'
  <1>1. IInv'
    BY StutterPreserves DEF LInv
  <1>2. Nodes' = Nodes /\ targets' = targets /\ start' = start /\ verdict' = verdict
    BY DEF vars, Nodes
  <1>3. path \in Seq(Nodes) /\ ToSet(path) \subseteq visited /\ visited \subseteq Nodes
    BY DEF LInv, LayoutTypes
  <1>4. /\ path' \in Seq(Nodes) /\ Len(path) \in Nat /\ Len(path') = Len(path) + 1
        /\ DOMAIN path = 1..Len(path) /\ DOMAIN path' = 1..Len(path) + 1
        /\ \A i \in 1..Len(path) : path'[i] = path[i]
        /\ path'[Len(path) + 1] = name
        /\ ToSet(path') = ToSet(path) \union {name}
    BY <1>3, PushIsAt DEF Enter
  <1>5. visited' = visited \union {name} /\ Returned' = Returned
    BY <1>4 DEF Returned, Enter
  <1>6. \A i \in 1..Len(path) : path[i] \in visited /\ path[i] # name /\ path[i] \in Nodes
    BY <1>3, <1>4 DEF ToSet
  <1>7. explored \subseteq Edges /\ closing \subseteq explored
    BY DEF LInv, LayoutTypes
  <1>8. Edges \subseteq Edges' /\ \A m, t : <<m, t>> \in explored => m \in visited /\ t \in visited
    BY <1>2, <1>5, <1>7, EdgeIsPair DEF Edges
  <1>9. /\ Kept \subseteq Kept'
        /\ \A m, t : <<m, t>> \in Kept' =>
             \/ <<m, t>> \in Kept
             \/ Len(path) # 0 /\ m = path[Len(path)] /\ t = name
        /\ Len(path) # 0 => <<path[Len(path)], name>> \in Kept'
        /\ Len(path) # 0 => path[Len(path)] \in visited
    <2>1. CASE visited = {} /\ explored' = explored
      <3>1. Kept' = Kept
        BY <2>1 DEF Kept
      <3>2. Len(path) = 0
        BY <1>4, <1>6, <2>1
      <3> QED
        BY <3>1, <3>2
    <2>2. CASE path # <<>> /\ explored' = explored \union {<<Last(path), name>>}
      <3>1. Len(path) # 0 /\ Last(path) = path[Len(path)] /\ path[Len(path)] \in visited
        BY <1>3, <1>4, <1>6, <2>2, PopIsAt
      <3>2. <<path[Len(path)], name>> \notin explored
        BY <1>8
      <3>3. Kept' = Kept \union {<<path[Len(path)], name>>}
        BY <1>7, <2>2, <3>1, <3>2 DEF Kept
      <3> QED
        BY <3>1, <3>3
    <2> QED
      BY <2>1, <2>2
  <1>10. \A m, t : <<m, t>> \in Kept => m \in visited /\ t \in visited
    BY <1>8 DEF Kept
  <1>11. LayoutTypes'
    <2>1. explored' \subseteq Edges'
      <3>1. CASE explored' = explored
        BY <1>7, <1>8, <3>1
      <3>2. CASE /\ path # <<>> /\ name \in targets[Last(path)]
               /\ explored' = explored \union {<<Last(path), name>>}
        <4>1. Last(path) \in visited
          BY <1>3, <1>4, <1>6, <3>2, PopIsAt
        <4>2. <<Last(path), name>> \in Edges'
          BY <1>2, <1>5, <3>2, <4>1 DEF Edges
        <4> QED
          BY <1>7, <1>8, <3>2, <4>2
      <3> QED
        BY <3>1, <3>2
    <2>2. closing' \subseteq explored'
      BY <1>7
    <2> QED
      BY <1>2, <1>3, <1>4, <1>5, <2>1, <2>2 DEF LInv, LayoutTypes
  <1>12. Phases'
    <2>1. start \in visited'
      <3>1. path # <<>> => Last(path) \in visited
        BY <1>3, <1>4, <1>6, PopIsAt
      <3> QED
        BY <1>5, <3>1 DEF LInv, Phases
    <2>2. sorted' = {} /\ order' = <<>> /\ layers' = <<>>
      BY DEF LInv, Phases
    <2> QED
      BY <1>2, <2>1, <2>2 DEF Phases
  <1>13. PathIsSimple'
    <2> SUFFICES ASSUME NEW i \in 1..Len(path) + 1, NEW j \in 1..Len(path) + 1, path'[i] = path'[j]
                 PROVE  i = j
      BY <1>4 DEF PathIsSimple
    <2>1. CASE i \in 1..Len(path) /\ j \in 1..Len(path)
      BY <1>4, <2>1 DEF LInv, Explored, PathIsSimple
    <2>2. CASE i = Len(path) + 1 \/ j = Len(path) + 1
      BY <1>4, <1>6, <2>2
    <2> QED
      BY <1>4, <2>1, <2>2
  <1>14. ReturnedIsExplored' /\ ReturnedIsClosed'
    <2>1. explored \subseteq explored'
      OBVIOUS
    <2>2. ReturnedIsExplored'
      BY <1>2, <1>5, <2>1 DEF LInv, Explored, ReturnedIsExplored
    <2>3. Len(path) # 0 => path[Len(path)] \notin Returned
      BY <1>4 DEF Returned, ToSet
    <2>4. ReturnedIsClosed'
      BY <1>2, <1>5, <1>9, <2>3 DEF LInv, Explored, ReturnedIsClosed
    <2> QED
      BY <2>2, <2>4
  <1>15. PathLeadsOn'
    <2> SUFFICES ASSUME NEW i \in 1..Len(path) + 1, NEW t \in Nodes, <<path'[i], t>> \in Kept'
                 PROVE  t \in Returned \/ (i < Len(path) + 1 /\ t = path'[i + 1])
      BY <1>2, <1>4, <1>5 DEF PathLeadsOn
    <2>1. i # Len(path) + 1
      BY <1>4, <1>6, <1>9, <1>10
    <2>2. i \in 1..Len(path) /\ path'[i] = path[i]
      BY <1>4, <2>1
    <2>3. CASE <<path[i], t>> \in Kept
      <3>1. t \in Returned \/ (i < Len(path) /\ t = path[i + 1])
        BY <1>4, <2>2, <2>3 DEF LInv, Explored, PathLeadsOn
      <3>2. i < Len(path) => path'[i + 1] = path[i + 1]
        BY <1>4, <2>2
      <3> QED
        BY <1>4, <2>2, <3>1, <3>2
    <2>4. CASE <<path[i], t>> \notin Kept
      <3>1. path[i] = path[Len(path)] /\ t = name /\ Len(path) \in DOMAIN path
        BY <1>4, <1>9, <2>2, <2>4
      <3>2. i = Len(path)
        BY <1>4, <2>2, <3>1 DEF LInv, Explored, PathIsSimple
      <3> QED
        BY <1>4, <3>1, <3>2
    <2> QED
      BY <2>3, <2>4
  <1>16. PathDescends'
    <2> SUFFICES ASSUME NEW i \in 1..Len(path) + 1, NEW j \in 1..Len(path) + 1, i <= j
                 PROVE  path'[j] \in Below(Nodes, Kept', path'[i])
      BY <1>2, <1>4 DEF PathDescends
    <2>1. CASE j \in 1..Len(path)
      <3>1. path[j] \in Below(Nodes, Kept, path[i]) /\ path'[i] = path[i] /\ path'[j] = path[j]
        BY <1>4, <2>1 DEF LInv, Acyclic, PathDescends
      <3> QED
        BY <1>9, <3>1, BelowGrows
    <2>2. CASE i = Len(path) + 1
      <3>1. path'[j] = name /\ path'[i] = name
        BY <1>4, <2>2
      <3> QED
        BY <3>1, BelowStarts
    <2>3. CASE j = Len(path) + 1 /\ i \in 1..Len(path)
      <3>1. Len(path) \in 1..Len(path) /\ i <= Len(path)
        BY <1>4, <2>3
      <3>2. path[Len(path)] \in Below(Nodes, Kept, path[i])
        BY <1>4, <2>3, <3>1 DEF LInv, Acyclic, PathDescends
      <3>3. path[Len(path)] \in Below(Nodes, Kept', path[i]) /\ <<path[Len(path)], name>> \in Kept'
        BY <1>9, <3>1, <3>2, BelowGrows
      <3>4. name \in Below(Nodes, Kept', path[i])
        BY <3>3, BelowGoesOn
      <3> QED
        BY <1>4, <2>3, <3>4
    <2> QED
      BY <1>4, <2>1, <2>2, <2>3
  <1>17. ClosingIsBelow'
    BY <1>2, <1>9, BelowGrows DEF LInv, Acyclic, ClosingIsBelow
  <1>18. NoCycleIsKept'
    <2>1. \A m \in Returned : \A n : <<m, n>> \in Kept' => <<m, n>> \in Kept
      BY <1>4, <1>9 DEF Returned, ToSet
    <2> QED
      BY <1>5, <2>1 DEF LInv, Acyclic, NoCycleIsKept
  <1>19. Layered'
    BY DEF LInv, Phases, Layered, SortedIsClosed, SortedGoesDown, LayersHaveReason
  <1> QED
    BY <1>1, <1>11, <1>12, <1>13, <1>14, <1>15, <1>16, <1>17, <1>18, <1>19 DEF LInv, Explored, Acyclic

LEMMA BeginPreserves == LInv /\ Begin => LInv'
  <1> SUFFICES ASSUME LInv, Begin PROVE LInv'
    OBVIOUS
  <1>1. visited = {} /\ verdict = "accepted" /\ layers = <<>>
    BY DEF Begin, LInv, Phases
  <1>2. start \in Nodes
    BY <1>1, AcceptanceIsSound DEF LInv, WellFormed
  <1> QED
    BY <1>1, <1>2, EnterKeeps DEF Begin

LEMMA SearchPreserves == LInv /\ Search => LInv'
  <1> SUFFICES ASSUME LInv, Search PROVE LInv'
    OBVIOUS
  <1> DEFINE name == Last(path)
  <1>1. PICK target \in targets[name] : <<name, target>> \notin explored /\ Explore(name, target)
    BY DEF Search
  <1>2. path # <<>> /\ UNCHANGED <<vars, sorted, layers, order>>
    BY DEF Search
  <1>3. path \in Seq(Nodes) /\ ToSet(path) \subseteq visited /\ visited \subseteq Nodes
    BY DEF LInv, LayoutTypes
  <1>4. /\ Len(path) \in Nat \ {0} /\ DOMAIN path = 1..Len(path)
        /\ name = path[Len(path)] /\ name \in ToSet(path)
    BY <1>2, <1>3, PopIsAt
  <1>5. layers = <<>> /\ verdict = "accepted" /\ target \in Nodes
    BY <1>1, <1>2, <1>3, <1>4, SearchIsInside DEF LInv, Phases
  <1>6. explored \subseteq Edges /\ closing \subseteq explored
    BY DEF LInv, LayoutTypes
  <1> HIDE DEF name
  <1>7. explored' = explored \union {<<name, target>>}
    BY <1>1 DEF Explore
  <1>8. CASE target \notin visited
    <2>1. Enter(target) /\ closing' = closing
      BY <1>1, <1>3, <1>8 DEF Explore
    <2> QED
      BY <1>1, <1>2, <1>5, <1>7, <1>8, <2>1, EnterKeeps DEF name
  <1>9. CASE target \in visited
    <2>1. /\ path' = path /\ visited' = visited
          /\ closing' = IF target \in ToSet(path) THEN closing \union {<<name, target>>} ELSE closing
      BY <1>1, <1>9 DEF Explore
    <2>2. /\ Nodes' = Nodes /\ targets' = targets /\ start' = start /\ verdict' = verdict
          /\ Edges' = Edges /\ Returned' = Returned
      BY <1>2, <2>1 DEF vars, Nodes, Edges, Returned
    <2>3. IInv'
      BY <1>2, StutterPreserves DEF LInv
    <2>4. <<name, target>> \in Edges
      BY <1>1, <1>3, <1>4, <1>9, EdgeIsPair
    <2>5. LayoutTypes'
      BY <1>2, <1>3, <1>6, <1>7, <2>1, <2>2, <2>4 DEF LInv, LayoutTypes
    <2>6. Phases'
      BY <1>2, <1>5, <2>1, <2>2 DEF LInv, Phases
    <2>7. Layered'
      BY <1>2, <1>5 DEF LInv, Phases, Layered, SortedIsClosed, SortedGoesDown, LayersHaveReason
    <2>8. PathIsSimple' /\ ReturnedIsExplored'
      BY <1>7, <2>1, <2>2 DEF LInv, Explored, PathIsSimple, ReturnedIsExplored
    <2>9. name \notin Returned
      BY <1>4 DEF Returned
    <2>10. CASE target \in ToSet(path)
      <3>1. Kept' = Kept
        BY <1>1, <1>7, <2>1, <2>10 DEF Kept
      <3>2. ReturnedIsClosed' /\ PathLeadsOn'
        BY <2>1, <2>2, <3>1 DEF LInv, Explored, ReturnedIsClosed, PathLeadsOn
      <3>3. PathDescends' /\ NoCycleIsKept'
        BY <2>1, <2>2, <3>1 DEF LInv, Acyclic, PathDescends, NoCycleIsKept
      <3>4. name \in Below(Nodes, Kept, target)
        <4>1. PICK i \in 1..Len(path) : target = path[i]
          BY <1>4, <2>10 DEF ToSet
        <4>2. i \in DOMAIN path /\ Len(path) \in DOMAIN path /\ i <= Len(path)
          BY <1>4
        <4> QED
          BY <1>4, <4>1, <4>2 DEF LInv, Acyclic, PathDescends
      <3>5. ClosingIsBelow'
        BY <2>1, <2>2, <2>10, <3>1, <3>4 DEF LInv, Acyclic, ClosingIsBelow
      <3> QED
        BY <2>3, <2>5, <2>6, <2>7, <2>8, <3>2, <3>3, <3>5 DEF LInv, Explored, Acyclic
    <2>11. CASE target \notin ToSet(path)
      <3>1. closing' = closing /\ Kept' = Kept \union {<<name, target>>}
        BY <1>1, <1>6, <1>7, <2>1, <2>11 DEF Kept
      <3>2. Kept \subseteq Kept' /\ target \in Returned
        BY <1>9, <2>11, <3>1 DEF Returned
      <3>3. ReturnedIsClosed' /\ PathLeadsOn'
        <4>1. ReturnedIsClosed'
          BY <2>2, <2>9, <3>1 DEF LInv, Explored, ReturnedIsClosed
        <4>2. PathLeadsOn'
          BY <2>1, <2>2, <3>1, <3>2 DEF LInv, Explored, PathLeadsOn
        <4> QED
          BY <4>1, <4>2
      <3>4. PathDescends' /\ ClosingIsBelow'
        BY <2>1, <2>2, <3>1, <3>2, BelowGrows DEF LInv, Acyclic, PathDescends, ClosingIsBelow
      <3>5. NoCycleIsKept'
        BY <2>2, <2>9, <3>1 DEF LInv, Acyclic, NoCycleIsKept
      <3> QED
        BY <2>3, <2>5, <2>6, <2>7, <2>8, <3>3, <3>4, <3>5 DEF LInv, Explored, Acyclic
    <2> QED
      BY <2>10, <2>11
  <1> QED
    BY <1>8, <1>9

\* A call returns: the edges kept from it lead to returned ones, none to itself.
LEMMA ReturnPreserves == LInv /\ Return => LInv'
  <1> SUFFICES ASSUME LInv, Return PROVE LInv'
    OBVIOUS
  <1> DEFINE name == Last(path)
  <1>1. /\ path # <<>> /\ path' = Front(path)
        /\ \A target \in targets[name] : <<name, target>> \in explored
        /\ layers' = IF Len(path) = 1 THEN [n \in visited |-> 0] ELSE layers
        /\ UNCHANGED <<vars, visited, explored, closing, sorted, order>>
    BY DEF Return
  <1>2. path \in Seq(Nodes) /\ ToSet(path) \subseteq visited /\ visited \subseteq Nodes
    BY DEF LInv, LayoutTypes
  <1>3. /\ path' \in Seq(Nodes) /\ Len(path) \in Nat \ {0} /\ Len(path') = Len(path) - 1
        /\ DOMAIN path = 1..Len(path) /\ DOMAIN path' = 1..Len(path) - 1
        /\ \A i \in 1..Len(path) - 1 : path'[i] = path[i]
        /\ name = path[Len(path)]
        /\ ToSet(path) = ToSet(path') \union {name}
    BY <1>1, <1>2, PopIsAt
  <1> HIDE DEF name
  <1>4. /\ Nodes' = Nodes /\ targets' = targets /\ start' = start /\ verdict' = verdict
        /\ Edges' = Edges /\ Kept' = Kept
    BY <1>1 DEF vars, Nodes, Edges, Kept
  <1>5. name \in visited /\ name \in Nodes /\ name \notin ToSet(path')
    <2>1. name \in ToSet(path)
      BY <1>3
    <2>2. ASSUME NEW i \in 1..Len(path) - 1, path[i] = name PROVE FALSE
      BY <1>3, <2>2 DEF LInv, Explored, PathIsSimple
    <2>3. name \notin ToSet(path')
      BY <1>3, <2>2 DEF ToSet
    <2> QED
      BY <1>2, <2>1, <2>3
  <1>6. Returned' = Returned \union {name} /\ name \notin Returned
    BY <1>1, <1>3, <1>5 DEF Returned
  <1>7. IInv'
    BY <1>1, StutterPreserves DEF LInv
  <1>8. LayoutTypes'
    BY <1>1, <1>2, <1>3, <1>4 DEF LInv, LayoutTypes
  <1>9. layers = <<>> /\ sorted = {} /\ order = <<>>
    BY <1>1 DEF LInv, Phases
  <1>10. Phases'
    <2>1. CASE Len(path) = 1
      <3>1. path' = <<>>
        BY <1>3, <2>1, EmptySeq
      <3>2. visited # {} /\ layers' \in [visited -> Nat] /\ layers' # <<>>
        BY <1>1, <1>5, <2>1, LayersAreSome
      <3> QED
        BY <1>1, <1>4, <1>9, <3>1, <3>2 DEF LInv, Phases
    <2>2. CASE Len(path) # 1
      BY <1>1, <1>4, <1>9, <2>2 DEF LInv, Phases
    <2> QED
      BY <2>1, <2>2
  <1>11. PathIsSimple'
    <2> SUFFICES ASSUME NEW i \in 1..Len(path) - 1, NEW j \in 1..Len(path) - 1, path'[i] = path'[j]
                 PROVE  i = j
      BY <1>3 DEF PathIsSimple
    <2>1. i \in DOMAIN path /\ j \in DOMAIN path /\ path[i] = path[j]
      BY <1>3
    <2> QED
      BY <2>1 DEF LInv, Explored, PathIsSimple
  <1>12. \A t \in Nodes : <<name, t>> \in Kept => t \in Returned
    <2>1. Len(path) \in DOMAIN path /\ ~ (Len(path) < Len(path))
      BY <1>3
    <2> QED
      BY <1>3, <2>1 DEF LInv, Explored, PathLeadsOn
  <1>13. ReturnedIsExplored' /\ ReturnedIsClosed'
    BY <1>1, <1>4, <1>6, <1>12 DEF LInv, Explored, ReturnedIsExplored, ReturnedIsClosed
  <1>14. PathLeadsOn'
    <2> SUFFICES ASSUME NEW i \in 1..Len(path) - 1, NEW t \in Nodes, <<path'[i], t>> \in Kept
                 PROVE  t \in Returned \union {name} \/ (i < Len(path) - 1 /\ t = path'[i + 1])
      BY <1>3, <1>4, <1>6 DEF PathLeadsOn
    <2>1. i \in DOMAIN path /\ path'[i] = path[i]
      BY <1>3
    <2>2. t \in Returned \/ (i < Len(path) /\ t = path[i + 1])
      BY <2>1 DEF LInv, Explored, PathLeadsOn
    <2>3. i < Len(path) - 1 => path'[i + 1] = path[i + 1]
      BY <1>3
    <2> QED
      BY <1>3, <2>2, <2>3
  <1>15. PathDescends'
    <2> SUFFICES ASSUME NEW i \in 1..Len(path) - 1, NEW j \in 1..Len(path) - 1, i <= j
                 PROVE  path'[j] \in Below(Nodes, Kept, path'[i])
      BY <1>3, <1>4 DEF PathDescends
    <2>1. i \in DOMAIN path /\ j \in DOMAIN path /\ path'[i] = path[i] /\ path'[j] = path[j]
      BY <1>3
    <2> QED
      BY <2>1 DEF LInv, Acyclic, PathDescends
  <1>16. ClosingIsBelow'
    BY <1>1, <1>4 DEF LInv, Acyclic, ClosingIsBelow
  <1>17. NoCycleIsKept'
    <2> SUFFICES ASSUME NEW U \in SUBSET (Returned \union {name}), U # {}
                 PROVE  \E n \in U : \A m \in U : <<m, n>> \notin Kept
      BY <1>4, <1>6 DEF NoCycleIsKept
    <2>1. CASE name \in U
      <3>1. ASSUME NEW m \in U, <<m, name>> \in Kept PROVE FALSE
        <4>1. CASE m = name
          BY <1>5, <1>6, <1>12, <3>1, <4>1
        <4>2. CASE m \in Returned
          BY <1>5, <1>6, <3>1, <4>2 DEF LInv, Explored, ReturnedIsClosed
        <4> QED
          BY <4>1, <4>2
      <3> QED
        BY <2>1, <3>1
    <2>2. CASE name \notin U
      <3>1. U \in SUBSET Returned
        BY <2>2
      <3> QED
        BY <3>1 DEF LInv, Acyclic, NoCycleIsKept
    <2> QED
      BY <2>1, <2>2
  <1>18. Layered'
    <2>1. SortedIsClosed' /\ SortedGoesDown'
      BY <1>1, <1>9 DEF SortedIsClosed, SortedGoesDown
    <2>2. CASE Len(path) = 1
      <3>1. \A n \in visited : layers'[n] = 0
        BY <1>1, <2>2
      <3> QED
        BY <1>1, <2>1, <3>1 DEF Layered, LayersHaveReason
    <2>3. CASE Len(path) # 1
      BY <1>1, <1>9, <2>1, <2>3 DEF Layered, LayersHaveReason
    <2> QED
      BY <2>2, <2>3
  <1> QED
    BY <1>7, <1>8, <1>10, <1>11, <1>13, <1>14, <1>15, <1>16, <1>17, <1>18 DEF LInv, Explored, Acyclic

----------------------------------------------------------------------------
(* The sort *)

\* Once every call has returned the edges the sort goes by are those that were kept.
LEMMA ForwardIsKept ==
    ASSUME LInv, layers # <<>>
    PROVE  /\ Returned = visited
           /\ \A m, n \in visited : n \in Forward(m) <=> <<m, n>> \in Kept
  <1>1. path = <<>> /\ ToSet(path) = {}
    BY DEF LInv, Phases, ToSet
  <1>2. Returned = visited
    BY <1>1 DEF Returned
  <1>3. explored \subseteq Edges
    BY DEF LInv, LayoutTypes
  <1>4. ASSUME NEW m \in visited, NEW n \in visited
        PROVE  n \in Forward(m) <=> <<m, n>> \in Kept
    <2>1. n \in targets[m] <=> <<m, n>> \in explored
      BY <1>2, <1>3, EdgeIsPair DEF LInv, Explored, ReturnedIsExplored
    <2> QED
      BY <2>1 DEF Forward, Kept
  <1> QED
    BY <1>2, <1>4

\* Steps that touch neither the validator nor the search.
LEMMA SearchRests ==
    ASSUME LInv, UNCHANGED <<vars, path, visited, explored, closing>>,
           sorted' \subseteq visited
    PROVE  /\ IInv' /\ LayoutTypes' /\ Explored' /\ Acyclic'
           /\ \A m : Forward(m)' = Forward(m)
  <1>1. /\ Nodes' = Nodes /\ targets' = targets /\ Edges' = Edges
        /\ Returned' = Returned /\ Kept' = Kept /\ \A m : Forward(m)' = Forward(m)
    BY DEF vars, Nodes, Edges, Returned, Kept, Forward
  <1>2. IInv'
    BY StutterPreserves DEF LInv
  <1>3. LayoutTypes'
    BY <1>1 DEF LInv, LayoutTypes
  <1>4. Explored'
    BY <1>1 DEF LInv, Explored, ReturnedIsExplored, ReturnedIsClosed, PathLeadsOn, PathIsSimple
  <1>5. Acyclic'
    BY <1>1 DEF LInv, Acyclic, PathDescends, ClosingIsBelow, NoCycleIsKept
  <1> QED
    BY <1>1, <1>2, <1>3, <1>4, <1>5

\* A node is sorted after all that lead to it, when its layer is final.
LEMMA SortPreserves == LInv /\ Sort => LInv'
  <1> SUFFICES ASSUME LInv, Sort PROVE LInv'
    OBVIOUS
  <1>1. /\ layers # <<>> /\ order = <<>>
        /\ UNCHANGED <<vars, path, visited, explored, closing, order>>
    BY DEF Sort
  <1>2. PICK name \in Ready :
          /\ sorted' = sorted \union {name}
          /\ layers' = [n \in visited |->
               IF n \in Forward(name) /\ layers[n] <= layers[name] THEN layers[name] + 1
               ELSE layers[n]]
    BY DEF Sort
  <1>3. /\ name \in visited /\ name \notin sorted
        /\ \A m \in visited : name \in Forward(m) => m \in sorted
    BY DEF Ready
  <1>4. /\ path = <<>> /\ visited # {} /\ layers \in [visited -> Nat]
        /\ verdict = "accepted" /\ start \in visited
        /\ sorted \subseteq visited /\ \A m : Forward(m) \subseteq visited
    BY <1>1 DEF LInv, Phases, LayoutTypes, Forward
  <1>5. /\ IInv' /\ LayoutTypes' /\ Explored' /\ Acyclic'
        /\ \A m : Forward(m)' = Forward(m)
    BY <1>1, <1>2, <1>3, <1>4, SearchRests
  <1>6. name \notin Forward(name) /\ \A n \in sorted : n \notin Forward(name)
    BY <1>3 DEF LInv, Layered, SortedIsClosed
  <1>7. /\ layers' \in [visited -> Nat]
        /\ \A n \in sorted \union {name} : layers'[n] = layers[n]
        /\ \A n \in visited : layers'[n] >= layers[n]
        /\ \A n \in Forward(name) : layers'[n] > layers[name]
        /\ \A n \in visited : layers'[n] = layers[n] \/ (n \in Forward(name) /\ layers'[n] = layers[name] + 1)
    <2>1. \A n \in visited : layers[n] \in Nat
      BY <1>4
    <2>2. \A n \in visited : layers'[n] = IF n \in Forward(name) /\ layers[n] <= layers[name]
                                             THEN layers[name] + 1 ELSE layers[n]
      BY <1>2
    <2>3. layers' \in [visited -> Nat]
      BY <1>2, <1>3, <2>1
    <2>4. \A n \in sorted \union {name} : layers'[n] = layers[n]
      BY <1>3, <1>4, <1>6, <2>2
    <2> QED
      BY <1>3, <1>4, <2>1, <2>2, <2>3, <2>4
  <1>8. Phases'
    <2>1. layers' # <<>>
      BY <1>4, <1>7, LayersAreSome
    <2> QED
      BY <1>1, <1>4, <1>7, <2>1 DEF Phases, vars
  <1>9. Layered'
    <2>1. SortedIsClosed'
      BY <1>1, <1>2, <1>3, <1>5 DEF LInv, Layered, SortedIsClosed
    <2>2. SortedGoesDown'
      <3> SUFFICES ASSUME NEW n \in sorted \union {name}, NEW t \in Forward(n)
                   PROVE  layers'[t] > layers'[n]
        BY <1>2, <1>5 DEF SortedGoesDown
      <3>1. t \in visited /\ layers[t] \in Nat /\ layers'[t] \in Nat /\ layers[n] \in Nat
        BY <1>3, <1>4, <1>7
      <3>2. CASE n = name
        BY <1>7, <3>2
      <3>3. CASE n \in sorted
        <4>1. layers[t] > layers[n]
          BY <1>1, <3>3 DEF LInv, Layered, SortedGoesDown
        <4> QED
          BY <1>7, <3>1, <4>1
      <3> QED
        BY <3>2, <3>3
    <2>3. LayersHaveReason'
      <3> SUFFICES ASSUME NEW n \in visited, layers'[n] > 0
                   PROVE  \E m \in sorted \union {name} : n \in Forward(m) /\ layers'[m] + 1 = layers'[n]
        BY <1>1, <1>2, <1>5 DEF LayersHaveReason
      <3>1. CASE layers'[n] = layers[n]
        <4>1. PICK m \in sorted : n \in Forward(m) /\ layers[m] + 1 = layers[n]
          BY <1>1, <3>1 DEF LInv, Layered, LayersHaveReason
        <4> QED
          BY <1>7, <3>1, <4>1
      <3>2. CASE n \in Forward(name) /\ layers'[n] = layers[name] + 1
        BY <1>7, <3>2
      <3> QED
        BY <1>7, <3>1, <3>2
    <2> QED
      BY <2>1, <2>2, <2>3 DEF Layered
  <1> QED
    BY <1>5, <1>8, <1>9 DEF LInv

\* No node waits for ever: the unsorted ones would hold a cycle of kept edges.
LEMMA SortEnds == ASSUME LInv, layers # <<>>, Ready = {} PROVE sorted = visited
  <1>1. Returned = visited /\ \A m, n \in visited : n \in Forward(m) <=> <<m, n>> \in Kept
    BY ForwardIsKept
  <1>2. sorted \subseteq visited
    BY DEF LInv, LayoutTypes
  <1>3. ASSUME visited \ sorted # {} PROVE FALSE
    <2>1. PICK n \in visited \ sorted : \A m \in visited \ sorted : <<m, n>> \notin Kept
      BY <1>1, <1>3 DEF LInv, Acyclic, NoCycleIsKept
    <2>2. n \in Ready
      BY <1>1, <2>1 DEF Ready
    <2> QED
      BY <2>2
  <1> QED
    BY <1>2, <1>3

LEMMA PlacePreserves == LInv /\ Place => LInv'
  <1> SUFFICES ASSUME LInv, Place PROVE LInv'
    OBVIOUS
  <1>1. /\ layers # <<>> /\ Ready = {}
        /\ UNCHANGED <<vars, path, visited, explored, closing, sorted, layers>>
    BY DEF Place
  <1>2. sorted = visited
    BY <1>1, SortEnds
  <1>3. /\ IInv' /\ LayoutTypes' /\ Explored' /\ Acyclic'
        /\ \A m : Forward(m)' = Forward(m)
    BY <1>1, <1>2, SearchRests
  <1>4. Phases'
    BY <1>1, <1>2 DEF LInv, Phases, vars
  <1>5. Layered'
    BY <1>1, <1>3 DEF LInv, Layered, SortedIsClosed, SortedGoesDown, LayersHaveReason
  <1> QED
    BY <1>3, <1>4, <1>5 DEF LInv

LEMMA LayoutStutterPreserves == LInv /\ UNCHANGED <<vars, layoutVars>> => LInv'
  <1> SUFFICES ASSUME LInv, UNCHANGED <<vars, layoutVars>> PROVE LInv'
    OBVIOUS
  <1>1. UNCHANGED <<vars, path, visited, explored, closing, sorted, layers, order>>
    BY DEF layoutVars
  <1>2. /\ IInv' /\ LayoutTypes' /\ Explored' /\ Acyclic'
        /\ \A m : Forward(m)' = Forward(m)
    BY <1>1, SearchRests DEF LInv, LayoutTypes
  <1>3. Phases'
    BY <1>1 DEF LInv, Phases, vars
  <1>4. Layered'
    BY <1>1, <1>2 DEF LInv, Layered, SortedIsClosed, SortedGoesDown, LayersHaveReason
  <1> QED
    BY <1>2, <1>3, <1>4 DEF LInv

\* The layout keeps the invariant for every graph and every order of its edges.
THEOREM LayoutInvariant == LayoutSpec => []LInv
  <1>1. LInv /\ [LayoutNext]_<<vars, layoutVars>> => LInv'
    BY ValidatePreserves, BeginPreserves, SearchPreserves, ReturnPreserves, SortPreserves,
       PlacePreserves, LayoutStutterPreserves DEF LayoutNext, Finished
  <1> QED
    BY <1>1, LayoutBegins, PTL DEF LayoutSpec

\* The verdict is right also when a layout follows it (types.py:166-180).
THEOREM LayoutFollowsTheVerdict == LayoutSpec => []VerdictIsRight
  <1>1. LInv => VerdictIsRight
    BY AcceptanceIsSound, AcceptanceIsComplete DEF VerdictIsRight, LInv
  <1> QED
    BY <1>1, LayoutInvariant, PTL

----------------------------------------------------------------------------
(* The layers *)

\* The nodes of a deeper layer than t's, and t, are a set no kept edge leaves.
LEMMA BelowIsDeeper ==
    ASSUME LInv, layers # <<>>, sorted = visited,
           NEW t \in visited, NEW n \in visited, n \in Below(Nodes, Kept, t)
    PROVE  n = t \/ layers[n] > layers[t]
  <1> DEFINE S == {t} \union {m \in visited : layers[m] > layers[t]}
  <1>1. layers \in [visited -> Nat] /\ visited \subseteq Nodes
    BY DEF LInv, Phases, LayoutTypes
  <1>2. \A m, u \in visited : <<m, u>> \in Kept => layers[u] > layers[m]
    BY ForwardIsKept DEF LInv, Layered, SortedGoesDown
  <1>3. Kept \subseteq Edges
    BY DEF LInv, LayoutTypes, Kept
  <1>4. ASSUME NEW e \in Kept, e[1] \in S PROVE e[2] \in S
    <2>1. e = <<e[1], e[2]>> /\ e[1] \in visited /\ e[2] \in visited
      BY <1>3 DEF Edges
    <2>2. layers[e[2]] > layers[e[1]]
      BY <1>2, <2>1
    <2>3. layers[e[1]] >= layers[t] /\ layers[t] \in Nat /\ layers[e[1]] \in Nat /\ layers[e[2]] \in Nat
      BY <1>1, <1>4, <2>1
    <2> QED
      BY <2>1, <2>2, <2>3
  <1>5. S \in SUBSET Nodes /\ t \in S
    BY <1>1
  <1>6. Closed(S, Kept)
    BY <1>4 DEF Closed
  <1> HIDE DEF S
  <1>7. n \in S
    BY <1>5, <1>6 DEF Below
  <1> QED
    BY <1>7 DEF S

\* A search along all edges reaches what kept edges lead to.
LEMMA BelowIsReached ==
    ASSUME LInv, NEW t \in Nodes PROVE Below(Nodes, Kept, t) \subseteq Reach(t)
  <1> SUFFICES ASSUME NEW n \in Below(Nodes, Kept, t), NEW S \in SUBSET Nodes,
                      t \in S, \A k \in S : targets[k] \subseteq S
               PROVE  n \in S
    BY DEF Reach, Below
  <1>1. ASSUME NEW e \in Kept, e[1] \in S PROVE e[2] \in S
    BY <1>1 DEF LInv, LayoutTypes, Kept, Edges
  <1> QED
    BY <1>1 DEF Below, Closed

\* For every graph: when the boxes are drawn, all nodes are, every edge leads down
\* to another layer or is drawn as a loop, a loop closes a cycle, and a box below
\* the first layer hangs from one a layer up (graph.py:174-178, 226-240, 390-413).
THEOREM EdgesLeadDownOrLoop == LayoutSpec => []LayersGrow
  <1>1. LInv => LayersGrow
    <2> SUFFICES ASSUME LInv, Drawn PROVE LayersGrow
      BY DEF LayersGrow
    <2>1. /\ layers # <<>> /\ sorted = visited /\ path = <<>> /\ visited # {}
          /\ start \in visited /\ verdict = "accepted" /\ layers \in [visited -> Nat]
      BY DEF LInv, Phases, Drawn
    <2>2. /\ explored \subseteq Edges /\ closing \subseteq explored /\ visited \subseteq Nodes
      BY DEF LInv, LayoutTypes
    <2>3. Returned = visited /\ \A m, n \in visited : n \in Forward(m) <=> <<m, n>> \in Kept
      BY <2>1, ForwardIsKept
    <2>4. visited = Nodes
      <3>1. \A n \in visited : targets[n] \subseteq visited
        BY <2>2, <2>3, EdgeIsPair DEF LInv, Explored, ReturnedIsExplored
      <3>2. ClosedFromStart(visited)
        BY <2>1, <3>1 DEF ClosedFromStart
      <3> QED
        BY <2>1, <2>2, <3>2, AcceptanceIsSound DEF LInv, WellFormed
    <2>5. ASSUME NEW n \in visited, NEW t \in visited, t \in targets[n], <<n, t>> \notin closing
          PROVE  layers[t] > layers[n]
      BY <2>1, <2>5 DEF LInv, Layered, SortedGoesDown, Forward
    <2>6. ASSUME NEW n \in visited, NEW t \in visited, <<n, t>> \in closing
          PROVE  n \in Below(Nodes, Kept, t) /\ IsBack(n, t)
      <3>1. n \in Below(Nodes, Kept, t)
        BY <2>2, <2>6 DEF LInv, Acyclic, ClosingIsBelow
      <3> QED
        BY <2>1, <3>1, BelowIsDeeper DEF IsBack
    <2>7. ASSUME NEW e \in Edges PROVE layers[e[2]] > layers[e[1]] \/ e \in Back
      <3>1. e = <<e[1], e[2]>> /\ e[1] \in visited /\ e[2] \in visited /\ e[2] \in targets[e[1]]
        BY DEF Edges
      <3> QED
        BY <2>5, <2>6, <3>1 DEF Back
    <2>8. ASSUME NEW e \in Back PROVE e[1] \in Reach(e[2])
      <3>1. /\ e = <<e[1], e[2]>> /\ e[1] \in visited /\ e[2] \in visited /\ e[2] \in targets[e[1]]
            /\ IsBack(e[1], e[2])
        BY DEF Back, Edges
      <3>2. e \in closing
        <4>1. layers[e[1]] \in Nat /\ layers[e[2]] \in Nat
          BY <2>1, <3>1
        <4>2. ~ (layers[e[2]] > layers[e[1]])
          BY <3>1, <4>1 DEF IsBack
        <4> QED
          BY <2>5, <3>1, <4>2
      <3>3. e[1] \in Below(Nodes, Kept, e[2])
        BY <2>6, <3>1, <3>2
      <3> QED
        BY <2>2, <3>1, <3>3, BelowIsReached
    <2>9. ASSUME NEW n \in visited, layers[n] > 0
          PROVE  \E m \in visited : n \in targets[m] /\ layers[m] + 1 = layers[n]
      BY <2>1, <2>9 DEF LInv, Layered, LayersHaveReason, Forward
    <2> QED
      BY <2>4, <2>7, <2>8, <2>9 DEF LayersGrow
  <1> QED
    BY <1>1, LayoutInvariant, PTL

----------------------------------------------------------------------------
(* Sums over finite sets *)

\* g sums up f over the subsets of S, as the folds of the layout do.
Pick(s) == CHOOSE x \in s : TRUE
SumsUp(g, f, S) ==
    g = [s \in SUBSET S |-> IF s = {} THEN 0 ELSE f[Pick(s)] + g[s \ {Pick(s)}]]

LEMMA PickIsIn == ASSUME NEW s, s # {} PROVE Pick(s) \in s
  BY DEF Pick

\* Induction over finite sets: where a property fails it fails for a smallest set.
LEMMA SomeIsSmallest ==
    ASSUME NEW S, IsFiniteSet(S), NEW F \in SUBSET SUBSET S, F # {}
    PROVE  \E s \in F : \A t \in F : t \subseteq s => t = s
  <1>1. FiniteSubsetsOf(S) = SUBSET S
    BY FS_FiniteSubsetsOfFinite
  <1>2. IsWellFoundedOn(StrictSubsetOrdering(S), SUBSET S)
    BY <1>1, FS_StrictSubsetOrderingWellFounded
  <1>3. PICK s \in F : \A t \in F : <<t, s>> \notin StrictSubsetOrdering(S)
    BY <1>2, WFMin
  <1>4. \A t \in F : t \subseteq s => t = s
    BY <1>3 DEF StrictSubsetOrdering
  <1> QED
    BY <1>4

LEMMA SumsAgree ==
    ASSUME NEW S, IsFiniteSet(S), NEW T \in SUBSET S, NEW f, NEW g, NEW h,
           SumsUp(g, f, S), SumsUp(h, f, T)
    PROVE  \A s \in SUBSET T : g[s] = h[s]
  <1> DEFINE F == {s \in SUBSET T : g[s] # h[s]}
  <1> SUFFICES ASSUME F # {}  PROVE FALSE
    OBVIOUS
  <1>1. PICK s \in F : \A t \in F : t \subseteq s => t = s
    <2>1. F \in SUBSET SUBSET S
      OBVIOUS
    <2> HIDE DEF F
    <2> QED
      BY <2>1, SomeIsSmallest
  <1>2. /\ g[s] = IF s = {} THEN 0 ELSE f[Pick(s)] + g[s \ {Pick(s)}]
        /\ h[s] = IF s = {} THEN 0 ELSE f[Pick(s)] + h[s \ {Pick(s)}]
    BY DEF SumsUp
  <1>3. s # {}
    BY <1>2
  <1>4. s \ {Pick(s)} \notin F
    BY <1>1, <1>3, PickIsIn
  <1>5. g[s \ {Pick(s)}] = h[s \ {Pick(s)}]
    BY <1>4
  <1> QED
    BY <1>2, <1>3, <1>5

LEMMA SumExists ==
    ASSUME NEW S, IsFiniteSet(S), NEW f
    PROVE  \E g : SumsUp(g, f, S)
  <1> DEFINE F == {T \in SUBSET S : ~\E g : SumsUp(g, f, T)}
  <1> SUFFICES ASSUME F # {}  PROVE FALSE
    OBVIOUS
  <1>1. PICK T \in F : \A U \in F : U \subseteq T => U = T
    <2>1. F \in SUBSET SUBSET S
      OBVIOUS
    <2> HIDE DEF F
    <2> QED
      BY <2>1, SomeIsSmallest
  <1> DEFINE Sum(U) == CHOOSE g : SumsUp(g, f, U)
             g == [s \in SUBSET T |-> IF s = {} THEN 0
                                      ELSE f[Pick(s)] + Sum(s \ {Pick(s)})[s \ {Pick(s)}]]
  <1>2. ASSUME NEW s \in SUBSET T, s # T  PROVE SumsUp(Sum(s), f, s)
    <2>1. s \notin F
      BY <1>1, <1>2
    <2>2. \E k : SumsUp(k, f, s)
      BY <2>1
    <2> QED
      BY <2>2
  <1> HIDE DEF Sum
  <1>3. ASSUME NEW s \in SUBSET T, s # T  PROVE g[s] = Sum(s)[s]
    <2>1. Sum(s)[s] = IF s = {} THEN 0 ELSE f[Pick(s)] + Sum(s)[s \ {Pick(s)}]
      BY <1>2, <1>3 DEF SumsUp
    <2>2. CASE s = {}
      BY <2>1, <2>2
    <2>3. CASE s # {}
      <3> DEFINE t == s \ {Pick(s)}
      <3>1. t \in SUBSET s /\ t \in SUBSET T /\ t # T
        BY <1>3, <2>3, PickIsIn
      <3>2. SumsUp(Sum(s), f, s) /\ SumsUp(Sum(t), f, t)
        BY <1>2, <1>3, <3>1
      <3>3. IsFiniteSet(s)
        BY FS_Subset
      <3> HIDE DEF t
      <3>4. Sum(s)[t] = Sum(t)[t]
        BY <3>1, <3>2, <3>3, SumsAgree
      <3> QED
        BY <2>1, <2>3, <3>4 DEF t
    <2> QED
      BY <2>2, <2>3
  <1>4. SumsUp(g, f, T)
    <2>1. ASSUME NEW s \in SUBSET T, s # {}
          PROVE  g[s \ {Pick(s)}] = Sum(s \ {Pick(s)})[s \ {Pick(s)}]
      <3>1. s \ {Pick(s)} \in SUBSET T /\ s \ {Pick(s)} # T
        BY <2>1, PickIsIn
      <3> HIDE DEF g
      <3> QED
        BY <1>3, <3>1
    <2>2. g = [s \in SUBSET T |-> IF s = {} THEN 0 ELSE f[Pick(s)] + g[s \ {Pick(s)}]]
      BY <2>1
    <2> QED
      BY <2>2 DEF SumsUp
  <1> QED
    BY <1>1, <1>4

----------------------------------------------------------------------------
(* What sums of numbers do *)

LEMMA SumIsNumber ==
    ASSUME NEW S, IsFiniteSet(S), NEW f, \A x \in S : f[x] \in Nat, NEW g, SumsUp(g, f, S)
    PROVE  \A s \in SUBSET S : g[s] \in Nat
  <1> DEFINE F == {s \in SUBSET S : g[s] \notin Nat}
  <1> SUFFICES ASSUME F # {}  PROVE FALSE
    OBVIOUS
  <1>1. PICK s \in F : \A t \in F : t \subseteq s => t = s
    <2>1. F \in SUBSET SUBSET S
      OBVIOUS
    <2> HIDE DEF F
    <2> QED
      BY <2>1, SomeIsSmallest
  <1>2. g[s] = IF s = {} THEN 0 ELSE f[Pick(s)] + g[s \ {Pick(s)}]
    BY DEF SumsUp
  <1>3. s # {}
    BY <1>2
  <1>4. Pick(s) \in S /\ s \ {Pick(s)} \notin F
    BY <1>1, <1>3, PickIsIn
  <1>5. f[Pick(s)] \in Nat /\ g[s \ {Pick(s)}] \in Nat
    BY <1>4
  <1> QED
    BY <1>2, <1>3, <1>5

\* The order does not matter: any member may be taken out first.
LEMMA TakeOneOut ==
    ASSUME NEW S, IsFiniteSet(S), NEW f, \A x \in S : f[x] \in Nat, NEW g, SumsUp(g, f, S)
    PROVE  \A s \in SUBSET S : \A x \in s : g[s] = f[x] + g[s \ {x}]
  <1> DEFINE F == {s \in SUBSET S : \E x \in s : g[s] # f[x] + g[s \ {x}]}
  <1> SUFFICES ASSUME F # {}  PROVE FALSE
    OBVIOUS
  <1>1. PICK s \in F : \A t \in F : t \subseteq s => t = s
    <2>1. F \in SUBSET SUBSET S
      OBVIOUS
    <2> HIDE DEF F
    <2> QED
      BY <2>1, SomeIsSmallest
  <1>2. PICK x \in s : g[s] # f[x] + g[s \ {x}]
    OBVIOUS
  <1> DEFINE p == Pick(s)
             rest == s \ {p, x}
  <1>3. p \in s
    BY <1>2, PickIsIn
  <1>4. g[s] = f[p] + g[s \ {p}]
    BY <1>2 DEF SumsUp
  <1> HIDE DEF p
  <1>5. p # x
    BY <1>2, <1>4
  <1>6. \A t \in SUBSET s : t # s => \A y \in t : g[t] = f[y] + g[t \ {y}]
    BY <1>1
  <1>7. g[s \ {p}] = f[x] + g[rest]
    <2>1. (s \ {p}) \ {x} = rest /\ x \in s \ {p} /\ s \ {p} # s
      BY <1>2, <1>3, <1>5
    <2> QED
      BY <1>6, <2>1
  <1>8. g[s \ {x}] = f[p] + g[rest]
    <2>1. (s \ {x}) \ {p} = rest /\ p \in s \ {x} /\ s \ {x} # s
      BY <1>2, <1>3, <1>5
    <2> QED
      BY <1>6, <2>1
  <1>9. f[p] \in Nat /\ f[x] \in Nat /\ g[rest] \in Nat
    <2>1. rest \in SUBSET S
      OBVIOUS
    <2> QED
      BY <1>2, <1>3, <2>1, SumIsNumber
  <1> HIDE DEF rest
  <1> QED
    BY <1>2, <1>4, <1>7, <1>8, <1>9

LEMMA MoreIsNotLess ==
    ASSUME NEW S, IsFiniteSet(S), NEW f, \A x \in S : f[x] \in Nat, NEW g, SumsUp(g, f, S),
           NEW s \in SUBSET S
    PROVE  \A t \in SUBSET S : s \subseteq t => g[s] <= g[t]
  <1> DEFINE F == {t \in SUBSET S : s \subseteq t /\ ~(g[s] <= g[t])}
  <1> SUFFICES ASSUME F # {}  PROVE FALSE
    OBVIOUS
  <1>1. PICK t \in F : \A u \in F : u \subseteq t => u = t
    <2>1. F \in SUBSET SUBSET S
      OBVIOUS
    <2> HIDE DEF F
    <2> QED
      BY <2>1, SomeIsSmallest
  <1>2. \A u \in SUBSET S : g[u] \in Nat
    BY SumIsNumber
  <1>3. t # s
    BY <1>2
  <1>4. PICK x \in t : x \notin s
    BY <1>3
  <1>5. s \subseteq t \ {x} /\ t \ {x} \in SUBSET S /\ t \ {x} \notin F
    BY <1>1, <1>4
  <1>6. g[s] <= g[t \ {x}]
    BY <1>5
  <1>7. g[t] = f[x] + g[t \ {x}]
    BY <1>4, TakeOneOut
  <1>8. f[x] \in Nat
    BY <1>4
  <1> QED
    BY <1>2, <1>5, <1>6, <1>7, <1>8

\* A gap after each summand.
LEMMA GapsAddUp ==
    ASSUME NEW S, IsFiniteSet(S), NEW f, \A x \in S : f[x] \in Nat, NEW c \in Nat,
           NEW e, \A x \in S : e[x] = f[x] + c,
           NEW g, SumsUp(g, f, S), NEW h, SumsUp(h, e, S)
    PROVE  \A s \in SUBSET S : h[s] = g[s] + c * Cardinality(s)
  <1> DEFINE F == {s \in SUBSET S : h[s] # g[s] + c * Cardinality(s)}
  <1> SUFFICES ASSUME F # {}  PROVE FALSE
    OBVIOUS
  <1>1. PICK s \in F : \A t \in F : t \subseteq s => t = s
    <2>1. F \in SUBSET SUBSET S
      OBVIOUS
    <2> HIDE DEF F
    <2> QED
      BY <2>1, SomeIsSmallest
  <1> DEFINE p == Pick(s)
             t == s \ {p}
  <1>2. /\ g[s] = IF s = {} THEN 0 ELSE f[p] + g[t]
        /\ h[s] = IF s = {} THEN 0 ELSE e[p] + h[t]
    BY DEF SumsUp
  <1>3. s # {}
    <2>1. c * Cardinality({}) = 0
      BY FS_EmptySet
    <2> QED
      BY <1>2, <2>1
  <1>4. p \in s /\ p \in S /\ t \in SUBSET S
    BY <1>3, PickIsIn
  <1>5. IsFiniteSet(s) /\ IsFiniteSet(t) /\ Cardinality(s) \in Nat /\ Cardinality(t) \in Nat
        /\ Cardinality(s) = Cardinality(t) + 1
    <2>1. IsFiniteSet(s) /\ IsFiniteSet(t)
      BY <1>4, FS_Subset
    <2>2. p \notin t /\ t \union {p} = s
      BY <1>4
    <2> HIDE DEF p, t
    <2>3. Cardinality(t \union {p}) = Cardinality(t) + 1
      BY <2>1, <2>2, FS_AddElement
    <2> QED
      BY <2>1, <2>2, <2>3, FS_CardinalityType
  <1>6. h[t] = g[t] + c * Cardinality(t)
    BY <1>1, <1>4
  <1>7. e[p] = f[p] + c /\ f[p] \in Nat /\ g[t] \in Nat
    BY <1>4, SumIsNumber
  <1> HIDE DEF p, t
  <1>8. c * Cardinality(s) = c * Cardinality(t) + c
    BY <1>5
  <1>9. h[s] = g[s] + c * Cardinality(s)
    <2> DEFINE m == c * Cardinality(t)
    <2>1. m \in Nat
      BY <1>5
    <2>2. h[t] = g[t] + m /\ c * Cardinality(s) = m + c
      BY <1>6, <1>8
    <2> HIDE DEF m
    <2> QED
      BY <1>2, <1>3, <1>7, <2>1, <2>2
  <1> QED
    BY <1>9

LEMMA MaxIsGreatest ==
    ASSUME NEW S, IsFiniteSet(S)
    PROVE  S \subseteq Nat /\ S # {} => Max(S) \in S /\ \A y \in S : y <= Max(S)
  <1> DEFINE F == {s \in SUBSET S : s # {} /\ ~\E x \in s : \A y \in s : x >= y}
  <1>1. F # {} => \E s \in F : \A t \in F : t \subseteq s => t = s
    <2>1. F \in SUBSET SUBSET S
      OBVIOUS
    <2> HIDE DEF F
    <2> QED
      BY <2>1, SomeIsSmallest
  <1> SUFFICES ASSUME S \subseteq Nat, S # {}
               PROVE  Max(S) \in S /\ \A y \in S : y <= Max(S)
    OBVIOUS
  <1>2. F = {}
    <2> SUFFICES ASSUME F # {}  PROVE FALSE
      OBVIOUS
    <2>1. PICK s \in F : \A t \in F : t \subseteq s => t = s
      BY <1>1
    <2>2. PICK p \in s : TRUE
      OBVIOUS
    <2>3. s \ {p} \notin F
      BY <2>1, <2>2
    <2>4. CASE s \ {p} = {}
      <3>1. \A y \in s : y = p
        BY <2>4
      <3>2. p \in Nat
        BY <2>2
      <3> QED
        BY <2>2, <3>1, <3>2
    <2>5. CASE s \ {p} # {}
      <3>1. PICK x \in s \ {p} : \A y \in s \ {p} : x >= y
        BY <2>3, <2>5
      <3>2. p \in Nat /\ x \in Nat /\ \A y \in s : y \in Nat
        BY <2>2, <3>1
      <3>3. CASE x >= p
        <4>1. \A y \in s : x >= y
          BY <3>1, <3>3
        <4> QED
          BY <3>1, <4>1
      <3>4. CASE p >= x
        <4>1. \A y \in s : p >= y
          <5> TAKE y \in s
          <5>1. y = p \/ x >= y
            BY <3>1
          <5> QED
            BY <3>2, <3>4, <5>1
        <4> QED
          BY <2>2, <4>1
      <3> QED
        BY <3>2, <3>3, <3>4
    <2> QED
      BY <2>4, <2>5
  <1>3. \E x \in S : \A y \in S : x >= y
    BY <1>2
  <1>4. Max(S) \in S /\ \A y \in S : Max(S) >= y
    BY <1>3 DEF Max
  <1>5. \A y \in S : y \in Nat
    OBVIOUS
  <1> QED
    BY <1>4, <1>5

\* The greatest value of a function.
LEMMA MaxOfValues ==
    ASSUME NEW S, IsFiniteSet(S), S # {}, NEW f, \A x \in S : f[x] \in Nat
    PROVE  LET M == Max({f[x] : x \in S}) IN
           M \in Nat /\ (\E x \in S : M = f[x]) /\ \A x \in S : f[x] <= M
  <1> DEFINE V == {f[x] : x \in S}
             g == [x \in S |-> f[x]]
  <1>1. V \subseteq Nat /\ V # {}
    OBVIOUS
  <1>2. IsFiniteSet(V)
    <2>1. g \in Surjection(S, V)
      BY DEF Surjection
    <2> HIDE DEF g, V
    <2> QED
      BY <2>1, FS_Surjection
  <1>3. Max(V) \in V /\ \A y \in V : y <= Max(V)
    <2> HIDE DEF V
    <2> QED
      BY <1>1, <1>2, MaxIsGreatest
  <1>4. \A x \in S : f[x] \in V
    OBVIOUS
  <1> QED
    BY <1>1, <1>3, <1>4

----------------------------------------------------------------------------
(* The folds of the layout are such sums *)

Gapped(f, c, S) == [x \in S |-> f[x] + c]

LEMMA WidthsAreSummed ==
    ASSUME NEW S, IsFiniteSet(S), NEW s \in SUBSET S, NEW g, SumsUp(g, Width, S)
    PROVE  MapThenSumSet(LAMBDA n : Width[n], s) = g[s]
  <1> DEFINE h == CHOOSE k : k = [t \in SUBSET s |-> IF t = {} THEN 0
                         ELSE Width[CHOOSE x \in t : TRUE] + k[t \ {CHOOSE x \in t : TRUE}]]
  <1>1. \E k : SumsUp(k, Width, s)
    BY SumExists, FS_Subset
  <1>2. SumsUp(h, Width, s)
    BY <1>1 DEF SumsUp, Pick
  <1>3. MapThenSumSet(LAMBDA n : Width[n], s) = h[s]
    BY DEF MapThenSumSet, MapThenFoldSet
  <1> HIDE DEF h
  <1> QED
    BY <1>2, <1>3, SumsAgree

LEMMA GappedWidthsAreSummed ==
    ASSUME NEW S, IsFiniteSet(S), NEW s \in SUBSET S,
           NEW g, SumsUp(g, Gapped(Width, BoxGap, S), S)
    PROVE  MapThenSumSet(LAMBDA m : Width[m] + BoxGap, s) = g[s]
  <1> DEFINE h == CHOOSE k : k = [t \in SUBSET s |-> IF t = {} THEN 0
                         ELSE Width[CHOOSE x \in t : TRUE] + BoxGap + k[t \ {CHOOSE x \in t : TRUE}]]
             f == Gapped(Width, BoxGap, S)
  <1>1. \A k : SumsUp(k, f, s) <=> k = [t \in SUBSET s |-> IF t = {} THEN 0
                         ELSE Width[Pick(t)] + BoxGap + k[t \ {Pick(t)}]]
    <2>1. \A t \in SUBSET s : t # {} => f[Pick(t)] = Width[Pick(t)] + BoxGap
      BY PickIsIn DEF Gapped
    <2> QED
      BY <2>1 DEF SumsUp
  <1>2. \E k : SumsUp(k, f, s)
    BY SumExists, FS_Subset
  <1>3. SumsUp(h, f, s)
    <2>1. \E k : k = [t \in SUBSET s |-> IF t = {} THEN 0
                         ELSE Width[Pick(t)] + BoxGap + k[t \ {Pick(t)}]]
      BY <1>1, <1>2
    <2>2. h = [t \in SUBSET s |-> IF t = {} THEN 0
                         ELSE Width[Pick(t)] + BoxGap + h[t \ {Pick(t)}]]
      BY <2>1 DEF Pick
    <2> QED
      BY <1>1, <2>2
  <1>4. MapThenSumSet(LAMBDA m : Width[m] + BoxGap, s) = h[s]
    BY DEF MapThenSumSet, MapThenFoldSet
  <1>5. h[s] = g[s]
    <2>1. SumsUp(g, f, S)
      OBVIOUS
    <2> HIDE DEF h, f
    <2> QED
      BY <1>3, <2>1, SumsAgree
  <1> QED
    BY <1>4, <1>5

Heights(S) == [l \in S |-> LayerHeight(l)]

LEMMA HeightsAreSummed ==
    ASSUME NEW S, IsFiniteSet(S), NEW s \in SUBSET S,
           NEW g, SumsUp(g, Heights(S), S)
    PROVE  MapThenSumSet(LayerHeight, s) = g[s]
  <1> DEFINE h == CHOOSE k : k = [t \in SUBSET s |-> IF t = {} THEN 0
                         ELSE LayerHeight(CHOOSE x \in t : TRUE) + k[t \ {CHOOSE x \in t : TRUE}]]
             f == Heights(S)
  <1>1. \A k : SumsUp(k, f, s) <=> k = [t \in SUBSET s |-> IF t = {} THEN 0
                         ELSE LayerHeight(Pick(t)) + k[t \ {Pick(t)}]]
    <2>1. \A t \in SUBSET s : t # {} => f[Pick(t)] = LayerHeight(Pick(t))
      BY PickIsIn DEF Heights
    <2> QED
      BY <2>1 DEF SumsUp
  <1>2. \E k : SumsUp(k, f, s)
    BY SumExists, FS_Subset
  <1>3. SumsUp(h, f, s)
    <2>1. \E k : k = [t \in SUBSET s |-> IF t = {} THEN 0
                         ELSE LayerHeight(Pick(t)) + k[t \ {Pick(t)}]]
      BY <1>1, <1>2
    <2>2. h = [t \in SUBSET s |-> IF t = {} THEN 0
                         ELSE LayerHeight(Pick(t)) + h[t \ {Pick(t)}]]
      BY <2>1 DEF Pick
    <2> QED
      BY <1>1, <2>2
  <1>4. MapThenSumSet(LayerHeight, s) = h[s]
    BY DEF MapThenSumSet, MapThenFoldSet
  <1>5. h[s] = g[s]
    <2>1. SumsUp(g, f, S)
      OBVIOUS
    <2> HIDE DEF h, f
    <2> QED
      BY <1>3, <2>1, SumsAgree
  <1> QED
    BY <1>4, <1>5

LEMMA GappedHeightsAreSummed ==
    ASSUME NEW S, IsFiniteSet(S), NEW s \in SUBSET S,
           NEW g, SumsUp(g, Gapped(Heights(S), RowGap, S), S)
    PROVE  MapThenSumSet(LAMBDA l : LayerHeight(l) + RowGap, s) = g[s]
  <1> DEFINE h == CHOOSE k : k = [t \in SUBSET s |-> IF t = {} THEN 0
                         ELSE LayerHeight(CHOOSE x \in t : TRUE) + RowGap + k[t \ {CHOOSE x \in t : TRUE}]]
             f == Gapped(Heights(S), RowGap, S)
  <1>1. \A k : SumsUp(k, f, s) <=> k = [t \in SUBSET s |-> IF t = {} THEN 0
                         ELSE LayerHeight(Pick(t)) + RowGap + k[t \ {Pick(t)}]]
    <2>1. \A t \in SUBSET s : t # {} => f[Pick(t)] = LayerHeight(Pick(t)) + RowGap
      BY PickIsIn DEF Gapped, Heights
    <2> QED
      BY <2>1 DEF SumsUp
  <1>2. \E k : SumsUp(k, f, s)
    BY SumExists, FS_Subset
  <1>3. SumsUp(h, f, s)
    <2>1. \E k : k = [t \in SUBSET s |-> IF t = {} THEN 0
                         ELSE LayerHeight(Pick(t)) + RowGap + k[t \ {Pick(t)}]]
      BY <1>1, <1>2
    <2>2. h = [t \in SUBSET s |-> IF t = {} THEN 0
                         ELSE LayerHeight(Pick(t)) + RowGap + h[t \ {Pick(t)}]]
      BY <2>1 DEF Pick
    <2> QED
      BY <1>1, <2>2
  <1>4. MapThenSumSet(LAMBDA l : LayerHeight(l) + RowGap, s) = h[s]
    BY DEF MapThenSumSet, MapThenFoldSet
  <1>5. h[s] = g[s]
    <2>1. SumsUp(g, f, S)
      OBVIOUS
    <2> HIDE DEF h, f
    <2> QED
      BY <1>3, <2>1, SumsAgree
  <1> QED
    BY <1>4, <1>5

----------------------------------------------------------------------------
(* The grid *)

\* The boxes are placed in some order of the nodes.
OrderIsOfNodes == Drawn => order \in SetToSeqs(visited)

\* What is known of a layout that is drawn.
LEMMA DrawnIsLayered ==
    ASSUME LInv, Drawn
    PROVE  /\ IsFiniteSet(visited) /\ visited # {} /\ visited \subseteq Names
           /\ layers \in [visited -> Nat]
           /\ \A n \in visited : Width[n] \in Nat /\ Height[n] \in Nat /\ Height[n] >= 1
           /\ \A n \in visited : layers[n] > 0 =>
                \E m \in visited : layers[m] + 1 = layers[n]
  <1>1. /\ layers # <<>> /\ sorted = visited /\ visited # {} /\ layers \in [visited -> Nat]
    BY DEF LInv, Phases, Drawn
  <1>2. visited \subseteq Names
    BY DEF LInv, IInv, TypeOK, LayoutTypes, Nodes
  <1>3. IsFiniteSet(visited)
    BY <1>2, FS_Subset, LayoutAssumption
  <1>4. \A n \in visited : Width[n] \in Nat /\ Height[n] \in Nat /\ Height[n] >= 1
    BY <1>2, LayoutAssumption
  <1>5. \A n \in visited : layers[n] > 0 => \E m \in visited : layers[m] + 1 = layers[n]
    BY <1>1 DEF LInv, Layered, LayersHaveReason
  <1> QED
    BY <1>1, <1>2, <1>3, <1>4, <1>5

\* Every layer down to the last has a box.
LEMMA LayersAreFilled ==
    ASSUME LInv, Drawn
    PROVE  /\ MaxLayer \in Nat /\ \A n \in visited : layers[n] \in 0..MaxLayer
           /\ \A l \in 0..MaxLayer : Group(l) # {} /\ Group(l) \subseteq visited
                                     /\ IsFiniteSet(Group(l))
  <1>1. /\ MaxLayer \in Nat /\ \E n \in visited : layers[n] = MaxLayer
        /\ \A n \in visited : layers[n] <= MaxLayer
    <2>1. IsFiniteSet(visited) /\ visited # {} /\ \A n \in visited : layers[n] \in Nat
      BY DrawnIsLayered
    <2>2. LET M == Max({layers[n] : n \in visited}) IN
          M \in Nat /\ (\E n \in visited : M = layers[n]) /\ \A n \in visited : layers[n] <= M
      BY <2>1, MaxOfValues
    <2> QED
      BY <2>2 DEF MaxLayer
  <1>2. \A n \in visited : layers[n] \in Nat /\ layers[n] \in 0..MaxLayer
    BY <1>1, DrawnIsLayered
  <1> DEFINE Empty == {l \in 0..MaxLayer : \A n \in visited : layers[n] # l}
  <1>3. Empty = {}
    <2> SUFFICES ASSUME Empty # {}  PROVE FALSE
      OBVIOUS
    <2>1. Empty \subseteq Nat /\ IsFiniteSet(Empty)
      <3>1. IsFiniteSet(0..MaxLayer)
        BY <1>1, FS_Interval
      <3>2. Empty \in SUBSET (0..MaxLayer)
        OBVIOUS
      <3>3. 0..MaxLayer \subseteq Nat
        BY <1>1
      <3> HIDE DEF Empty
      <3> QED
        BY <3>1, <3>2, <3>3, FS_Subset
    <2> DEFINE l == Max(Empty)
    <2>2. l \in Empty /\ \A k \in Empty : k <= l
      <3> HIDE DEF Empty
      <3> QED
        BY <2>1, MaxIsGreatest
    <2> HIDE DEF l
    <2>3. l \in Nat /\ l # MaxLayer /\ l <= MaxLayer
      BY <1>1, <2>2
    <2>4. l + 1 \in 0..MaxLayer /\ ~(l + 1 <= l)
      BY <1>1, <2>3
    <2>5. l + 1 \notin Empty
      <3> HIDE DEF Empty
      <3> QED
        BY <2>2, <2>4
    <2>6. PICK n \in visited : layers[n] = l + 1
      BY <2>4, <2>5
    <2>7. PICK m \in visited : layers[m] + 1 = l + 1
      BY <2>3, <2>6, DrawnIsLayered
    <2>8. layers[m] = l
      BY <1>2, <2>3, <2>7
    <2> QED
      BY <2>2, <2>8
  <1>4. \A l \in 0..MaxLayer : Group(l) # {}
    BY <1>3 DEF Group
  <1>5. \A l : Group(l) \in SUBSET visited
    BY DEF Group
  <1>6. \A l : IsFiniteSet(Group(l))
    BY <1>5, DrawnIsLayered, FS_Subset
  <1> QED
    BY <1>1, <1>2, <1>4, <1>5, <1>6

\* A layer is as wide as its boxes and the gaps between them, and no wider than
\* the drawing.
LEMMA LayersFit ==
    ASSUME LInv, Drawn, NEW g, SumsUp(g, Width, visited)
    PROVE  /\ ContentWidth \in Nat
           /\ \A l \in 0..MaxLayer :
                /\ LayerWidth(l) = g[Group(l)] + BoxGap * (Cardinality(Group(l)) - 1)
                /\ LayerWidth(l) \in Nat /\ LayerWidth(l) <= ContentWidth
  <1>1. ASSUME NEW l \in 0..MaxLayer
        PROVE  /\ LayerWidth(l) = g[Group(l)] + BoxGap * (Cardinality(Group(l)) - 1)
               /\ LayerWidth(l) \in Nat
    <2>1. Group(l) \in SUBSET visited /\ IsFiniteSet(visited) /\ Group(l) # {} /\ IsFiniteSet(Group(l))
      BY LayersAreFilled, DrawnIsLayered
    <2>2. MapThenSumSet(LAMBDA n : Width[n], Group(l)) = g[Group(l)]
      BY <2>1, WidthsAreSummed
    <2>3. g[Group(l)] \in Nat
      BY <2>1, SumIsNumber, DrawnIsLayered
    <2>4. Cardinality(Group(l)) \in Nat /\ Cardinality(Group(l)) # 0
      BY <2>1, FS_CardinalityType, FS_EmptySet
    <2>5. LayerWidth(l) = g[Group(l)] + BoxGap * (Cardinality(Group(l)) - 1)
      BY <2>2 DEF LayerWidth
    <2> QED
      BY <2>3, <2>4, <2>5 DEF BoxGap
  <1> DEFINE w == [l \in 0..MaxLayer |-> LayerWidth(l)]
             L == 0..MaxLayer
  <1>2. ContentWidth = Max({w[l] : l \in L})
    BY DEF ContentWidth
  <1>3. IsFiniteSet(L) /\ L # {} /\ \A l \in L : w[l] \in Nat
    <2>1. 0 \in Int /\ MaxLayer \in Int /\ 0 \in L
      BY LayersAreFilled
    <2>2. IsFiniteSet(L)
      BY <2>1, FS_Interval
    <2>3. \A l \in L : w[l] \in Nat
      BY <1>1
    <2> QED
      BY <2>1, <2>2, <2>3
  <1>4. ContentWidth \in Nat /\ \A l \in L : w[l] <= ContentWidth
    <2> HIDE DEF w, L
    <2> QED
      BY <1>2, <1>3, MaxOfValues
  <1> QED
    BY <1>1, <1>4

LEMMA PlacedSomewhere ==
    ASSUME LInv, Drawn, OrderIsOfNodes
    PROVE  \A n \in visited : Position(n) \in Nat
  <1> DEFINE D == 1..Cardinality(visited)
  <1>1. order \in [D -> visited] /\ \A i, j \in D : i # j => order[i] # order[j]
    BY DEF OrderIsOfNodes, SetToSeqs
  <1>2. IsFiniteSet(visited) /\ Cardinality(visited) \in Nat
    BY DrawnIsLayered, FS_CardinalityType
  <1>3. Cardinality(D) = Cardinality(visited) /\ D \subseteq Nat
    <2>1. 1 \in Int /\ Cardinality(visited) \in Int
      BY <1>2
    <2>2. Cardinality(D) = IF 1 > Cardinality(visited) THEN 0 ELSE Cardinality(visited) - 1 + 1
      BY <2>1, FS_Interval
    <2> QED
      BY <1>2, <2>2
  <1> HIDE DEF D
  <1>4. order \in Injection(D, visited)
    BY <1>1 DEF Injection, IsInjective
  <1>5. order \in Surjection(D, visited)
    BY <1>2, <1>3, <1>4, FS_Injection
  <1>6. \A n \in visited : \E i \in D : order[i] = n
    BY <1>5 DEF Surjection
  <1>7. DOMAIN order = D
    BY <1>1
  <1> QED
    BY <1>3, <1>6, <1>7 DEF Position

\* No box sticks out of the columns the layers take, whatever its place in its own.
LEMMA ColumnsFit ==
    ASSUME LInv, Drawn, OrderIsOfNodes, NEW n \in visited
    PROVE  Right(n) \in Nat /\ Right(n) <= ContentWidth + 2
  <1> DEFINE l == layers[n]
             G == Group(l)
             rest == G \ {n}
             f == Gapped(Width, BoxGap, visited)
             half == (ContentWidth - LayerWidth(l)) \div 2
  <1>1. IsFiniteSet(visited) /\ \A m \in visited : Width[m] \in Nat
    BY DrawnIsLayered
  <1>2. PICK g : SumsUp(g, Width, visited)
    BY <1>1, SumExists
  <1>3. PICK h : SumsUp(h, f, visited)
    <2> HIDE DEF f
    <2> QED
      BY <1>1, SumExists
  <1>4. l \in 0..MaxLayer /\ G \in SUBSET visited /\ IsFiniteSet(G) /\ n \in G
    BY LayersAreFilled DEF Group
  <1>5. LeftOf(n) \in SUBSET rest /\ rest \in SUBSET visited
    <2>1. n \notin LeftOf(n)
      BY PlacedSomewhere DEF LeftOf
    <2> QED
      BY <1>4, <2>1 DEF LeftOf
  <1>6. \A m \in visited : f[m] = Width[m] + BoxGap /\ f[m] \in Nat
    BY <1>1 DEF Gapped, BoxGap
  <1>7. Column(n) = half + 2 + h[LeftOf(n)]
    <2>1. MapThenSumSet(LAMBDA m : Width[m] + BoxGap, LeftOf(n)) = h[LeftOf(n)]
      BY <1>1, <1>3, <1>5, GappedWidthsAreSummed
    <2> QED
      BY <2>1 DEF Column
  <1> HIDE DEF rest, G, l, f
  <1>8. h[LeftOf(n)] \in Nat /\ h[rest] \in Nat /\ h[LeftOf(n)] <= h[rest]
    BY <1>1, <1>3, <1>5, <1>6, SumIsNumber, MoreIsNotLess
  <1>9. h[G] = Width[n] + BoxGap + h[rest]
    <2>1. \A x \in G : h[G] = f[x] + h[G \ {x}]
      <3>1. \A m \in visited : f[m] \in Nat
        BY <1>6
      <3>2. G \in SUBSET visited
        BY <1>4
      <3> QED
        BY <1>1, <1>3, <3>1, <3>2, TakeOneOut
    <2>2. h[G] = f[n] + h[rest]
      BY <1>4, <2>1 DEF rest
    <2> QED
      BY <1>6, <2>2
  <1>10. h[G] = g[G] + BoxGap * Cardinality(G)
    <2>1. BoxGap \in Nat
      BY DEF BoxGap
    <2> QED
      BY <1>1, <1>2, <1>3, <1>4, <1>6, <2>1, GapsAddUp
  <1>11. /\ LayerWidth(l) = g[G] + BoxGap * (Cardinality(G) - 1)
         /\ LayerWidth(l) \in Nat /\ LayerWidth(l) <= ContentWidth /\ ContentWidth \in Nat
    BY <1>2, <1>4, LayersFit DEF G
  <1>12. LayerWidth(l) = h[G] - 6
    <2>1. Cardinality(G) \in Nat /\ g[G] \in Nat
      BY <1>1, <1>2, <1>4, FS_CardinalityType, SumIsNumber
    <2> QED
      BY <1>10, <1>11, <2>1 DEF BoxGap
  <1>13. half \in Nat /\ half <= ContentWidth - LayerWidth(l)
    BY <1>11
  <1> HIDE DEF half
  <1>14. Right(n) = half + 2 + h[LeftOf(n)] + Width[n]
    BY <1>7 DEF Right
  <1> QED
    BY <1>1, <1>8, <1>9, <1>11, <1>12, <1>13, <1>14 DEF BoxGap

LEMMA HeightsFit ==
    ASSUME LInv, Drawn, NEW l \in 0..MaxLayer
    PROVE  LayerHeight(l) \in Nat /\ \A n \in Group(l) : Height[n] <= LayerHeight(l)
  <1>1. Group(l) # {} /\ IsFiniteSet(Group(l)) /\ \A n \in Group(l) : Height[n] \in Nat
    BY LayersAreFilled, DrawnIsLayered
  <1>2. LET M == Max({Height[n] : n \in Group(l)}) IN
        M \in Nat /\ \A n \in Group(l) : Height[n] <= M
    BY <1>1, MaxOfValues
  <1> QED
    BY <1>2 DEF LayerHeight

\* The rows of a box end above the last row of the grid, which stays free.
LEMMA RowsFit ==
    ASSUME LInv, Drawn, NEW n \in visited
    PROVE  /\ Row(n) \in Nat /\ Height[n] \in Nat /\ Height[n] >= 1
           /\ GridHeight \in Nat /\ Row(n) + Height[n] + 1 <= GridHeight
  <1> DEFINE D == 0..MaxLayer
             l == layers[n]
             above == 0..(l - 1)
             f == Heights(D)
             e == Gapped(f, RowGap, D)
  <1>1. MaxLayer \in Nat /\ l \in Nat /\ l \in D /\ l <= MaxLayer
    BY LayersAreFilled, DrawnIsLayered
  <1>2. IsFiniteSet(D)
    BY <1>1, FS_Interval
  <1>3. above \in SUBSET D /\ 0..l \in SUBSET D /\ (0..l) \ {l} = above /\ l \in 0..l
    BY <1>1
  <1>4. \A k \in D : f[k] = LayerHeight(k) /\ f[k] \in Nat /\ e[k] = f[k] + RowGap
    BY HeightsFit DEF Heights, Gapped
  <1>5. Cardinality(above) = l
    <2>1. 0 \in Int /\ l - 1 \in Int
      BY <1>1
    <2>2. Cardinality(above) = IF 0 > l - 1 THEN 0 ELSE l - 1 - 0 + 1
      BY <2>1, FS_Interval
    <2> QED
      BY <1>1, <2>2
  <1>6. /\ \A s \in SUBSET D : \A g : SumsUp(g, f, D) => MapThenSumSet(LayerHeight, s) = g[s]
        /\ \A s \in SUBSET D : \A g : SumsUp(g, e, D) =>
             MapThenSumSet(LAMBDA k : LayerHeight(k) + RowGap, s) = g[s]
    <2> HIDE DEF D
    <2> QED
      BY <1>2, HeightsAreSummed, GappedHeightsAreSummed
  <1>7. Row(n) = HeaderRows + MapThenSumSet(LAMBDA k : LayerHeight(k) + RowGap, above)
        /\ GridHeight = HeaderRows + MapThenSumSet(LayerHeight, D) + MaxLayer * RowGap + 1
    BY DEF Row, GridHeight
  <1> DEFINE upto == 0..l
  <1> HIDE DEF D, f, e, above, upto
  <1>8. PICK g : SumsUp(g, f, D)
    BY <1>2, SumExists
  <1>9. PICK h : SumsUp(h, e, D)
    BY <1>2, SumExists
  <1>10. /\ g[above] \in Nat /\ g[upto] \in Nat /\ g[D] \in Nat
         /\ g[upto] <= g[D]
    <2>1. upto \in SUBSET D
      BY <1>3 DEF upto
    <2> QED
      BY <1>2, <1>3, <1>4, <1>8, <2>1, SumIsNumber, MoreIsNotLess
  <1>11. g[upto] = LayerHeight(l) + g[above]
    <2>1. upto \in SUBSET D /\ l \in upto /\ upto \ {l} = above
      BY <1>3 DEF upto
    <2> QED
      <3>1. \A x \in upto : g[upto] = f[x] + g[upto \ {x}]
        <4>1. \A k \in D : f[k] \in Nat
          BY <1>4
        <4> QED
          BY <1>2, <1>8, <2>1, <4>1, TakeOneOut
      <3>2. g[upto] = f[l] + g[above]
        BY <2>1, <3>1
      <3> QED
        BY <1>1, <1>4, <3>2
  <1>12. h[above] = g[above] + RowGap * l
    <2>1. RowGap \in Nat
      BY DEF RowGap
    <2> QED
      BY <1>2, <1>3, <1>4, <1>5, <1>8, <1>9, <2>1, GapsAddUp
  <1>13. /\ Row(n) = HeaderRows + h[above]
         /\ GridHeight = HeaderRows + g[D] + MaxLayer * RowGap + 1
    <2>1. D \in SUBSET D
      OBVIOUS
    <2> QED
      BY <1>3, <1>6, <1>7, <1>8, <1>9, <2>1
  <1>14. n \in Group(l) /\ Height[n] <= LayerHeight(l) /\ LayerHeight(l) \in Nat
         /\ Height[n] \in Nat /\ Height[n] >= 1
    <2>1. n \in Group(l)
      BY DEF Group
    <2> QED
      BY <1>1, <2>1, HeightsFit, DrawnIsLayered DEF D
  <1>15. HeaderRows \in Nat
    BY LayoutAssumption
  <1> HIDE DEF l
  <1> QED
    BY <1>1, <1>10, <1>11, <1>12, <1>13, <1>14, <1>15 DEF RowGap

LEMMA CopiesAreSummed ==
    ASSUME NEW S, IsFiniteSet(S), NEW s \in SUBSET S, NEW g, SumsUp(g, Copies, S)
    PROVE  MapThenSumSet(LAMBDA e : Copies[e], s) = g[s]
  <1> DEFINE h == CHOOSE k : k = [t \in SUBSET s |-> IF t = {} THEN 0
                         ELSE Copies[CHOOSE x \in t : TRUE] + k[t \ {CHOOSE x \in t : TRUE}]]
  <1>1. \E k : SumsUp(k, Copies, s)
    BY SumExists, FS_Subset
  <1>2. SumsUp(h, Copies, s)
    BY <1>1 DEF SumsUp, Pick
  <1>3. MapThenSumSet(LAMBDA e : Copies[e], s) = h[s]
    BY DEF MapThenSumSet, MapThenFoldSet
  <1> QED
    BY <1>2, <1>3, SumsAgree

\* There are at least as many edges as pairs of nodes they join.
LEMMA EdgesOutnumberPairs ==
    ASSUME NEW S \in SUBSET (Names \X Names), IsFiniteSet(S)
    PROVE  /\ Number(S) \in Nat /\ (Number(S) = 0 <=> S = {})
           /\ Cardinality(S) \in Nat /\ Cardinality(S) <= Number(S)
  <1> DEFINE f == [e \in S |-> Copies[e] - 1]
  <1>1. \A e \in S : f[e] \in Nat /\ Copies[e] = f[e] + 1
    BY LayoutAssumption
  <1> HIDE DEF f
  <1>2. PICK g : SumsUp(g, f, S)
    BY SumExists
  <1>3. PICK h : SumsUp(h, Copies, S)
    BY SumExists
  <1>4. S \in SUBSET S
    OBVIOUS
  <1>5. g[S] \in Nat
    BY <1>1, <1>2, <1>4, SumIsNumber
  <1>6. h[S] = g[S] + 1 * Cardinality(S)
    <2>1. 1 \in Nat
      OBVIOUS
    <2> QED
      BY <1>1, <1>2, <1>3, <1>4, <2>1, GapsAddUp
  <1>7. Number(S) = h[S]
    BY <1>3, <1>4, CopiesAreSummed DEF Number
  <1>8. Cardinality(S) \in Nat /\ (Cardinality(S) = 0 <=> S = {})
    BY FS_CardinalityType, FS_EmptySet
  <1>9. S = {} => h[S] = 0
    BY <1>3, <1>4 DEF SumsUp
  <1> QED
    BY <1>5, <1>6, <1>7, <1>8, <1>9

\* The edges a layout counts, and those it counts columns for.
LEMMA EdgesAreCounted ==
    ASSUME LInv, Drawn
    PROVE  /\ Number(Back) \in Nat /\ (Number(Back) = 0 <=> Back = {})
           /\ Number(Skipping) \in Nat /\ (Number(Skipping) = 0 <=> Skipping = {})
           /\ Cardinality(Bypasses) \in Nat /\ Cardinality(Bypasses) <= Number(Skipping)
  <1>1. IsFiniteSet(visited \X visited) /\ visited \subseteq Names
    BY DrawnIsLayered, FS_Product DEF LInv, LayoutTypes, IInv, TypeOK
  <1>2. Back \in SUBSET (visited \X visited) /\ Skipping \in SUBSET (visited \X visited)
        /\ Bypasses \in SUBSET Skipping
    BY DEF Back, Skipping, Bypasses, Edges
  <1>3. IsFiniteSet(Back) /\ IsFiniteSet(Skipping)
    BY <1>1, <1>2, FS_Subset
  <1>4. IsFiniteSet(Bypasses) /\ Cardinality(Bypasses) <= Cardinality(Skipping)
    BY <1>2, <1>3, FS_Subset
  <1>5. Back \in SUBSET (Names \X Names) /\ Skipping \in SUBSET (Names \X Names)
    BY <1>1, <1>2
  <1>6. /\ Number(Back) \in Nat /\ (Number(Back) = 0 <=> Back = {})
        /\ Number(Skipping) \in Nat /\ (Number(Skipping) = 0 <=> Skipping = {})
        /\ Cardinality(Skipping) \in Nat /\ Cardinality(Skipping) <= Number(Skipping)
    BY <1>3, <1>5, EdgesOutnumberPairs
  <1>7. Cardinality(Bypasses) \in Nat
    BY <1>4, FS_CardinalityType
  <1> QED
    BY <1>4, <1>6, <1>7

\* The width of the grid has room for the layers, the loops and the edges that go
\* round, each with a label at its right.
LEMMA GridIsWide ==
    ASSUME LInv, Drawn
    PROVE  LET loops == IF Back = {} THEN 0 ELSE LoopMargin + 3 * Number(Back) + Label
               rounds == IF Skipping = {} THEN 0 ELSE 3 * Number(Skipping) + Label + 2
           IN  GridWidth \in Nat /\ ContentWidth + loops + rounds + 6 <= GridWidth
  <1> DEFINE loops == IF Back = {} THEN 0 ELSE LoopMargin + 3 * Number(Back) + Label
             rounds == IF Skipping = {} THEN 0 ELSE 3 * Number(Skipping) + Label + 2
             all == ContentWidth + loops + rounds + 6
  <1>1. ContentWidth \in Nat
    <2>1. PICK g : SumsUp(g, Width, visited)
      BY DrawnIsLayered, SumExists
    <2> QED
      BY <2>1, LayersFit
  <1>2. loops \in Nat /\ rounds \in Nat
    BY EdgesAreCounted DEF LoopMargin, Label
  <1>3. all \in Nat /\ HeaderWidth \in Nat
    BY <1>1, <1>2, LayoutAssumption
  <1>4. GridWidth = Max({all, HeaderWidth})
    BY DEF GridWidth
  <1> HIDE DEF all, loops, rounds
  <1>5. IsFiniteSet({all, HeaderWidth})
    <2>1. IsFiniteSet({all} \union {HeaderWidth})
      BY FS_Singleton, FS_Union
    <2>2. {all} \union {HeaderWidth} = {all, HeaderWidth}
      OBVIOUS
    <2> QED
      BY <2>1, <2>2
  <1>6. GridWidth \in {all, HeaderWidth} /\ \A y \in {all, HeaderWidth} : y <= GridWidth
    <2>1. {all, HeaderWidth} \subseteq Nat /\ {all, HeaderWidth} # {}
      BY <1>3
    <2> DEFINE S == {all, HeaderWidth}
    <2>2. IsFiniteSet(S) /\ S \subseteq Nat /\ S # {}
      BY <1>5, <2>1
    <2>3. GridWidth = Max(S)
      BY <1>4
    <2> HIDE DEF S
    <2>4. GridWidth \in S /\ \A y \in S : y <= GridWidth
      BY <2>2, <2>3, MaxIsGreatest
    <2> QED
      BY <2>4 DEF S
  <1> QED
    BY <1>3, <1>6 DEF all, loops, rounds

LEMMA MaxRightFits ==
    ASSUME LInv, Drawn, OrderIsOfNodes
    PROVE  MaxRight \in Nat /\ MaxRight <= ContentWidth + 2
  <1> DEFINE r == [n \in visited |-> Right(n)]
  <1>1. \A n \in visited : r[n] \in Nat /\ r[n] <= ContentWidth + 2
    BY ColumnsFit
  <1>2. MaxRight = Max({r[n] : n \in visited})
    BY DEF MaxRight
  <1>3. IsFiniteSet(visited) /\ visited # {}
    BY DrawnIsLayered
  <1> HIDE DEF r
  <1>4. MaxRight \in Nat /\ \E n \in visited : MaxRight = r[n]
    BY <1>1, <1>2, <1>3, MaxOfValues
  <1> QED
    BY <1>1, <1>4

LEMMA DrawnIsOnGrid ==
    ASSUME LInv, Drawn, OrderIsOfNodes
    PROVE  NothingIsClipped
  <1> DEFINE back == Number(Back)
             skip == Number(Skipping)
             around == Cardinality(Bypasses)
  <1>1. /\ back \in Nat /\ skip \in Nat /\ around \in Nat /\ around <= skip
        /\ (back = 0 <=> Back = {}) /\ (skip = 0 <=> Skipping = {})
    BY EdgesAreCounted
  <1>2. MaxRight \in Nat /\ MaxRight <= ContentWidth + 2
    BY MaxRightFits
  <1>3. ContentWidth \in Nat
    <2>1. PICK g : SumsUp(g, Width, visited)
      BY DrawnIsLayered, SumExists
    <2> QED
      BY <2>1, LayersFit
  <1>4. /\ GridWidth \in Nat
        /\ ContentWidth + (IF Back = {} THEN 0 ELSE 4 + 3 * back + 28)
             + (IF Skipping = {} THEN 0 ELSE 3 * skip + 28 + 2) + 6 <= GridWidth
    BY GridIsWide DEF LoopMargin, Label
  <1> HIDE DEF back, skip, around
  <1>5. \A n \in visited : Right(n) <= GridWidth /\ Row(n) + Height[n] <= GridHeight
    <2> TAKE n \in visited
    <2>1. Right(n) \in Nat /\ Right(n) <= ContentWidth + 2
      BY ColumnsFit
    <2>2. /\ Row(n) \in Nat /\ Height[n] \in Nat
          /\ GridHeight \in Nat /\ Row(n) + Height[n] + 1 <= GridHeight
      BY RowsFit
    <2>3. ContentWidth + 6 <= GridWidth
      BY <1>1, <1>3, <1>4
    <2> QED
      BY <1>3, <1>4, <2>1, <2>2, <2>3
  <1>6. \A e \in Back : \A r \in LoopRows(e) : r < GridHeight
    <2> TAKE e \in Back
    <2>1. e[1] \in visited /\ e[2] \in visited
      BY DEF Back, Edges
    <2>2. \A n \in visited : Row(n) + Height[n] < GridHeight /\ Row(n) + 1 < GridHeight
      <3> TAKE n \in visited
      <3>1. /\ Row(n) \in Nat /\ Height[n] \in Nat /\ Height[n] >= 1
            /\ GridHeight \in Nat /\ Row(n) + Height[n] + 1 <= GridHeight
        BY RowsFit
      <3> QED
        BY <3>1
    <2> QED
      BY <2>1, <2>2 DEF LoopRows
  <1>7. ASSUME NEW c \in LoopColumns
        PROVE  c \in Nat /\ c + 2 + Label <= GridWidth /\ c <= MaxRight + 3 * back
    <2>1. PICK i \in 0..(back - 1) : c = MaxRight + 3 + 3 * i
      BY DEF LoopColumns, back
    <2>2. Back # {} /\ i \in Nat /\ i <= back - 1
      BY <1>1, <2>1
    <2>3. ContentWidth + 4 + 3 * back + 28 + 6 <= GridWidth
      BY <1>1, <1>3, <1>4, <2>2
    <2> QED
      BY <1>1, <1>2, <1>3, <1>4, <2>1, <2>2, <2>3 DEF Label
  <1>8. ASSUME NEW c \in BypassColumns
        PROVE  c \in Nat /\ c + 2 + Label <= GridWidth /\ MaxRight + 3 * back + 6 <= c
    <2>1. PICK i \in 0..(around - 1) : c = MaxRight + 3 + 3 * back + 3 + 3 * i
      BY DEF BypassColumns, back, around
    <2>2. Skipping # {} /\ i \in Nat /\ i <= skip - 1
      BY <1>1, <2>1
    <2>3. ContentWidth + 3 * back + 3 * skip + 28 + 2 + 6 <= GridWidth
      BY <1>1, <1>3, <1>4, <2>2
    <2> QED
      BY <1>1, <1>2, <1>3, <1>4, <2>1, <2>2, <2>3 DEF Label
  <1>9. LoopColumns \cap BypassColumns = {}
    <2> SUFFICES ASSUME NEW c \in LoopColumns, c \in BypassColumns  PROVE FALSE
      OBVIOUS
    <2>1. c \in Nat /\ c <= MaxRight + 3 * back /\ MaxRight + 3 * back + 6 <= c
      BY <1>7, <1>8
    <2> QED
      BY <1>1, <1>2, <2>1
  <1> QED
    BY <1>5, <1>6, <1>7, <1>8, <1>9 DEF NothingIsClipped

\* The order of the boxes is chosen once, when every node has its layer.
LEMMA OrderIsKept == LInv /\ OrderIsOfNodes /\ [LayoutNext]_<<vars, layoutVars>> => OrderIsOfNodes'
  <1> SUFFICES ASSUME LInv, OrderIsOfNodes, [LayoutNext]_<<vars, layoutVars>>, order' # <<>>
               PROVE  order' \in SetToSeqs(visited')
    BY DEF OrderIsOfNodes, Drawn
  <1>1. CASE Place
    <2>1. order' \in SetToSeqs(visited) /\ visited' = visited
      BY <1>1 DEF Place
    <2> QED
      BY <2>1 DEF SetToSeqs
  <1>2. CASE order' = order
    <2>1. order # <<>> /\ layers # <<>> /\ path = <<>> /\ visited # {}
      BY <1>2 DEF LInv, Phases
    <2>2. order \in SetToSeqs(visited)
      BY <2>1 DEF OrderIsOfNodes, Drawn
    <2>3. visited' = visited
      BY <2>1 DEF LayoutNext, Validate, Begin, Search, Return, Sort, Place, Finished, layoutVars
    <2> QED
      BY <1>2, <2>2, <2>3 DEF SetToSeqs
  <1>3. Place \/ order' = order
    BY DEF LayoutNext, Validate, Begin, Search, Return, Sort, Finished, layoutVars
  <1> QED
    BY <1>1, <1>2, <1>3

\* For every graph, every size of the boxes and every order in a layer: all that
\* is drawn is on the grid (graph.py:115-120, 290-311, 511-575).
THEOREM GridHoldsAll == LayoutSpec => []NothingIsClipped
  <1>1. LayoutInit => OrderIsOfNodes
    BY DEF LayoutInit, OrderIsOfNodes, Drawn
  <1>2. LInv /\ OrderIsOfNodes => NothingIsClipped
    BY DrawnIsOnGrid DEF NothingIsClipped
  <1> QED
    BY <1>1, <1>2, OrderIsKept, LayoutInvariant, PTL DEF LayoutSpec
=============================================================================
