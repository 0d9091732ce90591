---------------------------- MODULE GraphLayout ----------------------------
(***************************************************************************)
(* The layout of render_workflow_graph (workflow/graph.py) for a           *)
(* definition the validator has accepted: the search for edges that close  *)
(* a cycle, the topological sort with longest paths that gives every node  *)
(* a layer, and the places of boxes, of the loops on their right and of    *)
(* the edges that go round a box, on a grid whose size is computed first   *)
(* and which drops what falls outside it.                                  *)
(*                                                                         *)
(* The edges of a node are visited in any order, and so are the nodes of a *)
(* set.  Edges that lead from one node to the same other, one for each     *)
(* signal, are one edge of the search, which a second one does not change, *)
(* and are counted one by one where the code has a column for each.        *)
(* Characters are not modelled; a label has its greatest length.           *)
(***************************************************************************)
EXTENDS GraphValidation, Naturals, Sequences, SequencesExt, FiniteSetsExt

CONSTANTS
    Width, Height,        \* [Names -> size of the node's box]
    Copies,               \* how many edges lead from one name to another, if any does
    HeaderRows, HeaderWidth

\* A definition is finite, and no box is without rows (graph.py:51-57).
ASSUME LayoutAssumption ==
    /\ IsFiniteSet(Names)
    /\ Width \in [Names -> Nat] /\ Height \in [Names -> Nat \ {0}]
    /\ Copies \in [Names \X Names -> Nat \ {0}]
    /\ HeaderRows \in Nat /\ HeaderWidth \in Nat

BoxGap == 6        \* _H_GAP
RowGap == 5        \* _V_GAP
LoopMargin == 4    \* _BACK_MARGIN
Label == 28        \* _MAX_LABEL and two brackets

VARIABLES
    path,        \* the recursion of _dfs, the running call last; its names are on_stack
    visited,
    explored,    \* edges _dfs is done with
    closing,     \* back_edges
    sorted,      \* the nodes in topo
    layers,
    order        \* of the boxes of a layer, from left to right; empty until they are placed

layoutVars == <<path, visited, explored, closing, sorted, layers, order>>

LayoutInit ==
    /\ Init
    /\ path = <<>> /\ visited = {} /\ explored = {} /\ closing = {}
    /\ sorted = {} /\ layers = [n \in {} |-> 0] /\ order = <<>>

Validate == (Visit \/ Conclude) /\ UNCHANGED layoutVars

----------------------------------------------------------------------------
(* _assign_layers: edges that close a cycle *)

Enter(name) ==
    /\ path' = Append(path, name)
    /\ visited' = visited \union {name}

Begin ==
    /\ verdict = "accepted" /\ visited = {}
    /\ Enter(start)
    /\ UNCHANGED <<vars, explored, closing, sorted, layers, order>>

\* Variant: an edge to any node seen before closes a cycle.
ExploreSeen(name, target) ==
    /\ explored' = explored \union {<<name, target>>}
    /\ closing' = IF target \in visited THEN closing \union {<<name, target>>} ELSE closing
    /\ IF target \in visited THEN UNCHANGED <<path, visited>> ELSE Enter(target)

\* An edge to a node whose call is still running closes a cycle; one to a node
\* not seen yet is followed at once.
Explore(name, target) ==
    /\ explored' = explored \union {<<name, target>>}
    /\ closing' = IF target \in ToSet(path) THEN closing \union {<<name, target>>} ELSE closing
    /\ IF target \in visited THEN UNCHANGED <<path, visited>> ELSE Enter(target)

Search ==
    /\ path # <<>>
    /\ \E target \in targets[Last(path)] :
         <<Last(path), target>> \notin explored /\ Explore(Last(path), target)
    /\ UNCHANGED <<vars, sorted, layers, order>>

Return ==
    /\ path # <<>>
    /\ \A target \in targets[Last(path)] : <<Last(path), target>> \in explored
    /\ path' = Front(path)
    /\ layers' = IF Len(path) = 1 THEN [n \in visited |-> 0] ELSE layers
    /\ UNCHANGED <<vars, visited, explored, closing, sorted, order>>

----------------------------------------------------------------------------
(* _assign_layers: the sort, and the longest path to every node *)

Forward(name) == {t \in targets[name] \cap visited : <<name, t>> \notin closing}

\* The queue of the sort: nodes whose in-degree has gone down to nothing.
Ready == {n \in visited \ sorted : \A m \in visited : n \in Forward(m) => m \in sorted}

Sort ==
    /\ layers # <<>> /\ order = <<>>
    /\ \E name \in Ready :
        /\ sorted' = sorted \union {name}
        /\ layers' = [n \in visited |->
             IF n \in Forward(name) /\ layers[n] <= layers[name] THEN layers[name] + 1
             ELSE layers[n]]
    /\ UNCHANGED <<vars, path, visited, explored, closing, order>>

\* Boxes of one layer come in the order of the set they were in.
Place ==
    /\ layers # <<>> /\ order = <<>> /\ Ready = {}
    /\ order' \in SetToSeqs(visited)
    /\ UNCHANGED <<vars, path, visited, explored, closing, sorted, layers>>

----------------------------------------------------------------------------
(* render_workflow_graph: the size of the grid *)

MaxLayer == Max({layers[n] : n \in visited})
Group(l) == {n \in visited : layers[n] = l}

\* _classify_edges goes by the layers alone.
IsBack(n, t) == layers[t] < layers[n] \/ t = n
Edges == {e \in visited \X visited : e[2] \in targets[e[1]]}
Back == {e \in Edges : IsBack(e[1], e[2])}
Skipping == {e \in Edges \ Back : layers[e[2]] > layers[e[1]] + 1}
Number(edges) == MapThenSumSet(LAMBDA e : Copies[e], edges)

LayerWidth(l) == MapThenSumSet(LAMBDA n : Width[n], Group(l)) + BoxGap * (Cardinality(Group(l)) - 1)
LayerHeight(l) == Max({Height[n] : n \in Group(l)})
ContentWidth == Max({LayerWidth(l) : l \in 0..MaxLayer})

GridWidth ==
    LET loops == IF Back = {} THEN 0 ELSE LoopMargin + 3 * Number(Back) + Label
        rounds == IF Skipping = {} THEN 0 ELSE 3 * Number(Skipping) + Label + 2
    IN  Max({ContentWidth + loops + rounds + 6, HeaderWidth})

\* Variant: no row is left below the last boxes.
GridHeightOfBoxes ==
    HeaderRows + MapThenSumSet(LayerHeight, 0..MaxLayer) + MaxLayer * RowGap

GridHeight ==
    HeaderRows + MapThenSumSet(LayerHeight, 0..MaxLayer) + MaxLayer * RowGap + 1

----------------------------------------------------------------------------
(* render_workflow_graph: places *)

Position(n) == CHOOSE i \in DOMAIN order : order[i] = n
LeftOf(n) == {m \in Group(layers[n]) : Position(m) < Position(n)}

Column(n) ==
    (ContentWidth - LayerWidth(layers[n])) \div 2 + 2
        + MapThenSumSet(LAMBDA m : Width[m] + BoxGap, LeftOf(n))

Row(n) == HeaderRows + MapThenSumSet(LAMBDA l : LayerHeight(l) + RowGap, 0..(layers[n] - 1))

Centre(n) == Column(n) + Width[n] \div 2
Right(n) == Column(n) + Width[n]
MaxRight == Max({Right(n) : n \in visited})

\* A node with several targets below sends those round that would cross a box;
\* the edges to one target are drawn as one.
Bypasses ==
    {e \in Skipping :
        /\ Cardinality({t \in targets[e[1]] : layers[t] > layers[e[1]]}) > 1
        /\ \E n \in visited :
             /\ layers[n] \in (layers[e[1]] + 1)..(layers[e[2]] - 1)
             /\ Centre(e[2]) \in Column(n)..(Right(n) - 1)}

LoopColumns == {MaxRight + 3 + 3 * i : i \in 0..(Number(Back) - 1)}
LoopRows(e) == {Row(e[1]) + Height[e[1]], Row(e[2]) + 1}

BypassColumns ==
    {MaxRight + 3 + 3 * Number(Back) + 3 + 3 * i : i \in 0..(Cardinality(Bypasses) - 1)}

----------------------------------------------------------------------------
Drawn == order # <<>>
Finished == (verdict = "rejected" \/ Drawn) /\ UNCHANGED <<vars, layoutVars>>

LayoutNext == Validate \/ Begin \/ Search \/ Return \/ Sort \/ Place \/ Finished

LayoutSpec == LayoutInit /\ [][LayoutNext]_<<vars, layoutVars>>

----------------------------------------------------------------------------
(* Properties *)

\* What a search that starts at n reaches.
Reach(n) == {m \in Nodes : \A S \in SUBSET Nodes :
                 (n \in S /\ \A k \in S : targets[k] \subseteq S) => m \in S}

\* Whatever the order in which the edges are written: every edge leads down to
\* another layer or is drawn as a loop, what is drawn as a loop closes a cycle,
\* an acyclic definition has no loop, and a box below the first layer is next to
\* one that leads to it.  So no edge joins two boxes of one layer, although the
\* code draws such edges (graph.py:174-178, 226-240, 390-413).
LayersGrow ==
    Drawn =>
        /\ visited = Nodes
        /\ \A e \in Edges : layers[e[2]] > layers[e[1]] \/ e \in Back
        /\ \A e \in Back : e[1] \in Reach(e[2])
        /\ \A n \in visited :
             layers[n] > 0 => \E m \in visited : n \in targets[m] /\ layers[m] + 1 = layers[n]

\* Everything that is drawn is on the grid, which drops the rest without a word:
\* the boxes, the row under the last ones, the loops, the edges that go round
\* and the labels at their right (graph.py:115-120, 290-311, 511-575).
NothingIsClipped ==
    Drawn =>
        /\ \A n \in visited : Right(n) <= GridWidth /\ Row(n) + Height[n] <= GridHeight
        /\ \A e \in Back : \A r \in LoopRows(e) : r < GridHeight
        /\ \A c \in LoopColumns \union BypassColumns : c + 2 + Label <= GridWidth
        /\ LoopColumns \cap BypassColumns = {}
=============================================================================
