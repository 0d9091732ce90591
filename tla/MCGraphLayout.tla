--------------------------- MODULE MCGraphLayout ---------------------------
(* Every definition over three names; one of the boxes is wide and high, and *)
(* the edges to it come in pairs.                                            *)
EXTENDS GraphLayout

CONSTANTS n1, n2, n3

MCWidth == [n \in Names |-> IF n = n2 THEN 31 ELSE 14]
MCHeight == [n \in Names |-> IF n = n2 THEN 6 ELSE 3]
MCCopies == [e \in Names \X Names |-> IF e[2] = n2 THEN 2 ELSE 1]
=============================================================================
