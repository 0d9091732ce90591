--------------------------- MODULE MCParallelNode ---------------------------
(* Two branches, in the order of the definition. *)
EXTENDS ParallelNode

CONSTANTS lint, tests

TwoInOrder == <<lint, tests>>
=============================================================================
