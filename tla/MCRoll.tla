------------------------------- MODULE MCRoll -------------------------------
(* Roll for TLC: the starts, and the places of the nodes, are each         *)
(* interchangeable.                                                        *)
EXTENDS Roll, TLC

Interchangeable == Permutations(Attempt) \cup Permutations(Node)
=============================================================================
