------------------------------ MODULE MCService ------------------------------
(* Service for TLC: orders are interchangeable until they are left.        *)
EXTENDS Service, TLC

OrderSymmetry == Permutations(Order)
==============================================================================
