----------------------------- MODULE MCEstateRun -----------------------------
(* EstateRun for TLC: two consoles and two runs over two process ids.  The *)
(* consoles, the runs and the ids are each interchangeable.                *)
EXTENDS EstateRun, TLC

(* The runs begin within five seconds of each other, so the one given the  *)
(* other's id passes for it; another program, or a later pwsh, does not.   *)
MCAlike == [r \in Run |-> Run]

Interchangeable == Permutations(Console) \cup Permutations(Run) \cup Permutations(Pid)
=============================================================================
