----------------------------- MODULE MCSigTable -----------------------------
(* SigTable for TLC: processes, variables and blocks are interchangeable.  *)
EXTENDS SigTable

Interchangeable == Permutations(Proc) \cup Permutations(Var) \cup Permutations(Blk)
=============================================================================
