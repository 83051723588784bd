------------------------------ MODULE MCBlock ------------------------------
(* Model checking of Block: the processes other than the one that starts as *)
(* the last writer are interchangeable when all or none of them have a cell. *)
EXTENDS Block, TLC

Interchangeable == Permutations(Proc \ {InitWriter})
=============================================================================
