------------------------------ MODULE MCOpenMP ------------------------------
(* The programs of one run, with fib(4). *)
EXTENDS OpenMP

RunPrograms == LoopPrograms \cup TaskPrograms(4)
=============================================================================
