-------------------------- MODULE MCExecutorMemory --------------------------
(* Threads, handles, pools and blocks are interchangeable.                 *)
EXTENDS ExecutorMemory, TLC

Symmetry ==
    Permutations(Thread) \cup Permutations(Handle)
        \cup Permutations(Index) \cup Permutations(Block)
=============================================================================
