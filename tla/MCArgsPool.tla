----------------------------- MODULE MCArgsPool -----------------------------
(***************************************************************************)
(* Keys of one of two inputs and one of two core numbers.  The seed tells  *)
(* the core numbers apart but not the inputs, and a key that lacks its     *)
(* input is the same for both.                                             *)
(***************************************************************************)
EXTENDS ArgsPool, TLC

CONSTANTS Input, Cores

MCPart == Input \cup Cores
MCKey == {<<i, c>> : i \in Input, c \in Cores}
MCSeed == [t \in Text |-> IF t # <<>> /\ t[Len(t)] = 2 THEN 2 ELSE 1]

Symmetry == Permutations(Executor) \cup Permutations(Heap) \cup Permutations(Input)
=============================================================================
