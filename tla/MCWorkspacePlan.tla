-------------------------- MODULE MCWorkspacePlan --------------------------
(* Storages are interchangeable: their sizes are part of the state.        *)
EXTENDS WorkspacePlan, TLC

StorageSymmetry == Permutations(Storage)
=============================================================================
