------------------------------ MODULE Kernels ------------------------------
(***************************************************************************)
(* AI Core kernels: their selection, their launch, and launches on two     *)
(* streams.  KernelMgr::Run goes through the three one after the other,    *)
(* and no state is shared between them: a behaviour is one of them, with   *)
(* the others at rest.                                                     *)
(***************************************************************************)
EXTENDS StaticKernels, KernelLaunch, SplitLaunch

VARIABLE part    \* which of the three a behaviour is of

vars == <<staticVars, launchVars, splitVars, part>>

Init ==
    /\ StaticInit /\ LaunchInit /\ SplitInit
    /\ part \in {"select", "launch", "split"}
    /\ part = "launch" <=> \E r \in Runner : at[r] # "absent"

Select == part = "select" /\ StaticNext /\ UNCHANGED <<launchVars, splitVars, part>>
LaunchOne == part = "launch" /\ LaunchNext /\ UNCHANGED <<staticVars, splitVars, part>>
Split == part = "split" /\ SplitNext /\ UNCHANGED <<staticVars, launchVars, part>>

Next == Select \/ LaunchOne \/ Split

Fairness == \A t \in Thread : WF_vars(Select /\ StaticStep(t))

Spec == Init /\ [][Next]_vars /\ Fairness
=============================================================================
