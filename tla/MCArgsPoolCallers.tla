------------------------- MODULE MCArgsPoolCallers -------------------------
(***************************************************************************)
(* Both kinds of processes for TLC.  Where the profiling switch is turned, *)
(* the core numbers stay as they are and tilings succeed.                  *)
(***************************************************************************)
EXTENDS ArgsPoolCallers, MCArgsPool

MCNext ==
    /\ CallerNext
    /\ caller = "records" =>
         \A e \in Executor : phase'[e] # "failed" /\ wanted'[e] \notin Input \X {2}

MCSpec == CallerInit /\ [][MCNext]_<<vars, caller>>

\* What can still be read: executor->args and the key of an executor at work,
\* and the contents of arguments that are allocated or in use.  The rest is
\* written before it is read again.
InUse(a) == a \in alive \/ (a \in Executor /\ Holds(a) /\ args[a] = a)
Asks(e) == phase[e] \notin {"idle", "released"}
Readable ==
    <<phase, added, isCachedArgs, enableCache, repeatable, alive, isVist,
      poolVars, recording, caller,
      [e \in Executor |-> IF Holds(e) THEN args[e] ELSE None],
      [e \in Executor |-> IF Asks(e) THEN <<wanted[e], text[e]>> ELSE None],
      [a \in Args |-> IF InUse(a) THEN <<key[a], tiled[a]>> ELSE None]>>
=============================================================================
