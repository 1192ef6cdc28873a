-------------------------- MODULE ArgsPoolCallers --------------------------
(***************************************************************************)
(* The pool of launch arguments in two kinds of processes: one in which    *)
(* callers make executors repeatable, and one in which the profiling       *)
(* switch is turned while they work.  (In a process that does both, a      *)
(* repeatable executor may have its embedded arguments put into the pool,  *)
(* from where they are deleted; see OnlyMadeArgs.)                         *)
(***************************************************************************)
EXTENDS ArgsPool

VARIABLE caller   \* what the callers of this process do

CallerInit == Init /\ caller \in {"repeats", "records"}

CallerNext ==
    /\ Next
    /\ caller = "repeats" => recording' = recording
    /\ caller = "records" => repeatable' = repeatable
    /\ UNCHANGED caller

CallerSpec == CallerInit /\ [][CallerNext]_<<vars, caller>>
-----------------------------------------------------------------------------
(* Properties.                                                             *)

\* The pool never loses track of what it has allocated.  Where executors are
\* repeatable, nothing stays pinned that nobody works with: such an entry is
\* lost to MatchArgs and, as the oldest one, stops Put from evicting.  Where
\* they are not, whatever is allocated can be matched and evicted, however the
\* profiling switch is turned between the two entries of phase one.
KeepsTrack == IF caller = "repeats" THEN PinsHeld ELSE NothingLost

\* Parts of the inductive invariant.  With repeatable executors the cache is
\* used unless its limit is 0; a process that switches recording fixes nothing.
Habits ==
    /\ caller \in {"repeats", "records"}
    /\ caller = "repeats" =>
         /\ ~recording
         /\ \A e \in Executor : /\ phase[e] = "missed" => ~isCachedArgs[e]
                                /\ MaxCacheNum > 0 => enableCache[e] /\ args[e] # e
    /\ caller = "records" =>
         /\ \A e \in Executor : ~repeatable[e]
         /\ \A s \in Seeds : fixedCacheMap[s] = {}

\* Fixed arguments are filed under the seed of their key.
Fixed == \A s \in Seeds : \A a \in fixedCacheMap[s] :
           a \in alive /\ key[a] \in Text /\ Seed[key[a]] = s

\* Arguments in use that are in the LRU list can be found under the seed of
\* the key they are used for: FixCache takes them out of both or of neither.
HeldMapped == \A e \in Executor : Holds(e) /\ args[e] \in argsCache =>
                args[e] \in argsMap[Seed[text[e]]]

Tidy == Consistent /\ Fixed /\ HeldMapped

\* Embedded arguments stay out of the pool.
Managed == MaxCacheNum > 0 \/ caller = "records"

CallerInv == IndInv /\ Habits /\ KeepsTrack /\ (Managed => Tidy)
=============================================================================
