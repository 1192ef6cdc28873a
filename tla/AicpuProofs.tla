---------------------------- MODULE AicpuProofs ----------------------------
(***************************************************************************)
(* AI CPU tasks, for any number of threads, executors, streams, sessions   *)
(* and workers.                                                            *)
(***************************************************************************)
EXTENDS AicpuTask, BasicFacts, FiniteSetTheorems, SequenceTheorems, TLAPS

-----------------------------------------------------------------------------
(* The host: who holds a task                                              *)

\* A step of executor e that holds no launcher more, and that gives back no
\* task but one of a launcher it no longer holds, keeps tasks exclusive.
LEMMA HoldsNoMore ==
    ASSUME HostInv, NEW e \in Executor,
           \A f \in Executor : f # e => execs'[f] = execs[f],
           \A p \in Held(execs'[e]) :
               p \in Held(execs[e]) /\ execs'[e].list[p] = execs[e].list[p],
           \A i \in DOMAIN tasks : tasks[i].visit => tasks'[i].visit \/
               \E q \in Held(execs[e]) \ Held(execs'[e]) : execs[e].list[q] = i
    PROVE  HeldVisited' /\ TaskExclusive'
<1>1. \A f \in Executor : \A p \in Held(execs'[f]) :
          p \in Held(execs[f]) /\ execs'[f].list[p] = execs[f].list[p]
  OBVIOUS
<1>2. TaskExclusive'
  BY <1>1 DEF HostInv, TaskExclusive
<1>3. ASSUME NEW f \in Executor, NEW p \in Held(execs'[f])
      PROVE  tasks'[execs'[f].list[p]].visit
  <2>1. PICK i : i = execs[f].list[p]
    OBVIOUS
  <2>2. i \in DOMAIN tasks /\ tasks[i].visit
    BY <1>1, <1>3, <2>1 DEF HostInv, HeldVisited, ListFits, Held
  <2>3. ASSUME NEW q \in Held(execs[e]) \ Held(execs'[e]), execs[e].list[q] = i PROVE FALSE
    BY <1>1, <1>3, <2>1, <2>3 DEF HostInv, TaskExclusive
  <2> QED BY <1>1, <1>3, <2>1, <2>2, <2>3
<1> QED BY <1>2, <1>3 DEF HeldVisited

\* FindTask takes a task that was found.
LEMMA FirstFound ==
    ASSUME HostTypeOK, NEW t, NEW kind, Found(t, kind) # {}
    PROVE  /\ First(Found(t, kind)) \in DOMAIN tasks
           /\ ~tasks[First(Found(t, kind))].visit
<1>1. PICK S : S = Found(t, kind)
  OBVIOUS
<1>2. S \subseteq DOMAIN tasks /\ S \subseteq Nat /\ \A i \in S : ~tasks[i].visit
  BY <1>1 DEF HostTypeOK, Found
<1>3. \E m \in S : \A k \in S : m <= k
  BY <1>1, <1>2, LeastNatural
<1>4. First(S) \in S
  BY <1>3 DEF First
<1> QED BY <1>1, <1>2, <1>4

\* Writing one task of the space.
LEMMA TaskWritten ==
    ASSUME NEW ts \in Seq(Task), NEW i \in DOMAIN ts, NEW t \in Task
    PROVE  /\ [ts EXCEPT ![i] = t] \in Seq(Task) /\ DOMAIN [ts EXCEPT ![i] = t] = DOMAIN ts
           /\ [ts EXCEPT ![i] = t][i] = t
           /\ \A k \in DOMAIN ts : k # i => [ts EXCEPT ![i] = t][k] = ts[k]
  BY ExceptSeq

\* SetVisit.
LEMMA VisitWritten ==
    ASSUME NEW ts \in Seq(Task), NEW i \in DOMAIN ts, NEW v \in BOOLEAN
    PROVE  /\ [ts EXCEPT ![i].visit = v] \in Seq(Task)
           /\ DOMAIN [ts EXCEPT ![i].visit = v] = DOMAIN ts
           /\ [ts EXCEPT ![i].visit = v][i].visit = v
           /\ \A k \in DOMAIN ts : k # i => [ts EXCEPT ![i].visit = v][k] = ts[k]
<1>1. PICK t : t = [ts[i] EXCEPT !.visit = v]
  OBVIOUS
<1>2. t \in Task /\ t.visit = v
  <2>1. ts[i] \in Task
    OBVIOUS
  <2> QED BY <1>1, <2>1 DEF Task
<1>3. [ts EXCEPT ![i].visit = v] = [ts EXCEPT ![i] = t]
  BY <1>1
<1> QED BY <1>2, <1>3, TaskWritten

\* A launcher is added for a task that nobody holds.
LEMMA Added ==
    ASSUME HostInv, NEW e \in Executor, NEW i \in Nat, i # 0,
           execs[e].st \in {"free", "open"},
           execs' = [execs EXCEPT ![e].st = "open", ![e].list = Append(@, i)],
           tasks' \in Seq(Task), DOMAIN tasks \subseteq DOMAIN tasks', i \in DOMAIN tasks',
           tasks'[i].visit, i \in DOMAIN tasks => ~tasks[i].visit,
           \A k \in DOMAIN tasks : k # i => tasks'[k].visit = tasks[k].visit,
           gKernelId' \in Nat, left' = left
    PROVE  HostInv'
<1>1. HostTypeOK /\ HeldVisited /\ TaskExclusive /\ \A f \in Executor : ListFits(execs[f])
  BY DEF HostInv
<1>2. PICK x : x = execs[e]
  OBVIOUS
<1>a. PICK n : n = Len(x.list)
  OBVIOUS
<1>b. PICK y : y = [x EXCEPT !.st = "open", !.list = Append(x.list, i)]
  OBVIOUS
<1>c. x \in Call /\ x.list \in Seq(Nat) /\ n \in Nat /\ DOMAIN x.list = 1 .. n
  BY <1>1, <1>2, <1>a DEF HostTypeOK, Call
<1>3. execs' = [execs EXCEPT ![e] = y]
  BY <1>1, <1>2, <1>b, <1>c DEF HostTypeOK, Call
<1>4. /\ y \in Call /\ y.st = "open"
      /\ y.list = Append(x.list, i) /\ DOMAIN y.list = 1 .. n + 1
      /\ y.list[n + 1] = i /\ \A p \in 1 .. n : y.list[p] = x.list[p]
  <2>1. PICK l : l = Append(x.list, i)
    OBVIOUS
  <2>2. /\ l \in Seq(Nat) /\ DOMAIN l = 1 .. n + 1
        /\ l[n + 1] = i /\ \A p \in 1 .. n : l[p] = x.list[p]
    BY <1>a, <1>c, <2>1
  <2>3. y = [x EXCEPT !.st = "open", !.list = l]
    BY <1>b, <2>1
  <2>4. y \in Call /\ y.st = "open" /\ y.list = l
    BY <1>c, <2>2, <2>3 DEF Call
  <2> QED BY <2>1, <2>2, <2>4
<1>5. execs'[e] = y /\ \A f \in Executor : f # e => execs'[f] = execs[f]
  BY <1>1, <1>3 DEF HostTypeOK
<1>6. HostTypeOK'
  <2>1. execs' \in [Executor -> Call]
    BY <1>1, <1>3, <1>4 DEF HostTypeOK
  <2> QED BY <1>1, <2>1 DEF HostTypeOK
<1>7. \A p \in 1 .. n : p \in Held(x) /\ x.list[p] \in DOMAIN tasks
  <2>1. ListFits(x) /\ x.st \in {"free", "open"}
    BY <1>1, <1>2
  <2>2. x.st = "free" => x.list = << >>
    BY <2>1 DEF ListFits, Free
  <2>3. x.st = "free" => n = 0
    BY <1>a, <2>2
  <2> QED BY <1>c, <2>1, <2>3 DEF Held, ListFits
<1>8. \A f \in Executor : \A p \in Held(execs[f]) :
          /\ execs[f].list[p] \in DOMAIN tasks /\ execs[f].list[p] # i
          /\ tasks'[execs[f].list[p]].visit
  BY <1>1 DEF HeldVisited, ListFits, Held
<1>9. Held(y) = 1 .. n + 1
  BY <1>4 DEF Held
<1>10. \A p \in 1 .. n + 1 : p = n + 1 \/ p \in 1 .. n
  BY <1>c
<1>d. \A f \in Executor : \A p \in Held(execs'[f]) :
          \/ f = e /\ p = n + 1 /\ execs'[f].list[p] = i
          \/ p \in Held(execs[f]) /\ execs'[f].list[p] = execs[f].list[p]
  <2> TAKE f \in Executor
  <2>1. CASE f # e
    BY <1>5, <2>1
  <2>2. CASE f = e
    <3>1. Held(execs'[f]) = 1 .. n + 1 /\ execs'[f].list = y.list /\ execs[f] = x
      BY <1>2, <1>5, <1>9, <2>2
    <3> TAKE p \in Held(execs'[f])
    <3>2. CASE p = n + 1
      BY <1>4, <2>2, <3>1, <3>2
    <3>3. CASE p \in 1 .. n
      <4>1. y.list[p] = x.list[p] /\ p \in Held(x)
        BY <1>4, <1>7, <3>3
      <4> QED BY <3>1, <4>1
    <3> QED BY <1>10, <3>1, <3>2, <3>3
  <2> QED BY <2>1, <2>2
<1>11. HeldVisited'
  BY <1>8, <1>d DEF HeldVisited
<1>12. TaskExclusive'
  <2>1. ASSUME NEW f \in Executor, NEW g \in Executor, NEW p \in Held(execs'[f]),
               NEW q \in Held(execs'[g]), execs'[f].list[p] = execs'[g].list[q]
        PROVE  f = g /\ p = q
    <3>1. \/ f = e /\ p = n + 1 /\ execs'[f].list[p] = i
          \/ p \in Held(execs[f]) /\ execs'[f].list[p] = execs[f].list[p]
      BY <1>d, <2>1
    <3>2. \/ g = e /\ q = n + 1 /\ execs'[g].list[q] = i
          \/ q \in Held(execs[g]) /\ execs'[g].list[q] = execs[g].list[q]
      BY <1>d, <2>1
    <3>3. CASE p \in Held(execs[f]) /\ q \in Held(execs[g])
      <4>a. n + 1 \notin Held(execs[e])
        BY <1>2, <1>c DEF Held
      <4>1. execs'[f].list[p] = execs[f].list[p] /\ execs'[g].list[q] = execs[g].list[q]
        BY <3>1, <3>2, <3>3, <4>a
      <4>2. execs[f].list[p] = execs[g].list[q]
        BY <2>1, <4>1
      <4> QED BY <1>1, <3>3, <4>2 DEF TaskExclusive
    <3>4. CASE p \notin Held(execs[f])
      BY <1>8, <2>1, <3>1, <3>2, <3>4
    <3>5. CASE q \notin Held(execs[g])
      BY <1>8, <2>1, <3>1, <3>2, <3>5
    <3> QED BY <3>3, <3>4, <3>5
  <2> QED BY <2>1 DEF TaskExclusive
<1>13. ASSUME NEW f \in Executor PROVE ListFits(execs[f])'
  <2>1. CASE f # e
    BY <1>1, <1>5, <2>1 DEF ListFits
  <2>2. CASE f = e
    <3>1. \A p \in DOMAIN y.list : y.list[p] \in DOMAIN tasks'
      BY <1>4, <1>7, <1>10
    <3>2. y.list # << >>
      BY <1>c, <1>4, SMT
    <3> QED BY <1>4, <1>5, <2>2, <3>1, <3>2 DEF ListFits
  <2> QED BY <2>1, <2>2
<1> QED BY <1>6, <1>11, <1>12, <1>13 DEF HostInv

\* CreatAicpuKernelLauncher.
LEMMA AddLauncherKeeps ==
    ASSUME HostInv, NEW t \in Thread, NEW e \in Executor, NEW kind \in Kind,
           AddLauncher(t, e, kind)
    PROVE  HostInv'
<1>1. HostTypeOK
  BY DEF HostInv
<1>2. execs[e].st \in {"free", "open"} /\ left' = left
  BY DEF AddLauncher
<1>3. CASE Found(t, kind) # {}
  <2>1. PICK i : i = First(Found(t, kind))
    OBVIOUS
  <2>2. i \in DOMAIN tasks /\ ~tasks[i].visit /\ i \in Nat /\ i # 0
    BY <1>1, <1>3, <2>1, FirstFound DEF HostTypeOK
  <2>3. /\ tasks' = [tasks EXCEPT ![i].visit = TRUE] /\ gKernelId' = gKernelId
        /\ execs' = [execs EXCEPT ![e].st = "open", ![e].list = Append(@, i)]
    BY <1>3, <2>1 DEF AddLauncher
  <2>4. /\ tasks' \in Seq(Task) /\ DOMAIN tasks' = DOMAIN tasks /\ tasks'[i].visit
        /\ \A k \in DOMAIN tasks : k # i => tasks'[k].visit = tasks[k].visit
    BY <1>1, <2>2, <2>3, VisitWritten DEF HostTypeOK
  <2> QED BY <1>1, <1>2, <2>2, <2>3, <2>4, Added DEF HostTypeOK
<1>4. CASE Found(t, kind) = {}
  <2>1. PICK i : i = Len(tasks) + 1
    OBVIOUS
  <2>2. PICK new : new = NewTask(t, kind)
    OBVIOUS
  <2>3. new \in Task /\ new.visit
    <3>1. Blank \in Record
      BY DimsAssumption DEF Blank, Record
    <3> QED BY <1>1, <2>2, <3>1 DEF NewTask, Task, HostTypeOK
  <2>4. tasks' = Append(tasks, new) /\ gKernelId' = gKernelId + 1
    BY <1>4, <2>2 DEF AddLauncher
  <2>5. /\ tasks' \in Seq(Task) /\ Len(tasks') = i /\ i \in Nat /\ i # 0
        /\ DOMAIN tasks \subseteq DOMAIN tasks' /\ i \in DOMAIN tasks' /\ i \notin DOMAIN tasks
        /\ tasks'[i] = new /\ \A k \in DOMAIN tasks : tasks'[k] = tasks[k]
    BY <1>1, <2>1, <2>3, <2>4 DEF HostTypeOK
  <2>6. execs' = [execs EXCEPT ![e].st = "open", ![e].list = Append(@, i)]
    BY <1>4, <2>5 DEF AddLauncher
  <2>7. gKernelId' \in Nat
    BY <1>1, <2>4 DEF HostTypeOK
  <2> QED BY <1>2, <2>3, <2>5, <2>6, <2>7, Added
<1> QED BY <1>3, <1>4

Budget == [own : Nat, foreign : Nat, fails : Nat, shapes : SUBSET Seq(Nat)]

\* Executor e becomes y.
LEMMA Became ==
    ASSUME HostInv, NEW e \in Executor, NEW y \in Call,
           execs' = [execs EXCEPT ![e] = y],
           tasks' \in Seq(Task), DOMAIN tasks' = DOMAIN tasks, ListFits(y),
           \A p \in Held(y) : p \in Held(execs[e]) /\ y.list[p] = execs[e].list[p],
           \A i \in DOMAIN tasks : tasks[i].visit => tasks'[i].visit \/
               \E q \in Held(execs[e]) \ Held(y) : execs[e].list[q] = i,
           gKernelId' \in Nat, left' \in Budget
    PROVE  HostInv'
<1>1. HostTypeOK /\ \A f \in Executor : ListFits(execs[f])
  BY DEF HostInv
<1>2. execs'[e] = y /\ \A f \in Executor : f # e => execs'[f] = execs[f]
  BY <1>1 DEF HostTypeOK
<1>3. HostTypeOK'
  BY <1>1 DEF HostTypeOK, Budget
<1>4. HeldVisited' /\ TaskExclusive'
  BY <1>2, HoldsNoMore
<1>5. ASSUME NEW f \in Executor PROVE ListFits(execs[f])'
  <2>1. PICK z : z = execs'[f]
    OBVIOUS
  <2>2. ListFits(z)
    BY <1>1, <1>2, <2>1
  <2> QED BY <2>1, <2>2 DEF ListFits
<1> QED BY <1>3, <1>4, <1>5 DEF HostInv

\* The state of an executor with nothing in it.
LEMMA FreeFits == Free \in Call /\ Held(Free) = {} /\ ListFits(Free)
<1>1. Free \in Call /\ Free.list = << >> /\ Free.st = "free"
  BY DEF Free, Call
<1>2. DOMAIN << >> = {}
  OBVIOUS
<1> QED BY <1>1, <1>2 DEF Held, ListFits

\* Executor e is in run x.
Runs(e, x) ==
    /\ x \in Call /\ x.list = execs[e].list /\ x.list # << >>
    /\ x.st \in {"run", "sync"} /\ x.pos \in DOMAIN x.list /\ x.stream \in Stream
    /\ \A p \in DOMAIN x.list : x.list[p] \in DOMAIN tasks
    /\ \A p \in Held(x) : p \in Held(execs[e])

\* RunOf gives such runs.
LEMMA RunOfRuns ==
    ASSUME HostInv, NEW e \in Executor, NEW s \in Stream, NEW rep \in BOOLEAN,
           NEW x \in RunOf(e, s, rep)
    PROVE  Runs(e, x)
<1>1. execs[e] \in Call /\ ListFits(execs[e])
  BY DEF HostInv, HostTypeOK
<1>2. CASE execs[e].st = "run"
  BY <1>1, <1>2 DEF RunOf, Runs, ListFits
<1>3. CASE /\ execs[e].st = "open" \/ (execs[e].st = "ready" /\ rep)
           /\ x = [execs[e] EXCEPT !.st = "run", !.pos = 1, !.rep = rep, !.stream = s]
  <2>1. PICK o : o = execs[e]
    OBVIOUS
  <2>2. /\ x \in Call /\ x.st = "run" /\ x.pos = 1 /\ x.stream = s
        /\ x.list = o.list
    BY <1>1, <1>3, <2>1 DEF Call
  <2>3. o.list \in Seq(Nat) /\ o.list # << >>
    BY <1>1, <1>3, <2>1 DEF Call, ListFits
  <2>4. 1 \in DOMAIN o.list
    BY <2>3
  <2>5. \A p \in DOMAIN o.list : p \in Held(o)
    BY <1>1, <1>3, <2>1 DEF Held, ListFits
  <2>6. \A p \in DOMAIN o.list : o.list[p] \in DOMAIN tasks
    BY <1>1, <2>1 DEF ListFits
  <2>7. \A p \in Held(x) : p \in DOMAIN x.list
    BY DEF Held
  <2> QED BY <2>1, <2>2, <2>3, <2>4, <2>5, <2>6, <2>7 DEF Runs
<1> QED BY <1>2, <1>3 DEF RunOf

\* A launcher is done.
LEMMA FinishedKeeps ==
    ASSUME HostInv, NEW e \in Executor, NEW x, Runs(e, x), NEW ts \in Seq(Task),
           DOMAIN ts = DOMAIN tasks, \A k \in DOMAIN tasks : ts[k].visit = tasks[k].visit,
           Finished(e, x, ts), gKernelId' \in Nat, left' \in Budget
    PROVE  HostInv'
<1>1. PICK i : i = x.list[x.pos]
  OBVIOUS
<1>2. i \in DOMAIN ts /\ x.rep \in BOOLEAN /\ x \in Call /\ x.list \in Seq(Nat)
  BY <1>1 DEF Runs, Call
<1>3. /\ tasks' \in Seq(Task) /\ DOMAIN tasks' = DOMAIN tasks
      /\ tasks'[i].visit = x.rep /\ \A k \in DOMAIN tasks : k # i => tasks'[k] = ts[k]
  BY <1>1, <1>2, VisitWritten DEF Finished
<1>4. PICK y : y = IF x.pos < Len(x.list) THEN [x EXCEPT !.st = "run", !.pos = @ + 1]
                   ELSE IF x.rep THEN [x EXCEPT !.st = "ready"] ELSE Free
  OBVIOUS
<1>5. execs' = [execs EXCEPT ![e] = y]
  BY <1>4 DEF Finished
<1>6. /\ y \in Call /\ ListFits(y) /\ \A p \in Held(y) : p \in Held(x) /\ y.list[p] = x.list[p]
      /\ ~x.rep => x.pos \notin Held(y)
  <2>1. CASE x.pos < Len(x.list)
    <3>1. y = [x EXCEPT !.st = "run", !.pos = x.pos + 1]
      BY <1>4, <2>1
    <3>2. /\ y \in Call /\ y.st = "run" /\ y.pos = x.pos + 1 /\ y.list = x.list
          /\ y.rep = x.rep /\ y.stream = x.stream
      <4>1. PICK m : m = x.pos + 1
        OBVIOUS
      <4>2. m \in Nat
        BY <1>2, <4>1 DEF Call
      <4>3. y = [x EXCEPT !.st = "run", !.pos = m]
        BY <3>1, <4>1
      <4> QED BY <1>2, <4>1, <4>2, <4>3 DEF Call
    <3>3. x.pos \in Nat /\ y.pos \in DOMAIN x.list
      BY <1>2, <2>1, <3>2 DEF Call
    <3>4. ListFits(y)
      BY <3>2, <3>3 DEF Runs, ListFits
    <3>5. \A p \in DOMAIN x.list : p \in Nat
      BY <1>2
    <3>6. \A p \in Held(y) : p \in Held(x) /\ y.list[p] = x.list[p]
      BY <3>2, <3>3, <3>5 DEF Held
    <3>7. ~x.rep => x.pos \notin Held(y)
      BY <3>2, <3>3 DEF Held
    <3> QED BY <3>2, <3>4, <3>6, <3>7
  <2>2. CASE ~(x.pos < Len(x.list)) /\ x.rep
    <3>1. y = [x EXCEPT !.st = "ready"]
      BY <1>4, <2>2
    <3>2. y \in Call /\ y.st = "ready" /\ y.list = x.list /\ y.rep = x.rep
      BY <1>2, <3>1 DEF Call
    <3>3. ListFits(y)
      BY <2>2, <3>2 DEF Runs, ListFits
    <3> QED BY <2>2, <3>2, <3>3 DEF Held
  <2>3. CASE ~(x.pos < Len(x.list)) /\ ~x.rep
    BY <1>4, <2>3, FreeFits
  <2> QED BY <2>1, <2>2, <2>3
<1>7. x.pos \in Held(x) /\ x.pos \in Held(execs[e]) /\ execs[e].list = x.list
  BY <1>2 DEF Runs, Held, Call
<1>8. \A k \in DOMAIN tasks : tasks[k].visit => tasks'[k].visit \/
          \E q \in Held(execs[e]) \ Held(y) : execs[e].list[q] = k
  <2> TAKE k \in DOMAIN tasks
  <2>1. CASE k # i
    BY <1>3, <2>1
  <2>2. CASE k = i
    BY <1>1, <1>2, <1>3, <1>6, <1>7, <2>2
  <2> QED BY <2>1, <2>2
<1>9. \A p \in Held(y) : p \in Held(execs[e]) /\ y.list[p] = execs[e].list[p]
  BY <1>6 DEF Runs
<1> QED BY <1>3, <1>5, <1>6, <1>8, <1>9, Became

\* What a launch writes into a task is a task, as much in use as before.
LEMMA WrittenTask ==
    ASSUME HostTypeOK, NEW i \in DOMAIN tasks, NEW s \in Stream, NEW shape \in left.shapes
    PROVE  Written(i, s, shape) \in Task /\ Written(i, s, shape).visit = tasks[i].visit
<1>1. tasks[i] \in Task /\ gKernelId \in Nat /\ shape \in Seq(Nat)
  BY DEF HostTypeOK
<1>2. ASSUME NEW d \in Record PROVE UpdateShape(d, shape) \in Record
  BY <1>1, <1>2, DimsAssumption DEF UpdateShape, Record
<1>3. PICK a, b, k : /\ a = UpdateShape(tasks[i].in, shape) /\ b = UpdateShape(tasks[i].out, shape)
                     /\ k = KernelId(i, s)
  OBVIOUS
<1>4. a \in Record /\ b \in Record
  BY <1>1, <1>2, <1>3 DEF Task
<1>5. k \in Nat
  BY <1>1, <1>3 DEF KernelId, Task
<1>6. Written(i, s, shape) = [tasks[i] EXCEPT !.in = a, !.out = b, !.kid = k, !.stream = s]
  BY <1>3 DEF Written
<1> QED BY <1>1, <1>4, <1>5, <1>6 DEF Task

\* Kernel ids are drawn from a counter.
LEMMA DrawnNat == ASSUME HostTypeOK, NEW i, NEW s, DrawnBy(i, s) PROVE gKernelId' \in Nat
  BY DEF HostTypeOK, DrawnBy

\* One launch less.
LEMMA SpentBudget ==
    ASSUME HostTypeOK, left.own > 0, left' = [left EXCEPT !.own = @ - 1]
    PROVE  left' \in Budget
<1>1. left \in Budget
  BY DEF HostTypeOK, Budget
<1>2. PICK n : n = left.own - 1
  OBVIOUS
<1>3. n \in Nat
  BY <1>1, <1>2 DEF Budget
<1> QED BY <1>1, <1>2, <1>3 DEF Budget

\* What a launch does to the host's variables, whether or not it is queued.
LaunchKept(e, x, shape) ==
    LET i == x.list[x.pos]
        t == Written(i, x.stream, shape)
    IN  /\ left.own > 0 /\ left' = [left EXCEPT !.own = @ - 1]
        /\ DrawnBy(i, x.stream)
        /\ IF Waits(i)
           THEN /\ tasks' = [tasks EXCEPT ![i] = t]
                /\ execs' = [execs EXCEPT ![e] = [x EXCEPT !.st = "sync"]]
           ELSE Finished(e, x, [tasks EXCEPT ![i] = t])

LEMMA LaunchKeptKeeps ==
    ASSUME HostInv, NEW e \in Executor, NEW x, Runs(e, x), NEW shape \in left.shapes,
           LaunchKept(e, x, shape)
    PROVE  HostInv'
<1>1. HostTypeOK
  BY DEF HostInv
<1>2. PICK i : i = x.list[x.pos]
  OBVIOUS
<1>3. i \in DOMAIN tasks /\ x \in Call /\ x.stream \in Stream
  BY <1>2 DEF Runs
<1>4. PICK t : t = Written(i, x.stream, shape)
  OBVIOUS
<1>5. t \in Task /\ t.visit = tasks[i].visit
  BY <1>1, <1>3, <1>4, WrittenTask
<1>6. gKernelId' \in Nat /\ left' \in Budget
  <2>1. DrawnBy(i, x.stream) /\ left.own > 0 /\ left' = [left EXCEPT !.own = @ - 1]
    BY <1>2 DEF LaunchKept
  <2> QED BY <1>1, <2>1, DrawnNat, SpentBudget
<1>7. PICK ts : ts = [tasks EXCEPT ![i] = t]
  OBVIOUS
<1>8. /\ ts \in Seq(Task) /\ DOMAIN ts = DOMAIN tasks
      /\ \A k \in DOMAIN tasks : ts[k].visit = tasks[k].visit
  <2>1. tasks \in Seq(Task)
    BY <1>1 DEF HostTypeOK
  <2> QED BY <1>3, <1>5, <1>7, <2>1, TaskWritten
<1>9. CASE Waits(i)
  <2>1. PICK y : y = [x EXCEPT !.st = "sync"]
    OBVIOUS
  <2>2. tasks' = ts /\ execs' = [execs EXCEPT ![e] = y]
    BY <1>2, <1>4, <1>7, <1>9, <2>1 DEF LaunchKept
  <2>3. /\ y \in Call /\ y.st = "sync" /\ y.list = x.list /\ y.pos = x.pos /\ y.rep = x.rep
        /\ y.stream = x.stream
    BY <1>3, <2>1 DEF Call
  <2>4. ListFits(y)
    BY <2>3 DEF Runs, ListFits
  <2>5. \A p \in Held(y) : p \in Held(x)
    BY <2>3 DEF Held
  <2>6. \A p \in Held(y) : p \in Held(execs[e]) /\ y.list[p] = execs[e].list[p]
    BY <2>3, <2>5 DEF Runs
  <2>7. tasks' \in Seq(Task) /\ DOMAIN tasks' = DOMAIN tasks
        /\ \A k \in DOMAIN tasks : tasks[k].visit => tasks'[k].visit \/
             \E q \in Held(execs[e]) \ Held(y) : execs[e].list[q] = k
    BY <1>8, <2>2
  <2> QED BY <1>6, <2>2, <2>3, <2>4, <2>6, <2>7, Became
<1>10. CASE ~Waits(i)
  <2>1. Finished(e, x, ts)
    BY <1>2, <1>4, <1>7, <1>10 DEF LaunchKept
  <2> QED BY <1>6, <1>8, <2>1, FinishedKeeps
<1> QED BY <1>9, <1>10

\* AiCpuKernelLauncher::Launch.
LEMMA LaunchTaskKeeps ==
    ASSUME HostInv, NEW e \in Executor, NEW x, Runs(e, x), NEW shape \in left.shapes,
           LaunchTask(e, x, shape)
    PROVE  HostInv'
<1>1. PICK i, t : i = x.list[x.pos] /\ t = Written(i, x.stream, shape)
  OBVIOUS
<1>2. LaunchKept(e, x, shape)
  BY <1>1, Zenon DEF LaunchTask, LaunchKept
<1> QED BY <1>2, LaunchKeptKeeps

\* A launch the runtime has refused is to the host like any other.
LEMMA LaunchLostKeeps ==
    ASSUME HostInv, NEW e \in Executor, NEW x, Runs(e, x), NEW shape \in left.shapes,
           LaunchLost(e, x, shape)
    PROVE  HostInv'
<1>1. PICK i, t : i = x.list[x.pos] /\ t = Written(i, x.stream, shape)
  OBVIOUS
<1>2. LaunchKept(e, x, shape)
  BY <1>1, Zenon DEF LaunchLost, LaunchKept
<1> QED BY <1>2, LaunchKeptKeeps

\* A launcher that fails ends the run.
LEMMA LaunchFailsKeeps ==
    ASSUME HostInv, NEW e \in Executor, NEW x, Runs(e, x), NEW shape \in left.shapes,
           NEW ran \in BOOLEAN, LaunchFails(e, x, shape, ran)
    PROVE  HostInv'
<1>1. HostTypeOK
  BY DEF HostInv
<1>2. PICK i : i = x.list[x.pos]
  OBVIOUS
<1>3. i \in DOMAIN tasks /\ x \in Call /\ x.stream \in Stream /\ x.rep \in BOOLEAN
  BY <1>2 DEF Runs, Call
<1>4. PICK t : t = [Written(i, x.stream, shape) EXCEPT !.visit = x.rep]
  OBVIOUS
<1>5. t \in Task /\ t.visit = x.rep
  <2>1. Written(i, x.stream, shape) \in Task
    BY <1>1, <1>3, WrittenTask
  <2> QED BY <1>3, <1>4, <2>1 DEF Task
<1>6. gKernelId' \in Nat /\ left' \in Budget
  <2>1. left.own > 0 /\ left' = [left EXCEPT !.own = @ - 1]
    BY DEF LaunchFails
  <2>2. DrawnBy(i, x.stream) \/ gKernelId' = gKernelId
    BY <1>2 DEF LaunchFails
  <2>3. gKernelId' \in Nat
    BY <1>1, <2>2, DrawnNat DEF HostTypeOK
  <2> QED BY <1>1, <2>1, <2>3, SpentBudget
<1>7. PICK y : y = IF x.rep THEN [x EXCEPT !.st = "ready"] ELSE Free
  OBVIOUS
<1>8. execs' = [execs EXCEPT ![e] = y]
  BY <1>7 DEF LaunchFails
<1>9. /\ y \in Call /\ ListFits(y) /\ \A p \in Held(y) : p \in Held(x) /\ y.list[p] = x.list[p]
      /\ ~x.rep => Held(y) = {}
  <2>1. CASE x.rep
    <3>1. y \in Call /\ y.st = "ready" /\ y.list = x.list /\ y.rep = x.rep
      BY <1>3, <1>7, <2>1 DEF Call
    <3>2. ListFits(y)
      BY <2>1, <3>1 DEF Runs, ListFits
    <3> QED BY <2>1, <3>1, <3>2 DEF Held
  <2>2. CASE ~x.rep
    BY <1>7, <2>2, FreeFits
  <2> QED BY <1>3, <2>1, <2>2
<1>10. \A p \in Held(y) : p \in Held(execs[e]) /\ y.list[p] = execs[e].list[p]
  BY <1>9 DEF Runs
<1>11. x.pos \in Held(execs[e]) /\ execs[e].list[x.pos] = i
  BY <1>2, <1>3 DEF Runs, Held, Call
<1>12. /\ tasks' \in Seq(Task) /\ DOMAIN tasks' = DOMAIN tasks
       /\ \A k \in DOMAIN tasks : tasks[k].visit => tasks'[k].visit \/
            \E q \in Held(execs[e]) \ Held(y) : execs[e].list[q] = k
  <2>1. tasks \in Seq(Task)
    BY <1>1 DEF HostTypeOK
  <2>2. CASE ran
    <3>1. tasks' = [tasks EXCEPT ![i] = t]
      BY <1>2, <1>4, <2>2 DEF LaunchFails
    <3>2. /\ tasks' \in Seq(Task) /\ DOMAIN tasks' = DOMAIN tasks /\ tasks'[i] = t
          /\ \A k \in DOMAIN tasks : k # i => tasks'[k] = tasks[k]
      BY <1>3, <1>5, <2>1, <3>1, TaskWritten
    <3> QED BY <1>3, <1>5, <1>9, <1>11, <3>2
  <2>3. CASE ~ran
    BY <2>1, <2>3 DEF LaunchFails
  <2> QED BY <2>2, <2>3
<1> QED BY <1>6, <1>8, <1>9, <1>10, <1>12, Became

\* The host has read the output shapes of a kernel of class three.
LEMMA SynchronizedKeeps ==
    ASSUME HostInv, NEW e \in Executor, Synchronized(e)
    PROVE  HostInv'
<1>1. HostTypeOK /\ ListFits(execs[e])
  BY DEF HostInv
<1>2. PICK x : x = execs[e]
  OBVIOUS
<1>3. Runs(e, x)
  BY <1>1, <1>2 DEF HostTypeOK, Runs, ListFits, Synchronized
<1>4. PICK ts : ts = tasks
  OBVIOUS
<1>5. Finished(e, x, ts) /\ gKernelId' \in Nat /\ left' \in Budget
  BY <1>1, <1>2, <1>4 DEF Synchronized, HostTypeOK, Budget
<1>6. ts \in Seq(Task) /\ DOMAIN ts = DOMAIN tasks
      /\ \A k \in DOMAIN tasks : ts[k].visit = tasks[k].visit
  BY <1>1, <1>4 DEF HostTypeOK
<1> QED BY <1>3, <1>5, <1>6, FinishedKeeps

\* An executor goes; its tasks are given back, or not.
LEMMA GoneKeeps ==
    ASSUME HostInv, NEW e \in Executor, execs' = [execs EXCEPT ![e] = Free],
           tasks' \in Seq(Task), DOMAIN tasks' = DOMAIN tasks,
           \A i \in DOMAIN tasks : tasks[i].visit => tasks'[i].visit \/
               \E q \in Held(execs[e]) : execs[e].list[q] = i,
           gKernelId' = gKernelId, left' = left
    PROVE  HostInv'
<1>1. gKernelId' \in Nat /\ left' \in Budget
  BY DEF HostInv, HostTypeOK, Budget
<1>2. PICK y : y = Free
  OBVIOUS
<1>3. y \in Call /\ Held(y) = {} /\ ListFits(y)
  BY <1>2, FreeFits
<1>4. /\ \A p \in Held(y) : p \in Held(execs[e]) /\ y.list[p] = execs[e].list[p]
      /\ \A i \in DOMAIN tasks : tasks[i].visit => tasks'[i].visit \/
             \E q \in Held(execs[e]) \ Held(y) : execs[e].list[q] = i
  BY <1>3
<1> QED BY <1>1, <1>2, <1>3, <1>4, Became

\* A call that is given up leaves its tasks in use.
LEMMA AbandonKeeps == ASSUME HostInv, NEW e \in Executor, Abandon(e) PROVE HostInv'
  BY GoneKeeps DEF HostInv, HostTypeOK, Abandon

\* The tasks of a repeatable executor are its own when it gives them back.
LEMMA DestroyKeeps == ASSUME HostInv, NEW e \in Executor, Destroy(e) PROVE HostInv'
<1>1. HostTypeOK /\ ListFits(execs[e]) /\ execs[e] \in Call
  BY DEF HostInv, HostTypeOK
<1>2. \A p \in DOMAIN execs[e].list : p \in Held(execs[e])
  BY <1>1 DEF Destroy, ListFits, Held
<1>3. /\ tasks \in Seq(Task) /\ Len(tasks) \in Nat /\ DOMAIN tasks = 1 .. Len(tasks)
      /\ \A i \in DOMAIN tasks : tasks[i] \in Task
  BY <1>1 DEF HostTypeOK
<1>4. \A i \in DOMAIN tasks : [tasks[i] EXCEPT !.visit = FALSE] \in Task
  BY <1>3 DEF Task
<1>5. /\ DOMAIN tasks' = 1 .. Len(tasks)
      /\ \A i \in DOMAIN tasks : /\ tasks'[i] \in Task
                                 /\ tasks'[i] = tasks[i] \/ i \in Range(execs[e].list)
  BY <1>3, <1>4 DEF Destroy
<1>6. tasks' = [i \in 1 .. Len(tasks) |-> tasks'[i]]
  BY <1>3 DEF Destroy
<1>7. tasks' \in Seq(Task)
  BY <1>3, <1>5, <1>6, SeqDef
<1>8. \A i \in Range(execs[e].list) : \E p \in DOMAIN execs[e].list : execs[e].list[p] = i
  BY DEF Range
<1>9. \A i \in DOMAIN tasks : tasks[i].visit => tasks'[i].visit \/
          \E q \in Held(execs[e]) : execs[e].list[q] = i
  BY <1>2, <1>5, <1>8
<1> QED BY <1>3, <1>5, <1>7, <1>9, GoneKeeps DEF Destroy

\* Another framework's launch costs budget.
LEMMA ForeignLaunchKeeps == ASSUME HostInv, NEW f, ForeignLaunch(f) PROVE HostInv'
<1>1. left \in Budget /\ left.foreign > 0 /\ left' = [left EXCEPT !.foreign = @ - 1]
  BY DEF HostInv, HostTypeOK, Budget, ForeignLaunch
<1>2. PICK n : n = left.foreign - 1
  OBVIOUS
<1>3. n \in Nat
  BY <1>1, <1>2 DEF Budget
<1>4. left' \in Budget
  BY <1>1, <1>2, <1>3 DEF Budget
<1> QED BY <1>4 DEF HostInv, HostTypeOK, Budget, HeldVisited, TaskExclusive, ListFits, ForeignLaunch

\* At the start nobody holds a task.
LEMMA HostInitInv == Init => HostInv
<1> SUFFICES ASSUME Init PROVE HostInv
  OBVIOUS
<1>1. execs = [e \in Executor |-> Free] /\ tasks = << >>
  BY DEF Init
<1>2. HostTypeOK
  BY <1>1, FreeFits, AicpuAssumption DEF Init, HostTypeOK
<1>3. \A e \in Executor : execs[e] = Free
  BY <1>1
<1> QED BY <1>2, <1>3, FreeFits DEF HostInv, HeldVisited, TaskExclusive

\* Every step keeps the tasks of the host apart.
LEMMA HostNextInv == HostInv /\ [Next]_vars => HostInv'
<1> SUFFICES ASSUME HostInv, [Next]_vars PROVE HostInv'
  OBVIOUS
<1>1. ASSUME NEW t \in Thread, NEW e \in Executor, NEW kind \in Kind, AddLauncher(t, e, kind)
      PROVE  HostInv'
  BY <1>1, AddLauncherKeeps
<1>2. ASSUME NEW e \in Executor, Abandon(e) \/ Synchronized(e) \/ Destroy(e) PROVE HostInv'
  BY <1>2, AbandonKeeps, SynchronizedKeeps, DestroyKeeps
<1>3. ASSUME NEW e \in Executor, NEW s \in Stream, NEW rep \in BOOLEAN,
             NEW shape \in left.shapes, NEW x \in RunOf(e, s, rep),
             \/ LaunchTask(e, x, shape) \/ LaunchLost(e, x, shape)
             \/ \E ran \in BOOLEAN : LaunchFails(e, x, shape, ran)
      PROVE  HostInv'
  <2>1. Runs(e, x)
    BY RunOfRuns
  <2> QED BY <1>3, <2>1, LaunchTaskKeeps, LaunchLostKeeps, LaunchFailsKeeps
<1>4. ASSUME NEW f \in Foreign, ForeignLaunch(f) PROVE HostInv'
  BY <1>4, ForeignLaunchKeeps
<1>5. CASE UNCHANGED hostVars
  BY <1>5 DEF hostVars, HostInv, HostTypeOK, HeldVisited, TaskExclusive, ListFits
<1> QED BY <1>1, <1>2, <1>3, <1>4, <1>5 DEF Next, HostStep, vars

-----------------------------------------------------------------------------
(* The device: the kernel caches                                           *)

\* A list with one more element in front.
LEMMA Prepended ==
    ASSUME NEW S, NEW s \in Seq(S), NEW k \in S
    PROVE  /\ <<k>> \o s \in Seq(S) /\ Len(<<k>> \o s) = Len(s) + 1
           /\ Range(<<k>> \o s) = {k} \cup Range(s)
           /\ IsInjective(s) /\ k \notin Range(s) => IsInjective(<<k>> \o s)
<1>1. PICK a : a = <<k>>
  OBVIOUS
<1>2. a \in Seq(S) /\ Len(a) = 1 /\ Range(a) = {k} /\ IsInjective(a)
  BY <1>1 DEF Range, IsInjective
<1>3. Len(s) \in Nat
  OBVIOUS
<1>4. a \o s \in Seq(S) /\ Len(a \o s) = Len(a) + Len(s)
  BY <1>2, JoinLists
<1>5. Range(a \o s) = Range(a) \cup Range(s)
  BY <1>2, JoinLists
<1>6. ASSUME IsInjective(s), k \notin Range(s) PROVE IsInjective(a \o s)
  <2>1. Range(a) \cap Range(s) = {}
    BY <1>2, <1>6
  <2> QED BY <1>2, <1>6, <2>1, JoinLists
<1>7. Len(a \o s) = Len(s) + 1
  BY <1>2, <1>3, <1>4
<1> QED BY <1>1, <1>2, <1>4, <1>5, <1>6, <1>7

\* A list without its last element has all others.
LEMMA Shortened ==
    ASSUME NEW S, NEW s \in Seq(S), s # << >>
    PROVE  /\ Front(s) \in Seq(S) /\ Len(Front(s)) = Len(s) - 1
           /\ Range(s) \subseteq Range(Front(s)) \cup {Last(s)}
<1>1. PICK n : n = Len(s)
  OBVIOUS
<1>2. n \in Nat \ {0} /\ DOMAIN s = 1 .. n
  BY <1>1
<1>3. PICK f : f = SubSeq(s, 1, n - 1)
  OBVIOUS
<1>4. f \in Seq(S) /\ Len(f) = n - 1 /\ DOMAIN f = 1 .. n - 1 /\ \A k \in 1 .. n - 1 : f[k] = s[k]
  <2>1. 1 \in Int /\ n - 1 \in Int /\ n - 1 \in 0 .. n
    BY <1>2
  <2>2. f \in Seq(S) /\ Len(f) = n - 1
    BY <1>1, <1>2, <1>3
  <2> QED BY <1>1, <1>2, <1>3, <2>2
<1>5. Front(s) = f /\ Last(s) = s[n]
  BY <1>1, <1>3 DEF Front, Last
<1>6. ASSUME NEW x \in Range(s), x # s[n] PROVE x \in Range(f)
  <2>1. PICK k \in 1 .. n : s[k] = x
    BY <1>2 DEF Range
  <2>2. k \in 1 .. n - 1
    BY <1>2, <1>6, <2>1
  <2> QED BY <1>4, <2>1, <2>2 DEF Range
<1> QED BY <1>1, <1>4, <1>5, <1>6

\* Moving an entry to the front keeps the entries.
LEMMA ToFrontSame ==
    ASSUME NEW S, NEW s \in Seq(S), IsInjective(s), NEW key \in Range(s)
    PROVE  /\ ToFront(s, key) \in Seq(S) /\ Len(ToFront(s, key)) = Len(s)
           /\ Range(ToFront(s, key)) = Range(s) /\ IsInjective(ToFront(s, key))
<1>1. PICK n : n = Len(s)
  OBVIOUS
<1>2. PICK i : i = CHOOSE j \in DOMAIN s : s[j] = key
  OBVIOUS
<1>3. i \in 1 .. n /\ s[i] = key /\ n \in Nat /\ key \in S
  BY <1>1, <1>2 DEF Range
<1>4. PICK a : a = SubSeq(s, 1, i - 1)
  OBVIOUS
<1>5. PICK b : b = SubSeq(s, i + 1, n)
  OBVIOUS
<1>6. a \in Seq(S) /\ Len(a) = i - 1 /\ \A k \in 1 .. i - 1 : a[k] = s[k]
  BY <1>1, <1>3, <1>4
<1>7. b \in Seq(S) /\ Len(b) = n - i /\ \A k \in 1 .. n - i : b[k] = s[i + k]
  BY <1>1, <1>3, <1>5
<1>8. \A j, k \in 1 .. n : s[j] = s[k] => j = k
  BY <1>1, RangeOfList
<1>9. \A x : x \in Range(a) <=> \E k \in 1 .. n : k < i /\ s[k] = x
  <2>1. \A x : x \in Range(a) <=> \E k \in 1 .. i - 1 : a[k] = x
    BY <1>6, RangeOfList
  <2> QED BY <1>3, <1>6, <2>1
<1>10. \A x : x \in Range(b) <=> \E k \in 1 .. n : k > i /\ s[k] = x
  <2>1. \A x : x \in Range(b) <=> \E k \in 1 .. n - i : b[k] = x
    BY <1>7, RangeOfList
  <2>2. ASSUME NEW x \in Range(b) PROVE \E k \in 1 .. n : k > i /\ s[k] = x
    <3>1. PICK k \in 1 .. n - i : b[k] = x
      BY <2>1
    <3>2. i + k \in 1 .. n /\ i + k > i
      BY <1>3
    <3> QED BY <1>7, <3>1, <3>2
  <2>3. ASSUME NEW k \in 1 .. n, k > i PROVE s[k] \in Range(b)
    <3>1. k - i \in 1 .. n - i /\ i + (k - i) = k
      BY <1>3, <2>3
    <3>2. b[k - i] = s[k]
      BY <1>7, <3>1
    <3> QED BY <2>1, <3>1, <3>2
  <2> QED BY <2>2, <2>3
<1>11. IsInjective(a) /\ IsInjective(b) /\ Range(a) \cap Range(b) = {}
  <2>1. IsInjective(a)
    BY <1>3, <1>6, <1>8, RangeOfList
  <2>2. IsInjective(b)
    <3>1. \A j, k \in 1 .. n - i : b[j] = b[k] => j = k
      <4> TAKE j, k \in 1 .. n - i
      <4>1. i + j \in 1 .. n /\ i + k \in 1 .. n
        BY <1>3
      <4>2. b[j] = s[i + j] /\ b[k] = s[i + k]
        BY <1>7
      <4>3. s[i + j] = s[i + k] => i + j = i + k
        BY <1>8, <4>1
      <4> QED BY <1>3, <4>2, <4>3
    <3> QED BY <1>7, <3>1, RangeOfList
  <2>3. ASSUME NEW x \in Range(a), x \in Range(b) PROVE FALSE
    <3>1. PICK j \in 1 .. n : j < i /\ s[j] = x
      BY <1>9
    <3>2. PICK k \in 1 .. n : k > i /\ s[k] = x
      BY <1>10, <2>3
    <3> QED BY <1>3, <1>8, <3>1, <3>2
  <2> QED BY <2>1, <2>2, <2>3
<1>12. PICK r : r = a \o b
  OBVIOUS
<1>13. /\ r \in Seq(S) /\ Len(r) = n - 1 /\ Range(r) = Range(a) \cup Range(b)
       /\ IsInjective(r)
  <2>1. Len(r) = Len(a) + Len(b)
    BY <1>6, <1>7, <1>12, JoinLists
  <2>2. Len(r) = n - 1
    BY <1>3, <1>6, <1>7, <2>1
  <2> QED BY <1>6, <1>7, <1>11, <1>12, <2>2, JoinLists
<1>14. /\ key \notin Range(r) /\ Range(s) = {key} \cup Range(r)
  <2>1. key \notin Range(r)
    BY <1>3, <1>8, <1>9, <1>10, <1>13
  <2>2. \A x : x \in Range(s) <=> \E k \in 1 .. n : s[k] = x
    BY <1>1, RangeOfList
  <2>3. \A k \in 1 .. n : k < i \/ k = i \/ k > i
    BY <1>3
  <2>4. \A x : x \in Range(s) <=> x = key \/ x \in Range(a) \/ x \in Range(b)
    BY <1>3, <1>9, <1>10, <2>2, <2>3
  <2> QED BY <1>13, <2>1, <2>4
<1>15. ToFront(s, key) = <<key>> \o r
  BY <1>1, <1>2, <1>4, <1>5, <1>12 DEF ToFront, RemoveAt
<1>16. PICK p : p = <<key>> \o r
  OBVIOUS
<1>17. p \in Seq(S) /\ Len(p) = Len(r) + 1
  BY <1>3, <1>13, <1>16, Prepended
<1>18. Range(p) = {key} \cup Range(r)
  BY <1>3, <1>13, <1>16, Prepended
<1>19. IsInjective(p)
  BY <1>3, <1>13, <1>14, <1>16, Prepended
<1>20. Len(p) = Len(s)
  BY <1>1, <1>3, <1>13, <1>17
<1> QED BY <1>14, <1>15, <1>16, <1>17, <1>18, <1>19, <1>20

\* The parts of a cache that fit are a sound cache.
LEMMA SoundParts ==
    ASSUME NEW flag, NEW lru, NEW iter, lru \in Seq(DOMAIN iter), Range(lru) = DOMAIN iter,
           IsInjective(lru), Len(lru) <= Capacity + 1
    PROVE  CacheSound([sess_flag |-> flag, lru |-> lru, iter |-> iter])
<1>1. PICK c : c = [sess_flag |-> flag, lru |-> lru, iter |-> iter]
  OBVIOUS
<1>2. c.sess_flag = flag /\ c.lru = lru /\ c.iter = iter
  BY <1>1
<1> QED BY <1>1, <1>2 DEF CacheSound

\* A new cache.
LEMMA NewCacheSound == ASSUME NEW flag PROVE CacheSound(NewCache(flag))
<1>1. DOMAIN << >> = {} /\ << >> \in Seq({}) /\ Len(<< >>) <= Capacity + 1
  BY CacheAssumption
<1>2. PICK e : e = << >>
  OBVIOUS
<1>3. e \in Seq(DOMAIN e) /\ Range(e) = DOMAIN e /\ IsInjective(e) /\ Len(e) <= Capacity + 1
  BY <1>1, <1>2, EmptyList
<1> QED BY <1>2, <1>3, SoundParts DEF NewCache

\* GetCache keeps a cache sound.
LEMMA GetCacheSound ==
    ASSUME NEW c, CacheSound(c), NEW key
    PROVE  CacheSound(GetCache(c, key))
<1>1. CASE key \in DOMAIN c.iter /\ ~c.sess_flag
  <2>1. PICK lru : lru = ToFront(c.lru, key)
    OBVIOUS
  <2>2. /\ lru \in Seq(DOMAIN c.iter) /\ Range(lru) = DOMAIN c.iter
        /\ IsInjective(lru) /\ Len(lru) <= Capacity + 1
    BY <1>1, <2>1, ToFrontSame DEF CacheSound
  <2>3. GetCache(c, key) = [sess_flag |-> c.sess_flag, lru |-> lru, iter |-> c.iter]
    <3>1. GetCache(c, key) = [c EXCEPT !.lru = lru]
      BY <1>1, <2>1 DEF GetCache
    <3> QED BY <3>1 DEF CacheSound
  <2> QED BY <2>2, <2>3, SoundParts
<1>2. CASE ~(key \in DOMAIN c.iter /\ ~c.sess_flag)
  BY <1>2 DEF GetCache
<1> QED BY <1>1, <1>2

\* SetCache keeps a cache sound: a full one gives up its last entry.
LEMMA SetCacheSound ==
    ASSUME NEW c, CacheSound(c), NEW key, NEW ctx
    PROVE  CacheSound(SetCache(c, key, ctx))
<1>1. /\ c.lru \in Seq(DOMAIN c.iter) /\ Range(c.lru) = DOMAIN c.iter
      /\ IsInjective(c.lru) /\ Len(c.lru) <= Capacity + 1
      /\ c = [sess_flag |-> c.sess_flag, lru |-> c.lru, iter |-> c.iter]
  BY DEF CacheSound
<1>2. CASE key \in DOMAIN c.iter
  <2>1. PICK iter : iter = With(c.iter, key, ctx)
    OBVIOUS
  <2>2. PICK lru : lru = IF c.sess_flag THEN c.lru ELSE ToFront(c.lru, key)
    OBVIOUS
  <2>3. DOMAIN iter = DOMAIN c.iter
    BY <1>2, <2>1 DEF With
  <2>4. /\ lru \in Seq(DOMAIN iter) /\ Range(lru) = DOMAIN iter
        /\ IsInjective(lru) /\ Len(lru) <= Capacity + 1
    BY <1>1, <1>2, <2>2, <2>3, ToFrontSame
  <2>5. SetCache(c, key, ctx) = [sess_flag |-> c.sess_flag, lru |-> lru, iter |-> iter]
    <3>1. SetCache(c, key, ctx) = [c EXCEPT !.iter = iter, !.lru = lru]
      BY <1>2, <2>1, <2>2 DEF SetCache
    <3> QED BY <1>1, <3>1
  <2> QED BY <2>4, <2>5, SoundParts
<1>3. CASE key \notin DOMAIN c.iter
  <2>1. PICK old : old = IF Capacity < Len(c.lru) THEN Front(c.lru) ELSE c.lru
    OBVIOUS
  <2>2. PICK rest : rest = IF Capacity < Len(c.lru) THEN Without(c.iter, Last(c.lru)) ELSE c.iter
    OBVIOUS
  <2>3. PICK iter : iter = With(rest, key, ctx)
    OBVIOUS
  <2>4. PICK lru : lru = <<key>> \o old
    OBVIOUS
  <2>5. /\ old \in Seq(DOMAIN c.iter) /\ Range(old) = DOMAIN rest /\ IsInjective(old)
        /\ Len(old) <= Capacity /\ DOMAIN rest \subseteq DOMAIN c.iter
    <3>1. CASE Capacity < Len(c.lru)
      <4>1. c.lru # << >> /\ Len(c.lru) \in Nat /\ Len(c.lru) - 1 <= Capacity
        BY <1>1, <3>1, CacheAssumption
      <4>2. old = SubSeq(c.lru, 1, Len(c.lru) - 1)
        BY <2>1, <3>1 DEF Front
      <4>3. /\ old \in Seq(DOMAIN c.iter) /\ Len(old) = Len(c.lru) - 1
            /\ Range(old) = DOMAIN c.iter \ {c.lru[Len(c.lru)]} /\ IsInjective(old)
        BY <1>1, <4>1, <4>2, PopList
      <4>4. DOMAIN rest = DOMAIN c.iter \ {c.lru[Len(c.lru)]}
        BY <2>2, <3>1 DEF Without, Last
      <4> QED BY <4>1, <4>3, <4>4
    <3>2. CASE ~(Capacity < Len(c.lru))
      <4>1. Len(c.lru) \in Nat
        BY <1>1
      <4> QED BY <1>1, <2>1, <2>2, <3>2, <4>1, CacheAssumption
    <3> QED BY <3>1, <3>2
  <2>6. DOMAIN iter = DOMAIN rest \cup {key}
    BY <2>3 DEF With
  <2>7. old \in Seq(DOMAIN iter) /\ key \in DOMAIN iter
    <3>1. old \in Seq(Range(old))
      <4>1. Len(old) \in Nat /\ DOMAIN old = 1 .. Len(old) /\ old = [k \in 1 .. Len(old) |-> old[k]]
        BY <2>5
      <4>2. \A k \in 1 .. Len(old) : old[k] \in Range(old)
        BY <4>1 DEF Range
      <4> QED BY <4>1, <4>2, SeqDef
    <3>2. Range(old) \subseteq DOMAIN iter /\ key \in DOMAIN iter
      BY <2>5, <2>6
    <3> QED BY <3>1, <3>2
  <2>8. lru \in Seq(DOMAIN iter) /\ Len(lru) = Len(old) + 1
    BY <2>4, <2>7, Prepended
  <2>9. Range(lru) = DOMAIN iter
    <3>1. Range(lru) = {key} \cup Range(old)
      BY <2>4, <2>7, Prepended
    <3> QED BY <2>5, <2>6, <3>1
  <2>10. IsInjective(lru)
    <3>1. key \notin Range(old)
      BY <1>3, <2>5
    <3> QED BY <2>4, <2>5, <2>7, <3>1, Prepended
  <2>11. Len(lru) <= Capacity + 1
    <3>1. Len(old) \in Nat
      BY <2>7
    <3> QED BY <2>5, <2>8, <3>1, CacheAssumption
  <2>12. SetCache(c, key, ctx) = [sess_flag |-> c.sess_flag, lru |-> lru, iter |-> iter]
    <3>1. SetCache(c, key, ctx) = [c EXCEPT !.lru = lru, !.iter = iter]
      BY <1>3, <2>1, <2>2, <2>3, <2>4 DEF SetCache
    <3> QED BY <1>1, <3>1
  <2> QED BY <2>8, <2>9, <2>10, <2>11, <2>12, SoundParts
<1> QED BY <1>2, <1>3

\* The elements of a list are its range.
LEMMA OwnRange == ASSUME NEW S, NEW s \in Seq(S) PROVE s \in Seq(Range(s))
<1>1. Len(s) \in Nat /\ DOMAIN s = 1 .. Len(s) /\ s = [k \in 1 .. Len(s) |-> s[k]]
  OBVIOUS
<1>2. \A k \in 1 .. Len(s) : s[k] \in Range(s)
  BY <1>1 DEF Range
<1> QED BY <1>1, <1>2, SeqDef

\* The kernel caches stay sound where a step adds one, rewrites one or drops
\* some.
LEMMA CacheAdded ==
    ASSUME \A k \in DOMAIN caches : CacheSound(caches[k]), NEW n, NEW c, CacheSound(c),
           caches' = With(caches, n, c)
    PROVE  \A k \in DOMAIN caches' : CacheSound(caches'[k])
  BY DEF With

LEMMA CacheRewritten ==
    ASSUME \A k \in DOMAIN caches : CacheSound(caches[k]), NEW n, NEW c,
           n \in DOMAIN caches => CacheSound(c),
           caches' = [caches EXCEPT ![n] = c]
    PROVE  \A k \in DOMAIN caches' : CacheSound(caches'[k])
  OBVIOUS

\* The list of sessions makes room for one more, and the cache of the one
\* that goes is dropped.
LEMMA SessionEntered ==
    ASSUME SessionsListed, NEW id, session_id_cache' = Listed(id), NEW n,
           \/ session_kernel_cache' = [Mapped EXCEPT ![id] = n]
           \/ session_kernel_cache' = Mapped
    PROVE  SessionsListed'
<1>1. PICK s : s = session_id_cache
  OBVIOUS
<1>2. PICK r : r = IF Len(s) > SessionCacheNum THEN Front(s) ELSE s
  OBVIOUS
<1>3. /\ s \in Seq(Range(s)) /\ Len(s) <= SessionCacheNum + 1 /\ Len(s) \in Nat
      /\ DOMAIN session_kernel_cache = Session
      /\ \A i \in Session : session_kernel_cache[i] # NoCache => i \in Range(s)
  BY <1>1 DEF SessionsListed
<1>4. PICK T : T = Range(s) \cup {id}
  OBVIOUS
<1>5. /\ r \in Seq(T) /\ Len(r) \in Nat /\ Len(r) <= SessionCacheNum
      /\ DOMAIN Mapped = Session
      /\ \A i \in Session : Mapped[i] # NoCache => i \in Range(r)
  <2>1. s \in Seq(T)
    BY <1>3, <1>4
  <2>2. CASE Len(s) > SessionCacheNum
    <3>1. s # << >>
      BY <1>3, <2>2, CacheAssumption
    <3>2. r \in Seq(T) /\ Len(r) = Len(s) - 1 /\ Range(s) \subseteq Range(r) \cup {Last(s)}
      BY <1>2, <2>1, <2>2, <3>1, Shortened
    <3>3. Mapped = [session_kernel_cache EXCEPT ![Last(s)] = NoCache]
      BY <1>1, <2>2 DEF Mapped, SessionFull
    <3>4. Len(r) \in Nat /\ Len(r) <= SessionCacheNum
      BY <1>3, <2>2, <3>2, CacheAssumption
    <3>5. \A i \in Session : Mapped[i] # NoCache => i \in Range(s) /\ i # Last(s)
      BY <1>3, <3>3
    <3>6. DOMAIN Mapped = Session
      BY <1>3, <3>3
    <3> QED BY <3>2, <3>4, <3>5, <3>6
  <2>3. CASE ~(Len(s) > SessionCacheNum)
    <3>1. r = s /\ Mapped = session_kernel_cache
      BY <1>1, <1>2, <2>3 DEF Mapped, SessionFull
    <3> QED BY <1>3, <2>1, <2>3, <3>1, CacheAssumption
  <2> QED BY <2>2, <2>3
<1>6. PICK l : l = <<id>> \o r
  OBVIOUS
<1>7. session_id_cache' = l
  BY <1>1, <1>2, <1>6 DEF Listed, SessionFull
<1>8. l \in Seq(T) /\ Len(l) = Len(r) + 1
  BY <1>4, <1>5, <1>6, Prepended
<1>9. Range(l) = {id} \cup Range(r)
  BY <1>4, <1>5, <1>6, Prepended
<1>10. l \in Seq(Range(l)) /\ Len(l) <= SessionCacheNum + 1
  <2>1. l \in Seq(Range(l))
    BY <1>8, OwnRange
  <2> QED BY <1>5, <1>8, <2>1, CacheAssumption
<1>11. /\ DOMAIN session_kernel_cache' = Session
       /\ \A i \in Session : session_kernel_cache'[i] # NoCache => i \in Range(l)
  BY <1>5, <1>9
<1> QED BY <1>7, <1>10, <1>11 DEF SessionsListed

LEMMA CacheInitInv == Init => CacheInv
<1> SUFFICES ASSUME Init PROVE CacheInv
  OBVIOUS
<1>1. /\ caches = << >> /\ session_id_cache = << >>
      /\ session_kernel_cache = [i \in Session |-> NoCache]
  BY DEF Init, DevInit
<1>2. \A k \in DOMAIN caches : CacheSound(caches[k])
  BY <1>1
<1>3. SessionsListed
  <2>1. << >> \in Seq({})
    OBVIOUS
  <2>2. PICK e : e = << >>
    OBVIOUS
  <2>3. e \in Seq(Range(e)) /\ Len(e) <= SessionCacheNum + 1
    <3>1. e \in Seq(Range(e))
      BY <2>1, <2>2, OwnRange
    <3> QED BY <2>2, <3>1, CacheAssumption
  <2>4. \A i \in Session : session_kernel_cache[i] = NoCache
    BY <1>1
  <2> QED BY <1>1, <2>2, <2>3, <2>4 DEF SessionsListed
<1> QED BY <1>2, <1>3 DEF CacheInv

\* The host touches nothing of the device but the queues.
LEMMA HostOnly ==
    ASSUME HostStep
    PROVE  UNCHANGED <<work, caches, session_kernel_cache, session_id_cache, ctxs>>
<1>1. ASSUME NEW t \in Thread, NEW e \in Executor, NEW kind \in Kind, AddLauncher(t, e, kind)
      PROVE  UNCHANGED <<work, caches, session_kernel_cache, session_id_cache, ctxs>>
  BY <1>1 DEF AddLauncher, devVars
<1>2. ASSUME NEW e \in Executor, Abandon(e) \/ Synchronized(e) \/ Destroy(e)
      PROVE  UNCHANGED <<work, caches, session_kernel_cache, session_id_cache, ctxs>>
  BY <1>2 DEF Abandon, Synchronized, Destroy, devVars
<1>3. ASSUME NEW e \in Executor, NEW x, NEW shape, LaunchTask(e, x, shape)
      PROVE  UNCHANGED <<work, caches, session_kernel_cache, session_id_cache, ctxs>>
  BY <1>3 DEF LaunchTask
<1>4. ASSUME NEW e \in Executor, NEW x, NEW shape, NEW ran, LaunchFails(e, x, shape, ran)
      PROVE  UNCHANGED <<work, caches, session_kernel_cache, session_id_cache, ctxs>>
  BY <1>4 DEF LaunchFails
<1>5. ASSUME NEW f \in Foreign, ForeignLaunch(f)
      PROVE  UNCHANGED <<work, caches, session_kernel_cache, session_id_cache, ctxs>>
  BY <1>5 DEF ForeignLaunch
<1>6. ASSUME NEW e \in Executor, NEW x, NEW shape, LaunchLost(e, x, shape)
      PROVE  UNCHANGED <<work, caches, session_kernel_cache, session_id_cache, ctxs>>
  BY <1>6 DEF LaunchLost
<1> QED BY <1>1, <1>2, <1>3, <1>4, <1>5, <1>6 DEF HostStep

LEMMA CacheNextInv == CacheInv /\ [Next]_vars => CacheInv'
<1> SUFFICES ASSUME CacheInv, [Next]_vars PROVE CacheInv'
  OBVIOUS
<1>1. SessionsListed /\ \A k \in DOMAIN caches : CacheSound(caches[k])
  BY DEF CacheInv
<1>2. ASSUME UNCHANGED <<session_kernel_cache, session_id_cache>> PROVE SessionsListed'
  BY <1>1, <1>2 DEF SessionsListed
<1>3. ASSUME UNCHANGED <<caches, session_kernel_cache, session_id_cache>> PROVE CacheInv'
  BY <1>1, <1>2, <1>3 DEF CacheInv
<1>4. ASSUME HostStep PROVE CacheInv'
  BY <1>3, <1>4, HostOnly
<1>5. ASSUME NEW s \in Stream, Start(s) PROVE CacheInv'
  BY <1>3, <1>5 DEF Start
<1>6. ASSUME NEW s \in Stream, Retire(s) PROVE CacheInv'
  <2>1. PICK S : caches' = Keep(caches, S)
    BY <1>6 DEF Retire
  <2>2. \A k \in DOMAIN caches' : CacheSound(caches'[k])
    BY <1>1, <2>1 DEF Keep
  <2> QED BY <1>2, <1>6, <2>2 DEF Retire, CacheInv
<1>7. ASSUME NEW w \in Worker, WorkerStep(w) PROVE CacheInv'
  <2>1. CASE OpenDirect(w)
    <3>1. \A k \in DOMAIN caches' : CacheSound(caches'[k])
      BY <1>1, <2>1, NewCacheSound, CacheAdded DEF OpenDirect
    <3> QED BY <1>2, <2>1, <3>1 DEF OpenDirect, CacheInv
  <2>2. CASE OpenStream(w)
    <3>1. CASE UNCHANGED caches
      BY <1>3, <2>2, <3>1 DEF OpenStream
    <3>2. CASE caches' = With(caches, Name(w), NewCache(FALSE))
      <4>1. \A k \in DOMAIN caches' : CacheSound(caches'[k])
        BY <1>1, <3>2, NewCacheSound, CacheAdded
      <4> QED BY <1>2, <2>2, <4>1 DEF OpenStream, CacheInv
    <3> QED BY <2>2, <3>1, <3>2 DEF OpenStream
  <2>3. CASE OpenSession(w)
    <3>1. PICK id : id = SessionOf(w).id
      OBVIOUS
    <3>2. CASE UNCHANGED <<caches, session_kernel_cache, session_id_cache, fails>>
      BY <1>3, <3>2
    <3>3. CASE /\ session_id_cache' = Listed(id)
               /\ caches' = With(caches, Name(w), NewCache(TRUE))
               /\ session_kernel_cache' = [Mapped EXCEPT ![id] = Name(w)]
      <4>1. \A k \in DOMAIN caches' : CacheSound(caches'[k])
        BY <1>1, <3>3, NewCacheSound, CacheAdded
      <4>2. SessionsListed'
        BY <1>1, <3>3, SessionEntered
      <4> QED BY <4>1, <4>2 DEF CacheInv
    <3>4. CASE session_id_cache' = Listed(id) /\ session_kernel_cache' = Mapped /\ UNCHANGED caches
      <4>1. SessionsListed'
        BY <1>1, <3>4, SessionEntered
      <4> QED BY <1>1, <3>4, <4>1 DEF CacheInv
    <3> QED BY <2>3, <3>1, <3>2, <3>3, <3>4 DEF OpenSession
  <2>4. CASE Lookup(w)
    <3>1. CASE UNCHANGED caches
      BY <1>3, <2>4, <3>1 DEF Lookup
    <3>2. CASE caches' = [caches EXCEPT ![work[w].kernel] = GetCache(@, Msg(w).kid)]
      <4>1. PICK k, c : k = work[w].kernel /\ c = GetCache(caches[k], Msg(w).kid)
        OBVIOUS
      <4>2. caches' = [caches EXCEPT ![k] = c]
        BY <3>2, <4>1
      <4>3. k \in DOMAIN caches => CacheSound(c)
        BY <1>1, <4>1, GetCacheSound
      <4>4. \A j \in DOMAIN caches' : CacheSound(caches'[j])
        BY <1>1, <4>2, <4>3, CacheRewritten
      <4> QED BY <1>2, <2>4, <4>4 DEF Lookup, CacheInv
    <3> QED BY <2>4, <3>1, <3>2 DEF Lookup
  <2>5. CASE Build(w)
    <3>1. CASE UNCHANGED caches
      BY <1>3, <2>5, <3>1 DEF Build
    <3>2. CASE caches' = [caches EXCEPT ![work[w].kernel] = SetCache(@, Msg(w).kid, Name(w))]
      <4>1. PICK k, c : k = work[w].kernel /\ c = SetCache(caches[k], Msg(w).kid, Name(w))
        OBVIOUS
      <4>2. caches' = [caches EXCEPT ![k] = c]
        BY <3>2, <4>1
      <4>3. k \in DOMAIN caches => CacheSound(c)
        BY <1>1, <4>1, SetCacheSound
      <4>4. \A j \in DOMAIN caches' : CacheSound(caches'[j])
        BY <1>1, <4>2, <4>3, CacheRewritten
      <4> QED BY <1>2, <2>5, <4>4 DEF Build, CacheInv
    <3> QED BY <2>5, <3>1, <3>2 DEF Build
  <2>6. CASE BuildFails(w)
    BY <1>3, <2>6 DEF BuildFails
  <2>7. CASE Tensor(w)
    <3>1. UNCHANGED <<caches, session_kernel_cache, session_id_cache>>
      BY <2>7, Zenon DEF Tensor
    <3> QED BY <1>3, <3>1
  <2>8. CASE ComputeAsync(w)
    BY <1>3, <2>8 DEF ComputeAsync
  <2>9. CASE Compute(w)
    BY <1>3, <2>9 DEF Compute
  <2>10. CASE AsyncDone(w)
    BY <1>3, <2>10 DEF AsyncDone
  <2>11. CASE AsyncFails(w)
    BY <1>3, <2>11 DEF AsyncFails
  <2> QED
    BY <1>7, <2>1, <2>2, <2>3, <2>4, <2>5, <2>6, <2>7, <2>8, <2>9, <2>10, <2>11 DEF WorkerStep
<1>8. CASE UNCHANGED vars
  BY <1>3, <1>8 DEF vars, devVars
<1> QED BY <1>4, <1>5, <1>6, <1>7, <1>8 DEF Next, DevStep

\* A bounded list bounds what it lists.
LEMMA ListBounds ==
    ASSUME NEW s, s \in Seq(Range(s)), NEW S, S \subseteq Range(s)
    PROVE  Cardinality(S) \in Nat /\ Cardinality(S) <= Len(s)
<1>1. PICK n : n = Len(s)
  OBVIOUS
<1>2. n \in Nat /\ DOMAIN s = 1 .. n /\ Range(s) = {s[i] : i \in 1 .. n}
  BY <1>1 DEF Range
<1>3. IsFiniteSet(1 .. n) /\ Cardinality(1 .. n) = n
  <2>1. n >= 1 => n - 1 + 1 = n
    BY <1>2
  <2> QED BY <1>2, <2>1, FS_Interval
<1>4. s \in Surjection(1 .. n, Range(s))
  BY <1>2 DEF Surjection
<1>5. IsFiniteSet(Range(s)) /\ Cardinality(Range(s)) <= n
  BY <1>3, <1>4, FS_Surjection
<1>6. IsFiniteSet(S) /\ Cardinality(S) <= Cardinality(Range(s))
  BY <1>5, FS_Subset
<1>7. Cardinality(S) \in Nat /\ Cardinality(Range(s)) \in Nat
  BY <1>5, <1>6, FS_CardinalityType
<1> QED BY <1>1, <1>2, <1>5, <1>6, <1>7

\* The caches keep to their bounds in every behaviour.
THEOREM KernelCacheInvariance == Spec => []CacheInv
  BY CacheInitInv, CacheNextInv, PTL DEF Spec

THEOREM CachesStayBounded == Spec => []CachesBounded
<1>1. ASSUME CacheInv PROVE CachesBounded
  <2>1. \A k \in DOMAIN caches : /\ IsInjective(caches[k].lru)
                                 /\ Range(caches[k].lru) = DOMAIN caches[k].iter
                                 /\ Len(caches[k].lru) <= Capacity + 1
    BY <1>1 DEF CacheInv, CacheSound
  <2>2. PICK mapped : mapped = {i \in Session : session_kernel_cache[i] # NoCache}
    OBVIOUS
  <2>3. PICK s : s = session_id_cache
    OBVIOUS
  <2>4. s \in Seq(Range(s)) /\ Len(s) <= SessionCacheNum + 1 /\ mapped \subseteq Range(s)
    BY <1>1, <2>2, <2>3 DEF CacheInv, SessionsListed
  <2>5. Cardinality(mapped) \in Nat /\ Cardinality(mapped) <= Len(s) /\ Len(s) \in Nat
    BY <2>4, ListBounds
  <2>6. Cardinality(mapped) <= SessionCacheNum + 1
    BY <2>4, <2>5, CacheAssumption
  <2> QED BY <2>1, <2>2, <2>3, <2>4, <2>6 DEF CachesBounded
<1> QED BY <1>1, KernelCacheInvariance, PTL

-----------------------------------------------------------------------------
(* The workers: the shapes they report                                     *)

\* The first n sizes of an array.
Sized(dims, n) == [i \in 1 .. n |-> dims[i]]

\* Dims reads the sizes before the first end mark.
LEMMA DimsRead ==
    ASSUME NEW dims, NEW n \in 0 .. MaxDims, \A i \in 1 .. n : dims[i] # DimEnd,
           n = MaxDims \/ dims[n + 1] = DimEnd
    PROVE  Dims(dims) = Sized(dims, n)
<1>1. PICK marks : marks = {i \in 1 .. MaxDims : dims[i] = DimEnd}
  OBVIOUS
<1>2. PICK m : m = CHOOSE k \in 0 .. MaxDims : /\ \A i \in 1 .. k : i \notin marks
                                               /\ k = MaxDims \/ k + 1 \in marks
  OBVIOUS
<1>3. (\A i \in 1 .. n : i \notin marks) /\ (n = MaxDims \/ n + 1 \in marks)
  BY <1>1, DimsAssumption
<1>4. /\ m \in 0 .. MaxDims /\ \A i \in 1 .. m : i \notin marks
      /\ m = MaxDims \/ m + 1 \in marks
  BY <1>2, <1>3
<1>5. m = n
  <2>1. ~(m < n)
    BY <1>3, <1>4, DimsAssumption
  <2>2. ~(n < m)
    BY <1>3, <1>4, DimsAssumption
  <2> QED BY <1>4, <2>1, <2>2, DimsAssumption
<1> QED BY <1>1, <1>2, <1>5 DEF Dims, Sized

\* Every array is read in this way.
LEMMA DimsEnd ==
    ASSUME NEW dims
    PROVE  \E n \in 0 .. MaxDims : /\ \A i \in 1 .. n : dims[i] # DimEnd
                                   /\ n = MaxDims \/ dims[n + 1] = DimEnd
<1>1. PICK marks : marks = {i \in 1 .. MaxDims : dims[i] = DimEnd}
  OBVIOUS
<1>2. CASE marks = {}
  <2>1. MaxDims \in 0 .. MaxDims /\ \A i \in 1 .. MaxDims : dims[i] # DimEnd
    BY <1>1, <1>2, DimsAssumption
  <2> QED BY <2>1
<1>3. CASE marks # {}
  <2>1. marks \subseteq Nat
    BY <1>1
  <2>2. PICK m \in marks : \A k \in marks : m <= k
    BY <1>3, <2>1, LeastNatural
  <2>3. m \in 1 .. MaxDims /\ dims[m] = DimEnd
    BY <1>1
  <2>4. PICK n : n = m - 1
    OBVIOUS
  <2>5. n \in 0 .. MaxDims /\ n + 1 = m
    BY <2>3, <2>4, DimsAssumption
  <2>6. \A i \in 1 .. n : i \in 1 .. MaxDims /\ ~(m <= i)
    BY <2>5, DimsAssumption
  <2>7. \A i \in 1 .. n : dims[i] # DimEnd
    BY <1>1, <2>2, <2>6
  <2> QED BY <2>3, <2>5, <2>7
<1> QED BY <1>2, <1>3

\* UpdateFWKOutputShape and GetShapeAndType: what is written over an array is
\* read back, when it has the rank of the array.
LEMMA ReportRead ==
    ASSUME NEW w, NEW shape \in Report(w), shape # << >>,
           Len(shape.out) = Len(Dims(Msg(w).output[1]))
    PROVE  Dims(shape.dims) = shape.out
<1>1. PICK dims : dims = Msg(w).output[1]
  OBVIOUS
<1>2. PICK out \in Computed(w) : shape = [dims |-> Sizes(dims, out), out |-> out]
  BY <1>1 DEF Report
<1>3. PICK n \in 0 .. MaxDims : /\ \A i \in 1 .. n : dims[i] # DimEnd
                                /\ n = MaxDims \/ dims[n + 1] = DimEnd
  BY DimsEnd
<1>4. PICK max : max = Sized(dims, n)
  OBVIOUS
<1>5. Dims(dims) = max
  BY <1>3, <1>4, DimsRead
<1>6. PICK d \in IF max = << >> THEN {0} ELSE 1 .. max[1] :
          out = [i \in DOMAIN max |-> IF i = 1 THEN d ELSE max[i]]
  <2>1. Len(out) = Len(max)
    BY <1>1, <1>2, <1>5
  <2> QED BY <1>1, <1>2, <1>5, <2>1 DEF Computed
<1>7. d # DimEnd
  <2>1. d \in Nat
    OBVIOUS
  <2> QED BY <2>1, DimsAssumption
<1>8. out = [i \in 1 .. n |-> IF i = 1 THEN d ELSE dims[i]]
  BY <1>4, <1>6 DEF Sized
<1>9. n \in Nat /\ Len(out) = n
  BY <1>3, <1>8, DimsAssumption
<1>10. PICK sizes : sizes = Sizes(dims, out)
  OBVIOUS
<1>11. sizes = [i \in 1 .. MaxDims |-> IF i <= n THEN out[i] ELSE dims[i]]
  BY <1>9, <1>10 DEF Sizes
<1>12. \A i \in 1 .. n : sizes[i] = out[i] /\ sizes[i] # DimEnd
  <2>1. \A i \in 1 .. n : i \in 1 .. MaxDims /\ i <= n
    BY <1>3, DimsAssumption
  <2>2. ASSUME NEW i \in 1 .. n PROVE out[i] # DimEnd
    <3>1. dims[i] # DimEnd
      BY <1>3
    <3>2. out[i] = d \/ out[i] = dims[i]
      BY <1>8
    <3> QED BY <1>7, <3>1, <3>2
  <2>3. \A i \in 1 .. n : sizes[i] = out[i]
    BY <1>11, <2>1
  <2> QED BY <2>2, <2>3
<1>13. n = MaxDims \/ sizes[n + 1] = DimEnd
  <2>1. n # MaxDims => n + 1 \in 1 .. MaxDims /\ ~(n + 1 <= n)
    BY <1>3, DimsAssumption
  <2> QED BY <1>3, <1>11, <2>1
<1>14. Dims(sizes) = Sized(sizes, n)
  BY <1>12, <1>13, DimsRead
<1>15. Sized(sizes, n) = out
  BY <1>8, <1>12 DEF Sized
<1>16. shape.dims = sizes /\ shape.out = out
  BY <1>2, <1>10
<1> QED BY <1>14, <1>15, <1>16

LEMMA ReportReadsBack ==
    ASSUME NEW w, NEW shape, shape \in Report(w) \/ shape = << >>
    PROVE  shape # << >> => ReadsBack(work[w].req, shape)
  BY ReportRead DEF ReadsBack, Msg

-----------------------------------------------------------------------------
(* The workers: their contexts and the blocks of a launch                  *)

\* A worker is a stream and a block.
LEMMA WorkerParts ==
    /\ \A w \in Worker : w[1] \in Stream /\ w[2] \in 0 .. Blocks - 1 /\ w = <<w[1], w[2]>>
    /\ \A s \in Stream, b \in 0 .. Blocks - 1 : <<s, b>> \in Worker
  BY DEF Worker

\* Queues are lists.
LEMMA QueueLists ==
    ASSUME Numbered, NEW s \in Stream
    PROVE  queue[s] \in Seq(Range(queue[s])) /\ DOMAIN queue[s] = 1 .. Len(queue[s])
<1>1. PICK q : q = queue[s]
  OBVIOUS
<1>2. Len(q) \in Nat /\ q = [i \in 1 .. Len(q) |-> q[i]]
  BY <1>1 DEF Numbered
<1>3. DOMAIN q = 1 .. Len(q)
  BY <1>2
<1>4. \A i \in 1 .. Len(q) : q[i] \in Range(q)
  BY <1>3 DEF Range
<1>5. q \in Seq(Range(q))
  BY <1>2, <1>4, SeqDef
<1> QED BY <1>1, <1>3, <1>5

\* Workers that are busy name what they make differently.
LEMMA NamesDiffer ==
    ASSUME BlockInv, NEW v \in Worker, NEW w \in Worker, v # w, work[v] # Idle, work[w] # Idle
    PROVE  Name(v) # Name(w)
<1>1. PICK s, t : s = v[1] /\ t = w[1]
  OBVIOUS
<1>2. s \in Stream /\ t \in Stream /\ v = <<s, v[2]>> /\ w = <<t, w[2]>>
  BY <1>1, WorkerParts
<1>3. /\ queue[s] # << >> /\ work[v].req = Head(queue[s])
      /\ queue[t] # << >> /\ work[w].req = Head(queue[t])
  BY <1>1 DEF BlockInv, Running
<1>4. /\ 1 \in DOMAIN queue[s] /\ Head(queue[s]) = queue[s][1]
      /\ 1 \in DOMAIN queue[t] /\ Head(queue[t]) = queue[t][1]
  BY <1>2, <1>3, QueueLists DEF BlockInv
<1>5. ASSUME Name(v) = Name(w) PROVE FALSE
  <2>1. queue[s][1].n = queue[t][1].n /\ v[2] = w[2]
    BY <1>3, <1>4, <1>5 DEF Name
  <2>2. s = t
    BY <1>2, <1>4, <2>1 DEF BlockInv, Numbered
  <2> QED BY <1>2, <2>1, <2>2
<1> QED BY <1>5

\* Worker w goes to another stage of its launch.
MovesTo(w, pc, kernel, ctx, proto, shape) ==
    work' = [work EXCEPT ![w] = [pc |-> pc, req |-> work[w].req, kernel |-> kernel,
                                 ctx |-> ctx, proto |-> proto, shape |-> shape]]

\* The others' parts of the workspace are left alone.
LeavesOthers(w) ==
    \A v \in Worker : v # w /\ work[v] # Idle /\ Name(v) \in DOMAIN ctxs =>
        Name(v) \in DOMAIN ctxs' /\ ctxs'[Name(v)].space = ctxs[Name(v)].space

\* The worker of a block has its part.
HasPart(w, pc, ctx, proto) ==
    work[w].req.blocks > 1 /\ pc \in {"tensor", "run", "async"} =>
        /\ ctx = Name(w) /\ Name(w) \in DOMAIN ctxs'
        /\ IF pc = "tensor" THEN proto /\ ctxs'[Name(w)].space = <<0, 0>>
           ELSE ctxs'[Name(w)].space = Share(w)

\* What the proto and the shape of a worker say of its stage.
Staged(w, pc, ctx, proto, shape) ==
    /\ pc \in {"open", "lookup", "build", "tensor", "run", "async", "done"}
    /\ proto => pc \in {"tensor", "run", "done"} /\ ctx = Name(w)
    /\ shape # << >> => pc = "done" /\ ReadsBack(work[w].req, shape)

\* A step of one worker keeps the invariant when it leaves the others' parts
\* of the workspace alone and has its own.
LEMMA Preserved ==
    ASSUME BlockInv, NEW w \in Worker, work[w] # Idle,
           NEW pc, NEW kernel, NEW ctx, NEW proto, NEW shape,
           Staged(w, pc, ctx, proto, shape), MovesTo(w, pc, kernel, ctx, proto, shape),
           UNCHANGED <<queue, left>>, ContextFields', LeavesOthers(w),
           HasPart(w, pc, ctx, proto)
    PROVE  BlockInv'
<1>1. PICK y : y = [pc |-> pc, req |-> work[w].req, kernel |-> kernel,
                    ctx |-> ctx, proto |-> proto, shape |-> shape]
  OBVIOUS
<1>2. /\ y.pc = pc /\ y.req = work[w].req /\ y.kernel = kernel /\ y.ctx = ctx
      /\ y.proto = proto /\ y.shape = shape
  BY <1>1
<1>3. y # Idle /\ Worked(y)
  <2>1. Idle.pc = "idle"
    BY DEF Idle
  <2>2. y # Idle
    BY <1>2, <2>1 DEF Staged
  <2> QED BY <1>1, <1>2, <2>2 DEF Worked, Staged
<1>4. /\ DOMAIN work' = Worker /\ work'[w] = y
      /\ \A v \in Worker : v # w => work'[v] = work[v]
  BY <1>1 DEF BlockInv, WorkInv, MovesTo
<1>5. WorkInv'
  BY <1>3, <1>4 DEF BlockInv, WorkInv
<1>6. Numbered'
  BY DEF BlockInv, Numbered
<1>7. Running'
  BY <1>2, <1>3, <1>4 DEF BlockInv, Running
<1>8. \A v \in Worker : Name(v)' = Name(v) /\ Share(v)' = Share(v)
  BY <1>2, <1>4 DEF Name, Share, Msg
<1>9. OwnContext'
  <2>1. ASSUME NEW v \in Worker, work'[v] # Idle, v # w
        PROVE  /\ work'[v].proto => work'[v].ctx = Name(v)
               /\ work'[v].req.blocks > 1 /\ work'[v].pc \in {"tensor", "run", "async"} =>
                    /\ work'[v].ctx = Name(v) /\ Name(v) \in DOMAIN ctxs'
                    /\ IF work'[v].pc = "tensor"
                       THEN work'[v].proto /\ ctxs'[Name(v)].space = <<0, 0>>
                       ELSE ctxs'[Name(v)].space = Share(v)
    BY <1>4, <2>1 DEF BlockInv, OwnContext, LeavesOthers
  <2>2. /\ work'[w].proto => work'[w].ctx = Name(w)
        /\ work'[w].req.blocks > 1 /\ work'[w].pc \in {"tensor", "run", "async"} =>
             /\ work'[w].ctx = Name(w) /\ Name(w) \in DOMAIN ctxs'
             /\ IF work'[w].pc = "tensor"
                THEN work'[w].proto /\ ctxs'[Name(w)].space = <<0, 0>>
                ELSE ctxs'[Name(w)].space = Share(w)
    BY <1>2, <1>4 DEF HasPart, Staged
  <2> QED BY <1>8, <2>1, <2>2 DEF OwnContext
<1> QED BY <1>5, <1>6, <1>7, <1>9 DEF BlockInv

\* What a worker with something to do looks like.
LEMMA WorkerFields ==
    ASSUME BlockInv, NEW w \in Worker, NEW pc, At(w, pc), pc # "idle"
    PROVE  /\ work[w] # Idle /\ work[w].pc = pc
           /\ work[w] = [pc |-> work[w].pc, req |-> work[w].req, kernel |-> work[w].kernel,
                         ctx |-> work[w].ctx, proto |-> work[w].proto, shape |-> work[w].shape]
           /\ work[w].proto => pc \in {"tensor", "run", "done"} /\ work[w].ctx = Name(w)
           /\ pc # "done" => work[w].shape = << >>
<1>1. work[w] # Idle /\ work[w].pc = pc
  BY DEF At, Idle
<1>2. Worked(work[w]) /\ (work[w].proto => work[w].ctx = Name(w))
  BY <1>1 DEF BlockInv, WorkInv, OwnContext
<1> QED BY <1>1, <1>2 DEF Worked

\* The steps of a worker that leave the contexts alone and go on, or end.
LEMMA PlainStep ==
    ASSUME BlockInv, NEW w \in Worker, work[w] # Idle, NEW pc, NEW kernel, NEW ctx, NEW proto,
           NEW shape, pc \notin {"tensor", "run", "async"},
           Staged(w, pc, ctx, proto, shape), MovesTo(w, pc, kernel, ctx, proto, shape),
           UNCHANGED <<queue, left, ctxs>>
    PROVE  BlockInv'
<1>1. ContextFields'
  BY DEF BlockInv, ContextFields
<1>2. LeavesOthers(w)
  BY DEF LeavesOthers
<1>3. HasPart(w, pc, ctx, proto)
  BY DEF HasPart
<1> QED BY <1>1, <1>2, <1>3, Preserved

\* Goto from a stage.
LEMMA GoneTo ==
    ASSUME BlockInv, NEW w \in Worker, NEW at \in {"open", "lookup", "build", "tensor"},
           At(w, at), NEW pc \in {"lookup", "build", "done"}, NEW kernel,
           at = "tensor" => pc = "done",
           \/ Goto(w, pc)
           \/ work' = [work EXCEPT ![w].kernel = kernel, ![w].pc = pc],
           UNCHANGED <<queue, left, ctxs>>
    PROVE  BlockInv'
<1>1. PICK x : x = work[w]
  OBVIOUS
<1>2. /\ x # Idle /\ x.pc = at /\ x.shape = << >>
      /\ x = [pc |-> x.pc, req |-> x.req, kernel |-> x.kernel, ctx |-> x.ctx,
              proto |-> x.proto, shape |-> x.shape]
      /\ x.proto => at = "tensor" /\ x.ctx = Name(w)
  BY <1>1, WorkerFields
<1>3. PICK r, k, c, pr, sh : x = [pc |-> at, req |-> r, kernel |-> k, ctx |-> c,
                                  proto |-> pr, shape |-> sh]
  BY <1>2
<1>4. r = work[w].req /\ c = work[w].ctx /\ pr = x.proto /\ sh = << >>
  BY <1>1, <1>2, <1>3
<1>5. \E l : work' = [work EXCEPT ![w] = [pc |-> pc, req |-> r, kernel |-> l, ctx |-> c,
                                          proto |-> pr, shape |-> sh]]
  <2>1. DOMAIN work = Worker
    BY DEF BlockInv, WorkInv
  <2>2. CASE Goto(w, pc)
    <3>1. work' = [work EXCEPT ![w] = [x EXCEPT !.pc = pc]]
      BY <1>1, <2>2 DEF Goto
    <3>2. [x EXCEPT !.pc = pc] = [pc |-> pc, req |-> r, kernel |-> k, ctx |-> c,
                                  proto |-> pr, shape |-> sh]
      BY <1>3
    <3> QED BY <3>1, <3>2
  <2>3. CASE work' = [work EXCEPT ![w].kernel = kernel, ![w].pc = pc]
    <3>1. PICK z : z = [pc |-> at, req |-> r, kernel |-> kernel, ctx |-> c,
                        proto |-> pr, shape |-> sh]
      OBVIOUS
    <3>2. z = [x EXCEPT !.kernel = kernel]
      BY <1>3, <3>1
    <3>3. work' = [work EXCEPT ![w] = [z EXCEPT !.pc = pc]]
      BY <1>1, <2>1, <2>3, <3>2
    <3>4. [z EXCEPT !.pc = pc] = [pc |-> pc, req |-> r, kernel |-> kernel, ctx |-> c,
                                  proto |-> pr, shape |-> sh]
      BY <3>1
    <3> QED BY <3>3, <3>4
  <2> QED BY <2>2, <2>3
<1>6. PICK l : MovesTo(w, pc, l, c, pr, sh)
  BY <1>4, <1>5 DEF MovesTo
<1>7. Staged(w, pc, c, pr, sh)
  BY <1>1, <1>2, <1>4 DEF Staged
<1>8. work[w] # Idle /\ pc \notin {"tensor", "run", "async"}
  BY <1>1, <1>2
<1> QED BY <1>6, <1>7, <1>8, PlainStep

\* A worker that returns from its run.
LEMMA Returned ==
    ASSUME BlockInv, NEW w \in Worker, NEW at \in {"run", "async"}, At(w, at),
           NEW pc \in {"async", "done"}, NEW shape, Return(w, pc, shape),
           shape # << >> => pc = "done" /\ ReadsBack(work[w].req, shape),
           UNCHANGED <<queue, left, ctxs>>
    PROVE  BlockInv'
<1>1. PICK x : x = work[w]
  OBVIOUS
<1>2. /\ x # Idle /\ x.pc = at
      /\ x = [pc |-> x.pc, req |-> x.req, kernel |-> x.kernel, ctx |-> x.ctx,
              proto |-> x.proto, shape |-> x.shape]
  BY <1>1, WorkerFields
<1>3. PICK r, k, c, pr, sh : x = [pc |-> at, req |-> r, kernel |-> k, ctx |-> c,
                                  proto |-> pr, shape |-> sh]
  BY <1>2
<1>4. r = work[w].req /\ c = work[w].ctx
  BY <1>1, <1>3
<1>5. MovesTo(w, pc, NoCache, c, FALSE, shape)
  <2>1. PICK n : n = NoCache
    OBVIOUS
  <2>2. PICK y : y = [x EXCEPT !.kernel = n, !.proto = FALSE, !.pc = pc, !.shape = shape]
    OBVIOUS
  <2>3. work' = [work EXCEPT ![w] = y]
    BY <1>1, <2>1, <2>2 DEF Return
  <2>4. y = [pc |-> pc, req |-> r, kernel |-> n, ctx |-> c, proto |-> FALSE, shape |-> shape]
    <3>1. PICK a : a = [x EXCEPT !.kernel = n]
      OBVIOUS
    <3>2. a = [pc |-> at, req |-> r, kernel |-> n, ctx |-> c, proto |-> pr, shape |-> sh]
      BY <1>3, <3>1
    <3>3. PICK b : b = [a EXCEPT !.proto = FALSE]
      OBVIOUS
    <3>4. b = [pc |-> at, req |-> r, kernel |-> n, ctx |-> c, proto |-> FALSE, shape |-> sh]
      BY <3>2, <3>3
    <3>5. PICK d : d = [b EXCEPT !.pc = pc]
      OBVIOUS
    <3>6. d = [pc |-> pc, req |-> r, kernel |-> n, ctx |-> c, proto |-> FALSE, shape |-> sh]
      BY <3>4, <3>5
    <3>7. y = [d EXCEPT !.shape = shape]
      BY <2>2, <3>1, <3>3, <3>5
    <3> QED BY <3>6, <3>7
  <2> QED BY <1>4, <2>1, <2>3, <2>4 DEF MovesTo
<1>6. Staged(w, pc, c, FALSE, shape)
  BY DEF Staged
<1>7. ContextFields' /\ LeavesOthers(w)
  BY DEF BlockInv, ContextFields, LeavesOthers
<1>8. HasPart(w, pc, c, FALSE)
  <2>1. ASSUME work[w].req.blocks > 1
        PROVE  c = Name(w) /\ Name(w) \in DOMAIN ctxs /\ ctxs[Name(w)].space = Share(w)
    <3>1. work[w] # Idle /\ work[w].pc = at /\ at \in {"tensor", "run", "async"} /\ at # "tensor"
      BY <1>1, <1>2
    <3> QED BY <1>4, <2>1, <3>1 DEF BlockInv, OwnContext
  <2> QED BY <2>1 DEF HasPart
<1> QED BY <1>1, <1>2, <1>5, <1>6, <1>7, <1>8, Preserved

\* A context found in the cache is for a launch of one block.
LEMMA LookupInv == ASSUME BlockInv, NEW w \in Worker, Lookup(w), UNCHANGED left PROVE BlockInv'
<1>1. At(w, "lookup") /\ UNCHANGED <<queue, ctxs>>
  BY DEF Lookup
<1>2. CASE Goto(w, "done") \/ Goto(w, "build")
  BY <1>1, <1>2, GoneTo
<1>3. CASE /\ MayHit(w)
           /\ work' = [work EXCEPT ![w].ctx = caches[work[w].kernel].iter[Msg(w).kid],
                                   ![w].pc = "tensor"]
  <2>1. PICK x : x = work[w]
    OBVIOUS
  <2>2. /\ x # Idle /\ x.shape = << >> /\ ~x.proto
        /\ x = [pc |-> x.pc, req |-> x.req, kernel |-> x.kernel, ctx |-> x.ctx,
                proto |-> x.proto, shape |-> x.shape]
    BY <1>1, <2>1, WorkerFields
  <2>3. PICK c : c = caches[work[w].kernel].iter[Msg(w).kid]
    OBVIOUS
  <2>4. PICK p, r, k, a, pr, sh : x = [pc |-> p, req |-> r, kernel |-> k, ctx |-> a,
                                       proto |-> pr, shape |-> sh]
    BY <2>2
  <2>5. r = work[w].req /\ pr = x.proto /\ sh = << >>
    BY <2>1, <2>2, <2>4
  <2>6. MovesTo(w, "tensor", k, c, pr, sh)
    <3>1. PICK z : z = [pc |-> p, req |-> r, kernel |-> k, ctx |-> c, proto |-> pr, shape |-> sh]
      OBVIOUS
    <3>2. z = [x EXCEPT !.ctx = c]
      BY <2>4, <3>1
    <3>3. DOMAIN work = Worker
      BY DEF BlockInv, WorkInv
    <3>4. work' = [work EXCEPT ![w] = [z EXCEPT !.pc = "tensor"]]
      BY <1>3, <2>1, <2>3, <3>2, <3>3
    <3>5. [z EXCEPT !.pc = "tensor"] = [pc |-> "tensor", req |-> r, kernel |-> k, ctx |-> c,
                                        proto |-> pr, shape |-> sh]
      BY <3>1
    <3> QED BY <2>5, <3>4, <3>5 DEF MovesTo
  <2>7. Staged(w, "tensor", c, pr, sh)
    BY <2>2, <2>5 DEF Staged
  <2>8. ContextFields' /\ LeavesOthers(w)
    BY <1>1 DEF BlockInv, ContextFields, LeavesOthers
  <2>9. HasPart(w, "tensor", c, pr)
    <3>1. work[w].req.blocks \in {0, 1}
      BY <1>3 DEF MayHit
    <3> QED BY <3>1 DEF HasPart
  <2> QED BY <1>1, <2>1, <2>2, <2>6, <2>7, <2>8, <2>9, Preserved
<1> QED BY <1>2, <1>3 DEF Lookup

\* Build makes a context of the worker's own.
LEMMA BuildInv == ASSUME BlockInv, NEW w \in Worker, Build(w), UNCHANGED left PROVE BlockInv'
<1>1. At(w, "build") /\ UNCHANGED queue
  BY DEF Build
<1>2. PICK x : x = work[w]
  OBVIOUS
<1>3. /\ x # Idle /\ x.shape = << >>
      /\ x = [pc |-> x.pc, req |-> x.req, kernel |-> x.kernel, ctx |-> x.ctx,
              proto |-> x.proto, shape |-> x.shape]
  BY <1>1, <1>2, WorkerFields
<1>4. PICK c : c = Name(w)
  OBVIOUS
<1>5. PICK p, r, k, a, pr, sh : x = [pc |-> p, req |-> r, kernel |-> k, ctx |-> a,
                                     proto |-> pr, shape |-> sh]
  BY <1>3
<1>6. r = work[w].req /\ sh = << >>
  BY <1>2, <1>3, <1>5
<1>7. MovesTo(w, "tensor", k, c, TRUE, sh)
  <2>1. PICK y : y = [pc |-> p, req |-> r, kernel |-> k, ctx |-> c, proto |-> pr, shape |-> sh]
    OBVIOUS
  <2>a. PICK yes : yes = TRUE
    OBVIOUS
  <2>2. PICK z : z = [pc |-> p, req |-> r, kernel |-> k, ctx |-> c, proto |-> yes, shape |-> sh]
    OBVIOUS
  <2>b. y = [x EXCEPT !.ctx = c]
    BY <1>5, <2>1
  <2>3. z = [y EXCEPT !.proto = yes]
    BY <2>1, <2>2
  <2>4. DOMAIN work = Worker
    BY DEF BlockInv, WorkInv
  <2>5. work' = [work EXCEPT ![w].ctx = c, ![w].proto = TRUE, ![w].pc = "tensor"]
    BY <1>4 DEF Build
  <2>6. work' = [work EXCEPT ![w] = [z EXCEPT !.pc = "tensor"]]
    BY <1>2, <2>a, <2>b, <2>3, <2>4, <2>5
  <2>7. [z EXCEPT !.pc = "tensor"] = [pc |-> "tensor", req |-> r, kernel |-> k, ctx |-> c,
                                      proto |-> yes, shape |-> sh]
    BY <2>2
  <2>8. MovesTo(w, "tensor", k, c, yes, sh)
    BY <1>6, <2>6, <2>7 DEF MovesTo
  <2> QED BY <2>a, <2>8
<1>8. Staged(w, "tensor", c, TRUE, sh)
  BY <1>4, <1>6 DEF Staged
<1>9. PICK new : new = [node |-> work[w].req.node, blk |-> Blk(w), io |-> 0, shape |-> << >>,
                        space |-> <<0, 0>>]
  OBVIOUS
<1>10. ctxs' = With(ctxs, c, new) /\ new.space = <<0, 0>>
  BY <1>4, <1>9 DEF Build
<1>11. /\ DOMAIN ctxs' = DOMAIN ctxs \cup {c} /\ ctxs'[c] = new
       /\ \A d \in DOMAIN ctxs : d # c => ctxs'[d] = ctxs[d]
  BY <1>10 DEF With
<1>12. ContextFields'
  <2>1. new = [node |-> new.node, blk |-> new.blk, io |-> new.io, shape |-> new.shape,
               space |-> new.space]
    BY <1>9
  <2> QED BY <1>11, <2>1 DEF BlockInv, ContextFields
<1>13. LeavesOthers(w)
  <2>1. \A v \in Worker : v # w /\ work[v] # Idle => Name(v) # c
    BY <1>2, <1>3, <1>4, NamesDiffer
  <2> QED BY <1>11, <2>1 DEF LeavesOthers
<1>14. HasPart(w, "tensor", c, TRUE)
  BY <1>4, <1>10, <1>11 DEF HasPart
<1> QED BY <1>1, <1>2, <1>3, <1>7, <1>8, <1>12, <1>13, <1>14, Preserved

\* Tensor gives a context it has built its part, and leaves the part of one it
\* has found alone.
LEMMA TensorInv == ASSUME BlockInv, NEW w \in Worker, Tensor(w), UNCHANGED left PROVE BlockInv'
<1>1. At(w, "tensor") /\ UNCHANGED queue
  BY Zenon DEF Tensor
<1>2. CASE Goto(w, "done") /\ UNCHANGED ctxs
  BY <1>1, <1>2, GoneTo
<1>3. ASSUME NEW sh, Goto(w, "run"),
             ctxs' = [ctxs EXCEPT ![work[w].ctx] =
                        [@ EXCEPT !.io = work[w].req.n, !.space = Space(w), !.shape = sh]]
      PROVE  BlockInv'
  <2>1. PICK x : x = work[w]
    OBVIOUS
  <2>2. /\ x # Idle /\ x.shape = << >> /\ x.pc = "tensor"
        /\ x = [pc |-> x.pc, req |-> x.req, kernel |-> x.kernel, ctx |-> x.ctx,
                proto |-> x.proto, shape |-> x.shape]
        /\ x.proto => x.ctx = Name(w)
    BY <1>1, <2>1, WorkerFields
  <2>3. PICK p, r, k, c, pr, e : x = [pc |-> p, req |-> r, kernel |-> k, ctx |-> c,
                                      proto |-> pr, shape |-> e]
    BY <2>2
  <2>4. r = work[w].req /\ c = work[w].ctx /\ pr = x.proto /\ e = << >>
    BY <2>1, <2>2, <2>3
  <2>5. MovesTo(w, "run", k, c, pr, e)
    <3>1. work' = [work EXCEPT ![w] = [x EXCEPT !.pc = "run"]]
      BY <1>3, <2>1 DEF Goto
    <3>2. [x EXCEPT !.pc = "run"] = [pc |-> "run", req |-> r, kernel |-> k, ctx |-> c,
                                     proto |-> pr, shape |-> e]
      BY <2>3
    <3> QED BY <2>4, <3>1, <3>2 DEF MovesTo
  <2>6. Staged(w, "run", c, pr, e)
    BY <2>1, <2>2, <2>4 DEF Staged
  <2>7. PICK io, space : io = work[w].req.n /\ space = Space(w)
    OBVIOUS
  <2>8. ctxs' = [ctxs EXCEPT ![c] = [@ EXCEPT !.io = io, !.space = space, !.shape = sh]]
    BY <1>3, <2>4, <2>7
  <2>9. /\ DOMAIN ctxs' = DOMAIN ctxs
        /\ \A d \in DOMAIN ctxs : d # c => ctxs'[d] = ctxs[d]
    BY <2>8
  <2>10. ASSUME c \in DOMAIN ctxs
         PROVE  \E node, blk : ctxs'[c] = [node |-> node, blk |-> blk, io |-> io, shape |-> sh,
                                           space |-> space]
    <3>1. PICK n, b, i, h, a : ctxs[c] = [node |-> n, blk |-> b, io |-> i, shape |-> h,
                                          space |-> a]
      BY <2>10 DEF BlockInv, ContextFields
    <3>2. PICK y : y = [node |-> n, blk |-> b, io |-> io, shape |-> h, space |-> a]
      OBVIOUS
    <3>3. PICK z : z = [node |-> n, blk |-> b, io |-> io, shape |-> h, space |-> space]
      OBVIOUS
    <3>4. y = [ctxs[c] EXCEPT !.io = io]
      BY <3>1, <3>2
    <3>5. z = [y EXCEPT !.space = space]
      BY <3>2, <3>3
    <3>6. ctxs'[c] = [z EXCEPT !.shape = sh]
      BY <2>8, <2>10, <3>4, <3>5
    <3>7. [z EXCEPT !.shape = sh] = [node |-> n, blk |-> b, io |-> io, shape |-> sh,
                                     space |-> space]
      BY <3>3
    <3> QED BY <3>6, <3>7
  <2>11. ASSUME c \in DOMAIN ctxs PROVE ctxs'[c].space = space
    <3>1. PICK node, blk : ctxs'[c] = [node |-> node, blk |-> blk, io |-> io, shape |-> sh,
                                       space |-> space]
      BY <2>10, <2>11
    <3> QED BY <3>1
  <2>12. ContextFields'
    <3>1. ASSUME NEW d \in DOMAIN ctxs', d # c
          PROVE  ctxs'[d] = [node |-> ctxs'[d].node, blk |-> ctxs'[d].blk, io |-> ctxs'[d].io,
                             shape |-> ctxs'[d].shape, space |-> ctxs'[d].space]
      BY <2>9, <3>1 DEF BlockInv, ContextFields
    <3>2. ASSUME c \in DOMAIN ctxs'
          PROVE  ctxs'[c] = [node |-> ctxs'[c].node, blk |-> ctxs'[c].blk, io |-> ctxs'[c].io,
                             shape |-> ctxs'[c].shape, space |-> ctxs'[c].space]
      <4>1. PICK node, blk : ctxs'[c] = [node |-> node, blk |-> blk, io |-> io, shape |-> sh,
                                         space |-> space]
        BY <2>9, <2>10, <3>2
      <4> QED BY <4>1
    <3> QED BY <3>1, <3>2 DEF ContextFields
  <2>13. LeavesOthers(w)
    <3>1. ASSUME NEW v \in Worker, v # w, work[v] # Idle, Name(v) = c, c \in DOMAIN ctxs
          PROVE  ctxs'[c].space = ctxs[c].space
      <4>1. Name(v) # Name(w)
        BY <2>1, <2>2, <3>1, NamesDiffer
      <4>2. ~work[w].proto
        BY <2>1, <2>2, <2>4, <3>1, <4>1
      <4>3. space = ctxs[c].space
        BY <2>4, <2>7, <4>2 DEF Space
      <4> QED BY <2>11, <3>1, <4>3
    <3> QED BY <2>9, <3>1 DEF LeavesOthers
  <2>14. HasPart(w, "run", c, pr)
    <3>1. ASSUME work[w].req.blocks > 1
          PROVE  c = Name(w) /\ c \in DOMAIN ctxs /\ space = Share(w)
      <4>1. work[w].proto /\ c = Name(w) /\ c \in DOMAIN ctxs /\ ctxs[c].space = <<0, 0>>
        BY <2>1, <2>2, <2>4, <3>1 DEF BlockInv, OwnContext
      <4>2. Blk(w) = <<w[2], work[w].req.blocks>>
        BY <3>1 DEF Blk
      <4> QED BY <2>4, <2>7, <4>1, <4>2 DEF Space, Share
    <3> QED BY <2>9, <2>11, <3>1 DEF HasPart
  <2> QED BY <1>1, <2>1, <2>2, <2>5, <2>6, <2>12, <2>13, <2>14, Preserved
<1>4. CASE \E sh : /\ Goto(w, "run")
                   /\ ctxs' = [ctxs EXCEPT ![work[w].ctx] =
                         [@ EXCEPT !.io = work[w].req.n, !.space = Space(w), !.shape = sh]]
  BY <1>3, <1>4
<1> QED BY <1>2, <1>4 DEF Tensor

LEMMA WorkerInv == ASSUME BlockInv, NEW w \in Worker, WorkerStep(w), UNCHANGED left PROVE BlockInv'
<1>1. CASE OpenDirect(w)
  <2>1. At(w, "open") /\ UNCHANGED <<queue, ctxs>> /\ Opened(w, Name(w))
    BY <1>1 DEF OpenDirect
  <2>2. PICK k : k = Name(w)
    OBVIOUS
  <2> QED BY <2>1, <2>2, GoneTo DEF Opened
<1>2. CASE OpenStream(w)
  <2>1. At(w, "open") /\ UNCHANGED <<queue, ctxs>>
    BY <1>2 DEF OpenStream, Asks
  <2>2. PICK k : Opened(w, k)
    BY <1>2 DEF OpenStream
  <2> QED BY <2>1, <2>2, GoneTo DEF Opened
<1>3. CASE OpenSession(w)
  <2>1. At(w, "open") /\ UNCHANGED <<queue, ctxs>>
    BY <1>3 DEF OpenSession, Asks
  <2>2. (\E k : Opened(w, k)) \/ Goto(w, "done")
    BY <1>3 DEF OpenSession
  <2> QED BY <2>1, <2>2, GoneTo DEF Opened
<1>4. CASE BuildFails(w)
  BY <1>4, GoneTo DEF BuildFails
<1>5. CASE ComputeAsync(w)
  <2>1. At(w, "run") /\ UNCHANGED <<queue, ctxs>> /\ Return(w, "async", << >>)
    BY <1>5 DEF ComputeAsync
  <2>2. PICK e : e = << >>
    OBVIOUS
  <2> QED BY <2>1, <2>2, Returned
<1>6. CASE Compute(w)
  <2>1. At(w, "run") /\ UNCHANGED <<queue, ctxs>>
    BY <1>6 DEF Compute
  <2>2. PICK shape : Return(w, "done", shape) /\ (shape \in Report(w) \/ shape = << >>)
    BY <1>6 DEF Compute
  <2>3. shape # << >> => ReadsBack(work[w].req, shape)
    BY <2>2, ReportReadsBack
  <2> QED BY <2>1, <2>2, <2>3, Returned
<1>7. CASE AsyncDone(w)
  <2>1. At(w, "async") /\ UNCHANGED <<queue, ctxs>>
    BY <1>7 DEF AsyncDone
  <2>2. PICK shape : Return(w, "done", shape) /\ (shape \in Report(w) \/ shape = << >>)
    BY <1>7 DEF AsyncDone
  <2>3. shape # << >> => ReadsBack(work[w].req, shape)
    BY <2>2, ReportReadsBack
  <2> QED BY <2>1, <2>2, <2>3, Returned
<1>8. CASE AsyncFails(w)
  <2>1. At(w, "run") /\ UNCHANGED <<queue, ctxs>> /\ Return(w, "done", << >>)
    BY <1>8 DEF AsyncFails
  <2>2. PICK e : e = << >>
    OBVIOUS
  <2> QED BY <2>1, <2>2, Returned
<1> QED BY <1>1, <1>2, <1>3, <1>4, <1>5, <1>6, <1>7, <1>8, LookupInv, BuildInv, TensorInv
        DEF WorkerStep

\* The runtime starts the head of a stream nobody works on.
LEMMA StartInv ==
    ASSUME BlockInv, NEW s \in Stream, Start(s), UNCHANGED left
    PROVE  BlockInv'
<1>1. PICK r : r = Head(queue[s])
  OBVIOUS
<1>2. PICK y : y = [pc |-> "open", req |-> r, kernel |-> NoCache, ctx |-> NoCache,
                    proto |-> FALSE, shape |-> << >>]
  OBVIOUS
<1>3. /\ queue[s] # << >> /\ UNCHANGED <<queue, ctxs>>
      /\ work' = [w \in Worker |-> IF w[1] = s /\ w[2] < BlockNum(r) THEN y ELSE work[w]]
  BY <1>1, <1>2 DEF Start
<1>4. y.pc = "open" /\ y.req = r /\ y.proto = FALSE /\ y.shape = << >>
  BY <1>2
<1>5. y # Idle /\ Worked(y)
  <2>1. y = [pc |-> y.pc, req |-> y.req, kernel |-> y.kernel, ctx |-> y.ctx,
             proto |-> y.proto, shape |-> y.shape]
    BY <1>2
  <2>2. y # Idle
    BY <1>4 DEF Idle
  <2> QED BY <1>4, <2>1, <2>2 DEF Worked
<1>6. /\ DOMAIN work' = Worker
      /\ \A w \in Worker : \/ w[1] = s /\ w[2] < BlockNum(r) /\ work'[w] = y
                           \/ work'[w] = work[w]
  BY <1>3
<1>7. WorkInv'
  BY <1>5, <1>6 DEF BlockInv, WorkInv
<1>8. Numbered'
  BY <1>3 DEF BlockInv, Numbered
<1>9. Running'
  <2>1. ASSUME NEW w \in Worker, work'[w] # Idle
        PROVE  /\ queue[w[1]] # << >> /\ work'[w].req = Head(queue[w[1]])
               /\ w[2] < BlockNum(work'[w].req)
    <3>1. CASE w[1] = s /\ w[2] < BlockNum(r) /\ work'[w] = y
      BY <1>1, <1>3, <1>4, <3>1
    <3>2. CASE work'[w] = work[w]
      BY <2>1, <3>2 DEF BlockInv, Running
    <3> QED BY <1>6, <3>1, <3>2
  <2> QED BY <1>3, <2>1 DEF Running
<1>10. OwnContext'
  <2>1. ASSUME NEW w \in Worker, work'[w] = work[w]
        PROVE  Name(w)' = Name(w) /\ Share(w)' = Share(w)
    BY <2>1 DEF Name, Share, Msg
  <2>2. ASSUME NEW w \in Worker, work'[w] = y
        PROVE  ~work'[w].proto /\ work'[w].pc \notin {"tensor", "run", "async"}
    BY <1>4, <2>2
  <2> QED BY <1>3, <1>6, <2>1, <2>2 DEF BlockInv, OwnContext
<1>11. ContextFields'
  BY <1>3 DEF BlockInv, ContextFields
<1> QED BY <1>7, <1>8, <1>9, <1>10, <1>11 DEF BlockInv

\* The head of a queue goes.
LEMMA Unqueued ==
    ASSUME Numbered, NEW s \in Stream, queue[s] # << >>,
           queue' = [queue EXCEPT ![s] = Tail(@)], UNCHANGED left
    PROVE  Numbered' /\ \A t \in Stream : t # s => queue'[t] = queue[t]
<1>1. PICK q : q = queue[s]
  OBVIOUS
<1>2. PICK n : n = Len(q)
  OBVIOUS
<1>3. PICK p : p = Tail(q)
  OBVIOUS
<1>4. q \in Seq(Range(q)) /\ n \in Nat \ {0} /\ DOMAIN q = 1 .. n
  BY <1>1, <1>2, QueueLists
<1>5. /\ p \in Seq(Range(q)) /\ Len(p) = n - 1
      /\ \A i \in 1 .. n - 1 : p[i] = q[i + 1] /\ i + 1 \in 1 .. n
  <2>1. q # << >>
    BY <1>1
  <2>2. p \in Seq(Range(q)) /\ Len(p) = n - 1
    BY <1>2, <1>3, <1>4, <2>1
  <2>3. ASSUME NEW i \in 1 .. n - 1 PROVE p[i] = q[i + 1] /\ i + 1 \in 1 .. n
    BY <1>2, <1>3, <1>4, <2>1
  <2> QED BY <2>2, <2>3
<1>6. DOMAIN p = 1 .. Len(p) /\ Len(p) \in Nat /\ p = [i \in 1 .. Len(p) |-> p[i]]
  BY <1>5
<1>7. /\ DOMAIN queue' = Stream /\ queue'[s] = p
      /\ \A t \in Stream : t # s => queue'[t] = queue[t]
  BY <1>1, <1>3 DEF Numbered
<1>8. \A t \in Stream : /\ Len(queue'[t]) \in Nat
                        /\ queue'[t] = [i \in 1 .. Len(queue'[t]) |-> queue'[t][i]]
  BY <1>6, <1>7 DEF Numbered
<1>9. PICK k : k = [t \in Stream |-> IF t = s THEN 1 ELSE 0]
  OBVIOUS
<1>10. \A t \in Stream : \A i \in DOMAIN queue'[t] :
          i \in Nat /\ i + k[t] \in DOMAIN queue[t] /\ queue'[t][i] = queue[t][i + k[t]]
  <2>1. ASSUME NEW i \in DOMAIN p
        PROVE  i \in Nat /\ i + 1 \in DOMAIN q /\ p[i] = q[i + 1]
    BY <1>4, <1>5, <1>6
  <2>2. ASSUME NEW t \in Stream, t # s, NEW i \in DOMAIN queue[t]
        PROVE  i \in Nat /\ i + 0 = i
    BY <2>2, QueueLists
  <2> QED BY <1>1, <1>7, <1>9, <2>1, <2>2
<1>11. \A t \in Stream : k[t] \in Nat
  BY <1>9
<1>12. ASSUME NEW t \in Stream, NEW i \in DOMAIN queue'[t]
       PROVE  /\ queue'[t][i].n \in Nat /\ queue'[t][i].n > left.own + left.foreign
              /\ queue'[t][i].blocks \in 0 .. Blocks
              /\ queue'[t][i].blocks > 1 => ParseExtMsg(queue'[t][i].ext).workspace \in Nat
  BY <1>10 DEF Numbered
<1>13. ASSUME NEW t \in Stream, NEW i \in DOMAIN queue'[t], NEW u \in Stream,
              NEW j \in DOMAIN queue'[u], queue'[t][i].n = queue'[u][j].n
       PROVE  t = u /\ i = j
  <2>a. PICK a, b : a = i + k[t] /\ b = j + k[u]
    OBVIOUS
  <2>b. a \in DOMAIN queue[t] /\ b \in DOMAIN queue[u] /\ queue[t][a].n = queue[u][b].n
    BY <1>10, <1>13, <2>a
  <2>1. t = u /\ i + k[t] = j + k[u]
    BY <2>a, <2>b DEF Numbered
  <2>2. i \in Nat /\ j \in Nat /\ k[t] \in Nat
    BY <1>10, <1>11
  <2> QED BY <2>1, <2>2
<1>14. Numbered'
  BY <1>7, <1>8, <1>12, <1>13 DEF Numbered
<1> QED BY <1>7, <1>14

\* The runtime goes on with a stream: what the workers of other streams use
\* stays.
LEMMA RetireInv ==
    ASSUME BlockInv, NEW s \in Stream, Retire(s), UNCHANGED left
    PROVE  BlockInv'
<1>1. PICK used : used = UsedWithout(s)
  OBVIOUS
<1>b. /\ ctxs' = Keep(ctxs, used)
      /\ \A w \in Worker : w[1] # s /\ work[w] # Idle => work[w].ctx \in used
  <2>1. ctxs' = Keep(ctxs, used)
    BY <1>1 DEF Retire
  <2>2. \A w \in Worker : w[1] # s /\ work[w] # Idle => w \in OthersOf(s)
    BY DEF OthersOf
  <2>3. \A w \in OthersOf(s) : work[w].ctx \in used
    BY <1>1 DEF UsedWithout
  <2> QED BY <2>1, <2>2, <2>3
<1>2. /\ queue' = [queue EXCEPT ![s] = Tail(@)] /\ Busy(s)
      /\ work' = [w \in Worker |-> IF w[1] = s THEN Idle ELSE work[w]]
  BY DEF Retire
<1>3. queue[s] # << >>
  <2>1. PICK b \in 0 .. Blocks - 1 : work[<<s, b>>] # Idle
    BY <1>2 DEF Busy
  <2>2. <<s, b>> \in Worker /\ <<s, b>>[1] = s
    BY WorkerParts
  <2> QED BY <2>1, <2>2 DEF BlockInv, Running
<1>4. Numbered' /\ \A t \in Stream : t # s => queue'[t] = queue[t]
  BY <1>2, <1>3, Unqueued DEF BlockInv
<1>5. /\ DOMAIN work' = Worker
      /\ \A w \in Worker : work'[w] # Idle => w[1] # s /\ work'[w] = work[w]
      /\ \A w \in Worker : work'[w] = Idle \/ work'[w] = work[w]
  BY <1>2
<1>6. WorkInv'
  <2>1. Worked(Idle)
    BY DEF Worked
  <2> QED BY <1>5, <2>1 DEF BlockInv, WorkInv
<1>7. Running'
  BY <1>4, <1>5, WorkerParts DEF BlockInv, Running
<1>8. /\ DOMAIN ctxs' = DOMAIN ctxs \cap used
      /\ \A c \in DOMAIN ctxs' : ctxs'[c] = ctxs[c]
  BY <1>b DEF Keep
<1>9. OwnContext'
  <2>1. ASSUME NEW w \in Worker, work'[w] # Idle
        PROVE  /\ work'[w] = work[w] /\ work[w] # Idle /\ work[w].ctx \in used
               /\ Name(w)' = Name(w) /\ Share(w)' = Share(w)
    <3>1. work'[w] = work[w] /\ work[w] # Idle /\ w[1] # s
      BY <1>5, <2>1
    <3> QED BY <1>b, <3>1 DEF Name, Share, Msg
  <2> QED BY <1>8, <2>1 DEF BlockInv, OwnContext
<1>10. ContextFields'
  BY <1>8 DEF BlockInv, ContextFields
<1> QED BY <1>4, <1>6, <1>7, <1>9, <1>10 DEF BlockInv

-----------------------------------------------------------------------------
(* The host's launches                                                     *)

\* Nothing is queued; the budget may shrink.
LEMMA NotQueued ==
    ASSUME BlockInv, HostTypeOK, HostTypeOK', UNCHANGED <<work, ctxs, queue>>,
           left'.own + left'.foreign <= left.own + left.foreign
    PROVE  BlockInv'
<1>1. WorkInv' /\ Running' /\ ContextFields'
  BY DEF BlockInv, WorkInv, Running, ContextFields
<1>2. OwnContext'
  <2>1. \A w \in Worker : Name(w)' = Name(w) /\ Share(w)' = Share(w)
    BY DEF Name, Share, Msg
  <2> QED BY <2>1 DEF BlockInv, OwnContext
<1>3. PICK a, b : a = left.own + left.foreign /\ b = left'.own + left'.foreign
  OBVIOUS
<1>4. a \in Nat /\ b \in Nat /\ b <= a
  BY <1>3 DEF HostTypeOK
<1>5. \A x \in Nat : x > a => x > b
  BY <1>4
<1>6. Numbered'
  BY <1>3, <1>5 DEF BlockInv, Numbered
<1> QED BY <1>1, <1>2, <1>6 DEF BlockInv

\* A launch with the next number is queued.
LEMMA Queued ==
    ASSUME BlockInv, HostTypeOK, HostTypeOK', UNCHANGED <<work, ctxs>>, NEW s \in Stream, NEW r,
           r.n = left.own + left.foreign, r.blocks \in 0 .. Blocks,
           r.blocks > 1 => ParseExtMsg(r.ext).workspace \in Nat,
           queue' = [queue EXCEPT ![s] = Append(@, r)],
           left'.own + left'.foreign < left.own + left.foreign
    PROVE  BlockInv'
<1>1. PICK q : q = queue[s]
  OBVIOUS
<1>2. PICK n : n = Len(q)
  OBVIOUS
<1>3. PICK p : p = Append(q, r)
  OBVIOUS
<1>4. q \in Seq(Range(q)) /\ n \in Nat /\ DOMAIN q = 1 .. n
  BY <1>1, <1>2, QueueLists DEF BlockInv
<1>5. PICK S : S = Range(q) \cup {r}
  OBVIOUS
<1>6. q \in Seq(S) /\ r \in S
  BY <1>4, <1>5
<1>7. /\ p \in Seq(S) /\ Len(p) = n + 1 /\ p[n + 1] = r
      /\ \A i \in 1 .. n : p[i] = q[i]
  BY <1>2, <1>3, <1>6
<1>8. DOMAIN p = 1 .. n + 1 /\ Len(p) \in Nat /\ p = [i \in 1 .. Len(p) |-> p[i]]
  BY <1>4, <1>7
<1>9. /\ DOMAIN queue' = Stream /\ queue'[s] = p
      /\ \A t \in Stream : t # s => queue'[t] = queue[t]
  BY <1>1, <1>3 DEF BlockInv, Numbered
<1>10. PICK a, b : a = left.own + left.foreign /\ b = left'.own + left'.foreign
  OBVIOUS
<1>11. a \in Nat /\ b \in Nat /\ b < a
  BY <1>10 DEF HostTypeOK
<1>12. \A t \in Stream : \A i \in DOMAIN queue'[t] :
          \/ t = s /\ i = n + 1 /\ queue'[t][i] = r
          \/ i \in DOMAIN queue[t] /\ queue'[t][i] = queue[t][i]
  <2>1. \A i \in 1 .. n + 1 : i = n + 1 \/ i \in 1 .. n
    BY <1>4
  <2> QED BY <1>1, <1>4, <1>7, <1>8, <1>9, <2>1
<1>13. \A t \in Stream : \A i \in DOMAIN queue[t] :
          /\ queue[t][i].n \in Nat /\ queue[t][i].n > a /\ queue[t][i].n # a
  <2>1. \A x \in Nat : x > a => x # a
    BY <1>11
  <2> QED BY <1>10, <2>1 DEF BlockInv, Numbered
<1>14. Numbered'
  <2>1. \A t \in Stream : /\ Len(queue'[t]) \in Nat
                          /\ queue'[t] = [i \in 1 .. Len(queue'[t]) |-> queue'[t][i]]
    BY <1>8, <1>9 DEF BlockInv, Numbered
  <2>2. ASSUME NEW t \in Stream, NEW i \in DOMAIN queue'[t]
        PROVE  /\ queue'[t][i].n \in Nat /\ queue'[t][i].n > b
               /\ queue'[t][i].blocks \in 0 .. Blocks
               /\ queue'[t][i].blocks > 1 => ParseExtMsg(queue'[t][i].ext).workspace \in Nat
    <3>1. CASE queue'[t][i] = r
      BY <1>10, <1>11, <3>1
    <3>2. CASE i \in DOMAIN queue[t] /\ queue'[t][i] = queue[t][i]
      <4>1. \A x \in Nat : x > a => x > b
        BY <1>11
      <4> QED BY <1>13, <3>2, <4>1 DEF BlockInv, Numbered
    <3> QED BY <1>12, <3>1, <3>2
  <2>3. ASSUME NEW t \in Stream, NEW i \in DOMAIN queue'[t], NEW u \in Stream,
               NEW j \in DOMAIN queue'[u], queue'[t][i].n = queue'[u][j].n
        PROVE  t = u /\ i = j
    <3>1. CASE queue'[t][i] = r /\ queue'[u][j] = r /\ t = s /\ i = n + 1 /\ u = s /\ j = n + 1
      BY <3>1
    <3>2. CASE queue'[t][i] = r /\ j \in DOMAIN queue[u] /\ queue'[u][j] = queue[u][j]
      BY <1>10, <1>13, <2>3, <3>2
    <3>3. CASE queue'[u][j] = r /\ i \in DOMAIN queue[t] /\ queue'[t][i] = queue[t][i]
      BY <1>10, <1>13, <2>3, <3>3
    <3>4. CASE /\ i \in DOMAIN queue[t] /\ queue'[t][i] = queue[t][i]
               /\ j \in DOMAIN queue[u] /\ queue'[u][j] = queue[u][j]
      BY <2>3, <3>4 DEF BlockInv, Numbered
    <3> QED BY <1>12, <3>1, <3>2, <3>3, <3>4
  <2> QED BY <1>9, <1>10, <2>1, <2>2, <2>3 DEF Numbered
<1>15. \A t \in Stream : queue[t] # << >> => queue'[t] # << >> /\ Head(queue'[t]) = Head(queue[t])
  <2>1. q # << >> => p # << >> /\ Head(p) = Head(q)
    <3>1. ASSUME q # << >> PROVE p # << >> /\ Head(p) = p[1] /\ Head(q) = q[1] /\ 1 \in 1 .. n
      BY <1>2, <1>4, <1>7, <3>1
    <3> QED BY <1>7, <3>1
  <2> QED BY <1>1, <1>9, <2>1
<1>16. Running'
  BY <1>15, WorkerParts DEF BlockInv, Running
<1>17. WorkInv' /\ ContextFields'
  BY DEF BlockInv, WorkInv, ContextFields
<1>18. OwnContext'
  <2>1. \A w \in Worker : Name(w)' = Name(w) /\ Share(w)' = Share(w)
    BY DEF Name, Share, Msg
  <2> QED BY <2>1 DEF BlockInv, OwnContext
<1> QED BY <1>14, <1>16, <1>17, <1>18 DEF BlockInv

LEMMA BlockInitInv == Init => BlockInv
<1> SUFFICES ASSUME Init PROVE BlockInv
  OBVIOUS
<1>1. /\ queue = [s \in Stream |-> << >>] /\ work = [w \in Worker |-> Idle] /\ ctxs = << >>
  BY DEF Init, DevInit
<1>2. WorkInv
  BY <1>1 DEF WorkInv, Worked
<1>3. Numbered
  <2>1. Len(<< >>) = 0 /\ DOMAIN << >> = {}
    OBVIOUS
  <2>2. << >> = [i \in 1 .. 0 |-> << >>[i]]
    OBVIOUS
  <2> QED BY <1>1, <2>1, <2>2 DEF Numbered
<1>4. Running /\ OwnContext /\ ContextFields
  BY <1>1 DEF Running, OwnContext, ContextFields
<1> QED BY <1>2, <1>3, <1>4 DEF BlockInv

\* The host's steps: a launch takes the next number.
LEMMA HostBlockInv == ASSUME BlockInv, HostInv, HostInv', HostStep PROVE BlockInv'
<1>1. HostTypeOK /\ HostTypeOK' /\ UNCHANGED <<work, ctxs>>
  BY HostOnly DEF HostInv
<1>2. left.own \in Nat /\ left.foreign \in Nat
  BY <1>1 DEF HostTypeOK
<1>3. ASSUME UNCHANGED <<queue, left>> PROVE BlockInv'
  <2>1. left'.own + left'.foreign <= left.own + left.foreign
    BY <1>2, <1>3
  <2> QED BY <1>1, <1>3, <2>1, NotQueued
<1>4. ASSUME left' = [left EXCEPT !.own = @ - 1], left.own > 0
      PROVE  left'.own + left'.foreign < left.own + left.foreign
  <2>1. left'.own = left.own - 1 /\ left'.foreign = left.foreign
    BY <1>1, <1>4 DEF HostTypeOK
  <2> QED BY <1>2, <1>4, <2>1
<1>5. ASSUME NEW t \in Thread, NEW e \in Executor, NEW kind \in Kind, AddLauncher(t, e, kind)
      PROVE  BlockInv'
  BY <1>3, <1>5 DEF AddLauncher, devVars
<1>6. ASSUME NEW e \in Executor, Abandon(e) \/ Synchronized(e) \/ Destroy(e) PROVE BlockInv'
  BY <1>3, <1>6 DEF Abandon, Synchronized, Destroy, devVars
<1>7. ASSUME NEW e \in Executor, NEW s \in Stream, NEW rep \in BOOLEAN, NEW shape,
             NEW x \in RunOf(e, s, rep), LaunchTask(e, x, shape)
      PROVE  BlockInv'
  <2>1. x.stream \in Stream
    <3>1. CASE execs[e].st = "run"
      BY <1>7, <3>1 DEF RunOf, HostInv, ListFits
    <3>2. CASE execs[e].st # "run"
      <4>1. execs[e] \in Call
        BY <1>1 DEF HostTypeOK
      <4>2. x = [execs[e] EXCEPT !.st = "run", !.pos = 1, !.rep = rep, !.stream = s]
        BY <1>7, <3>2 DEF RunOf
      <4> QED BY <4>1, <4>2 DEF Call
    <3> QED BY <3>1, <3>2
  <2>2. /\ left.own > 0 /\ left' = [left EXCEPT !.own = @ - 1]
        /\ \E node, ext : queue' = [queue EXCEPT ![x.stream] =
                             Append(@, Launch(left.own + left.foreign, node, 0, ext))]
    BY <1>7 DEF LaunchTask
  <2>3. PICK node, ext : queue' = [queue EXCEPT ![x.stream] =
                             Append(@, Launch(left.own + left.foreign, node, 0, ext))]
    BY <2>2
  <2>4. PICK r : r = Launch(left.own + left.foreign, node, 0, ext)
    OBVIOUS
  <2>5. r.n = left.own + left.foreign /\ r.blocks = 0
    BY <2>4 DEF Launch
  <2>6. r.blocks \in 0 .. Blocks /\ ~(r.blocks > 1)
    BY <2>5, CacheAssumption
  <2>7. PICK u : u = x.stream
    OBVIOUS
  <2>8. u \in Stream /\ queue' = [queue EXCEPT ![u] = Append(@, r)]
    BY <2>1, <2>3, <2>4, <2>7
  <2> QED BY <1>1, <1>4, <2>2, <2>5, <2>6, <2>8, Queued
<1>8. ASSUME NEW e \in Executor, NEW x, NEW shape, NEW ran, LaunchFails(e, x, shape, ran)
      PROVE  BlockInv'
  <2>1. left.own > 0 /\ left' = [left EXCEPT !.own = @ - 1] /\ UNCHANGED queue
    BY <1>8 DEF LaunchFails
  <2>2. left'.own + left'.foreign < left.own + left.foreign
    BY <1>4, <2>1
  <2>3. left'.own + left'.foreign <= left.own + left.foreign
    BY <1>1, <2>2 DEF HostTypeOK
  <2> QED BY <1>1, <2>1, <2>3, NotQueued
<1>10. ASSUME NEW e \in Executor, NEW x, NEW shape, LaunchLost(e, x, shape) PROVE BlockInv'
  <2>1. left.own > 0 /\ left' = [left EXCEPT !.own = @ - 1] /\ UNCHANGED queue
    BY <1>10 DEF LaunchLost
  <2>2. left'.own + left'.foreign < left.own + left.foreign
    BY <1>4, <2>1
  <2>3. left'.own + left'.foreign <= left.own + left.foreign
    BY <1>1, <2>2 DEF HostTypeOK
  <2> QED BY <1>1, <2>1, <2>3, NotQueued
<1>9. ASSUME NEW f \in Foreign, ForeignLaunch(f) PROVE BlockInv'
  <2>1. /\ left.foreign > 0 /\ left' = [left EXCEPT !.foreign = @ - 1]
        /\ queue' = [queue EXCEPT ![f.stream] =
                        Append(@, Launch(left.own + left.foreign, f.node, f.blocks, f.ext))]
    BY <1>9 DEF ForeignLaunch
  <2>2. left'.own + left'.foreign < left.own + left.foreign
    <3>1. left'.own = left.own /\ left'.foreign = left.foreign - 1
      BY <1>1, <2>1 DEF HostTypeOK
    <3> QED BY <1>2, <2>1, <3>1
  <2>3. PICK r : r = Launch(left.own + left.foreign, f.node, f.blocks, f.ext)
    OBVIOUS
  <2>4. r.n = left.own + left.foreign /\ r.blocks = f.blocks /\ r.ext = f.ext
    BY <2>3 DEF Launch
  <2>5. PICK u : u = f.stream
    OBVIOUS
  <2>6. u \in Stream /\ f.blocks \in 0 .. Blocks /\ ParseExtMsg(f.ext).workspace \in Nat
    BY <2>5, ForeignAssumption
  <2>7. queue' = [queue EXCEPT ![u] = Append(@, r)]
    BY <2>1, <2>3, <2>5
  <2>8. r.blocks \in 0 .. Blocks /\ (r.blocks > 1 => ParseExtMsg(r.ext).workspace \in Nat)
    BY <2>4, <2>6
  <2> QED BY <1>1, <2>2, <2>4, <2>6, <2>7, <2>8, Queued
<1> QED BY <1>5, <1>6, <1>7, <1>8, <1>9, <1>10 DEF HostStep

LEMMA BlockNextInv == BlockInv /\ HostInv /\ HostInv' /\ [Next]_vars => BlockInv'
<1> SUFFICES ASSUME BlockInv, HostInv, HostInv', [Next]_vars PROVE BlockInv'
  OBVIOUS
<1>1. CASE HostStep
  BY <1>1, HostBlockInv
<1>2. CASE DevStep /\ UNCHANGED hostVars
  <2>1. UNCHANGED left
    BY <1>2 DEF hostVars
  <2> QED BY <1>2, <2>1, StartInv, RetireInv, WorkerInv DEF DevStep
<1>3. CASE UNCHANGED vars
  <2>1. HostTypeOK /\ HostTypeOK' /\ UNCHANGED <<work, ctxs, queue, left>>
    BY <1>3 DEF vars, devVars, hostVars, HostInv
  <2>2. left'.own + left'.foreign <= left.own + left.foreign
    BY <2>1 DEF HostTypeOK
  <2> QED BY <2>1, <2>2, NotQueued
<1> QED BY <1>1, <1>2, <1>3 DEF Next

-----------------------------------------------------------------------------
(* The theorems                                                            *)

\* The host's invariant holds in every behaviour.
THEOREM HostInvariance == Spec => []HostInv
  BY HostInitInv, HostNextInv, PTL DEF Spec

\* No two launchers hold one task (FindTask, SetVisit).
THEOREM TasksHeldOnce == Spec => []TaskExclusive
<1>1. HostInv => TaskExclusive
  BY DEF HostInv
<1> QED BY <1>1, HostInvariance, PTL

\* The workers' invariant holds in every behaviour.
THEOREM BlockInvariance == Spec => []BlockInv
  BY BlockInitInv, BlockNextInv, HostInvariance, PTL DEF Spec

\* What the host reads back as the shape of an output is what the kernel gave
\* it, if that has the announced rank (UpdateFWKOutputShape, GetShapeAndType).
THEOREM ShapesReadBack == Spec => []OutputShapeRead
<1>1. ASSUME BlockInv PROVE OutputShapeRead
  BY <1>1 DEF BlockInv, WorkInv, Worked, OutputShapeRead, At, Idle
<1> QED BY <1>1, BlockInvariance, PTL

\* The parts of the blocks of a size lie one behind the other and fill it.
LEMMA PartsTile ==
    ASSUME NEW size \in Nat, NEW blocks \in Nat, blocks > 1
    PROVE  /\ PartOf(size, <<0, blocks>>)[1] = 0
           /\ \A b \in 1 .. blocks - 1 :
                PartOf(size, <<b, blocks>>)[1]
                = PartOf(size, <<b - 1, blocks>>)[1] + PartOf(size, <<b - 1, blocks>>)[2]
           /\ PartOf(size, <<blocks - 1, blocks>>)[1] + PartOf(size, <<blocks - 1, blocks>>)[2]
              = size
<1>1. PICK unit : unit = size \div blocks
  OBVIOUS
<1>2. unit \in Int
  BY <1>1
<1>3. \A b \in Int : PartOf(size, <<b, blocks>>) =
          <<unit * b, IF b < blocks - 1 THEN unit ELSE size - unit * (blocks - 1)>>
  BY <1>1 DEF PartOf
<1>4. PartOf(size, <<0, blocks>>)[1] = 0
  BY <1>2, <1>3
<1>5. ASSUME NEW b \in 1 .. blocks - 1
      PROVE  PartOf(size, <<b, blocks>>)[1]
             = PartOf(size, <<b - 1, blocks>>)[1] + PartOf(size, <<b - 1, blocks>>)[2]
  <2>1. PICK c : c = b - 1
    OBVIOUS
  <2>2. b \in Int /\ c \in Int /\ c < blocks - 1
    BY <2>1
  <2>3. PartOf(size, <<b, blocks>>)[1] = unit * b /\ PartOf(size, <<c, blocks>>) = <<unit * c, unit>>
    BY <1>3, <2>2
  <2>4. unit * b = unit * c + unit
    BY <1>2, <2>1, <2>2
  <2> QED BY <2>1, <2>3, <2>4
<1>6. PartOf(size, <<blocks - 1, blocks>>)[1] + PartOf(size, <<blocks - 1, blocks>>)[2] = size
  <2>1. PICK c : c = blocks - 1
    OBVIOUS
  <2>2. c \in Int /\ ~(c < blocks - 1)
    BY <2>1
  <2>3. PICK m : m = unit * (blocks - 1)
    OBVIOUS
  <2>4. m \in Int
    BY <1>2, <2>3
  <2>5. PartOf(size, <<c, blocks>>) = <<m, size - m>>
    BY <1>3, <2>1, <2>2, <2>3
  <2>6. m + (size - m) = size
    BY <2>4
  <2> QED BY <2>1, <2>5, <2>6
<1> QED BY <1>4, <1>5, <1>6

\* The blocks of a launch share the workspace without gap or overlap
\* (UpdateCustWorkSpaceInfo), although other launches find their contexts in
\* the cache and write into them.
THEOREM BlocksShareWorkspace == Spec => []BlocksTile
<1>1. ASSUME BlockInv, NEW s \in Stream, Busy(s), Head(queue[s]).blocks > 1,
             \A b \in 0 .. Head(queue[s]).blocks - 1 : Using(<<s, b>>)
      PROVE  LET r == Head(queue[s])
                 part(b) == ctxs[work[<<s, b>>].ctx].space
                 last == part(r.blocks - 1)
             IN  /\ part(0)[1] = 0
                 /\ \A b \in (0 .. r.blocks - 1) \ {0} :
                        part(b)[1] = part(b - 1)[1] + part(b - 1)[2]
                 /\ last[1] + last[2] = ParseExtMsg(r.ext).workspace
  <2>1. PICK r, n, size : r = Head(queue[s]) /\ n = r.blocks /\ size = ParseExtMsg(r.ext).workspace
    OBVIOUS
  <2>2. queue[s] # << >>
    <3>1. PICK b \in 0 .. Blocks - 1 : work[<<s, b>>] # Idle
      BY <1>1 DEF Busy
    <3>2. <<s, b>> \in Worker /\ <<s, b>>[1] = s
      BY WorkerParts
    <3> QED BY <1>1, <3>1, <3>2 DEF BlockInv, Running
  <2>3. 1 \in DOMAIN queue[s] /\ r = queue[s][1]
    BY <1>1, <2>1, <2>2, QueueLists DEF BlockInv
  <2>4. n \in 0 .. Blocks /\ size \in Nat /\ n > 1
    BY <1>1, <2>1, <2>3 DEF BlockInv, Numbered
  <2>5. PICK part : part = [b \in 0 .. n - 1 |-> ctxs[work[<<s, b>>].ctx].space]
    OBVIOUS
  <2>6. ASSUME NEW b \in 0 .. n - 1
        PROVE  part[b] = IF size > 0 THEN PartOf(size, <<b, n>>) ELSE <<0, 0>>
    <3>1. PICK w : w = <<s, b>>
      OBVIOUS
    <3>2. b \in 0 .. Blocks - 1
      BY <2>4, CacheAssumption
    <3>3. w \in Worker /\ w[1] = s /\ w[2] = b
      BY <3>1, <3>2, WorkerParts
    <3>4. work[w] # Idle /\ work[w].pc \in {"run", "async"}
      BY <1>1, <2>1, <3>1 DEF Using, Idle
    <3>5. work[w].req = r
      BY <1>1, <2>1, <3>3, <3>4 DEF BlockInv, Running
    <3>6. work[w].ctx = Name(w) /\ ctxs[Name(w)].space = Share(w)
      BY <1>1, <2>1, <2>4, <3>3, <3>4, <3>5 DEF BlockInv, OwnContext
    <3>7. Share(w) = IF size > 0 THEN PartOf(size, <<b, n>>) ELSE <<0, 0>>
      BY <2>1, <3>3, <3>5 DEF Share, Msg
    <3> QED BY <2>5, <3>1, <3>6, <3>7
  <2>7. /\ part[0][1] = 0
        /\ \A b \in (0 .. n - 1) \ {0} : part[b][1] = part[b - 1][1] + part[b - 1][2]
        /\ part[n - 1][1] + part[n - 1][2] = size
    <3>1. 0 \in 0 .. n - 1 /\ n - 1 \in 0 .. n - 1 /\ n \in Nat
      BY <2>4, CacheAssumption
    <3>2. \A b \in (0 .. n - 1) \ {0} : b \in 0 .. n - 1 /\ b - 1 \in 0 .. n - 1 /\ b \in 1 .. n - 1
      BY <3>1
    <3>3. CASE size > 0
      <4>1. \A b \in 0 .. n - 1 : part[b] = PartOf(size, <<b, n>>)
        BY <2>6, <3>3
      <4>2. /\ PartOf(size, <<0, n>>)[1] = 0
            /\ PartOf(size, <<n - 1, n>>)[1] + PartOf(size, <<n - 1, n>>)[2] = size
        BY <2>4, <3>1, PartsTile
      <4>3. \A b \in 1 .. n - 1 :
                PartOf(size, <<b, n>>)[1]
                = PartOf(size, <<b - 1, n>>)[1] + PartOf(size, <<b - 1, n>>)[2]
        BY <2>4, <3>1, PartsTile
      <4> QED BY <3>1, <3>2, <4>1, <4>2, <4>3
    <3>4. CASE size = 0
      <4>1. \A b \in 0 .. n - 1 : part[b] = <<0, 0>>
        BY <2>6, <3>4
      <4> QED BY <3>1, <3>2, <3>4, <4>1
    <3> QED BY <2>4, <3>3, <3>4
  <2>8. \A b \in 0 .. n - 1 : part[b] = ctxs[work[<<s, b>>].ctx].space
    BY <2>5
  <2>9. \A b \in (0 .. n - 1) \ {0} : b \in 0 .. n - 1 /\ b - 1 \in 0 .. n - 1
    BY <2>4, CacheAssumption
  <2>10. 0 \in 0 .. n - 1 /\ n - 1 \in 0 .. n - 1
    BY <2>4, CacheAssumption
  <2> QED BY <2>1, <2>7, <2>8, <2>9, <2>10
<1>2. BlockInv => BlocksTile
  BY <1>1 DEF BlocksTile
<1> QED BY <1>2, BlockInvariance, PTL

-----------------------------------------------------------------------------
(* The records of a launch: what the device reads of what the host wrote   *)

\* The loop of ParseExtMsg over six records.
LEMMA SixRecords ==
    ASSUME NEW ext, Len(ext) = 6
    PROVE  \E m : /\ m[0] = ExtInfoMsg /\ ParseExtMsg(ext) = m[6]
                  /\ \A n \in 1 .. 6 : m[n] = ParseEntry(m[n - 1], ext[n])
<1>1. PICK m0, m1, m2, m3, m4, m5, m6 :
         /\ m0 = ExtInfoMsg /\ m1 = ParseEntry(m0, ext[1]) /\ m2 = ParseEntry(m1, ext[2])
         /\ m3 = ParseEntry(m2, ext[3]) /\ m4 = ParseEntry(m3, ext[4])
         /\ m5 = ParseEntry(m4, ext[5]) /\ m6 = ParseEntry(m5, ext[6])
  OBVIOUS
<1>2. PICK g : g = [n \in 0 .. 6 |-> <<m0, m1, m2, m3, m4, m5, m6>>[n + 1]]
  OBVIOUS
<1>3. /\ g[0] = m0 /\ g[1] = m1 /\ g[2] = m2 /\ g[3] = m3 /\ g[4] = m4 /\ g[5] = m5 /\ g[6] = m6
  BY <1>2
<1>4. \A n \in 0 .. 6 : n = 0 \/ n = 1 \/ n = 2 \/ n = 3 \/ n = 4 \/ n = 5 \/ n = 6
  OBVIOUS
<1>5. \A n \in 0 .. 6 : g[n] = IF n = 0 THEN ExtInfoMsg ELSE ParseEntry(g[n - 1], ext[n])
  BY <1>1, <1>3, <1>4
<1>6. g = [n \in 0 .. 6 |-> IF n = 0 THEN ExtInfoMsg ELSE ParseEntry(g[n - 1], ext[n])]
  BY <1>2, <1>5
<1>7. PICK f : f = CHOOSE h : h = [n \in 0 .. 6 |->
                   IF n = 0 THEN ExtInfoMsg ELSE ParseEntry(h[n - 1], ext[n])]
  OBVIOUS
<1>8. f = [n \in 0 .. 6 |-> IF n = 0 THEN ExtInfoMsg ELSE ParseEntry(f[n - 1], ext[n])]
  BY <1>6, <1>7
<1>9. ParseExtMsg(ext) = f[6]
  BY <1>7 DEF ParseExtMsg
<1>10. f[0] = ExtInfoMsg /\ \A n \in 1 .. 6 : f[n] = ParseEntry(f[n - 1], ext[n])
  BY <1>8
<1> QED BY <1>9, <1>10

\* The parts of a record.
LEMMA EntryParts == \A type, val : Entry(type, val).type = type /\ Entry(type, val).val = val
  BY DEF Entry

\* What one record of the host adds to what was read before it.
Says(ok, sess, kid, unknown, async, input, output, size) ==
    [ok |-> ok, has_sess |-> sess, kid |-> kid, unknown |-> unknown, async |-> async,
     input |-> input, output |-> output, workspace |-> size]
Before(a) == \E t, h, k, u, l, x, y, z : t = TRUE /\ l = FALSE /\ a = Says(t, h, k, u, l, x, y, z)

\* The other records of the host leave the rest as it was.
LEMMA RecordRead ==
    ASSUME NEW a, Before(a), NEW type, NEW val,
           type \in {"op_name", "shape_type", "bitmap", "input_shape", "output_shape"}
    PROVE  Before(ParseEntry(a, Entry(type, val)))
<1>1. PICK t, h, k, u, l, x, y, z : t = TRUE /\ l = FALSE /\ a = Says(t, h, k, u, l, x, y, z)
  BY DEF Before
<1>a. t = TRUE /\ l = FALSE
  BY <1>1
<1>b. a = [ok |-> t, has_sess |-> h, kid |-> k, unknown |-> u, async |-> l,
           input |-> x, output |-> y, workspace |-> z]
  BY <1>1 DEF Says
<1>2. PICK e : e = Entry(type, val)
  OBVIOUS
<1>3. e.type = type /\ e.val = val /\ a.ok = TRUE
  BY <1>a, <1>b, <1>2, EntryParts
<1>4. ASSUME NEW v PROVE /\ Before([a EXCEPT !.unknown = v]) /\ Before([a EXCEPT !.input = v])
                         /\ Before([a EXCEPT !.output = v])
  <2>1. [a EXCEPT !.unknown = v] = Says(t, h, k, v, l, x, y, z)
    BY <1>b DEF Says
  <2>2. [a EXCEPT !.input = v] = Says(t, h, k, u, l, v, y, z)
    BY <1>b DEF Says
  <2>3. [a EXCEPT !.output = v] = Says(t, h, k, u, l, x, v, z)
    BY <1>b DEF Says
  <2>4. Before([a EXCEPT !.unknown = v])
    <3>1. PICK c : c = [a EXCEPT !.unknown = v]
      OBVIOUS
    <3>2. c = Says(t, h, k, v, l, x, y, z)
      BY <2>1, <3>1
    <3>3. Before(c)
      BY <1>a, <3>2, Zenon DEF Before
    <3> QED BY <3>1, <3>3
  <2>5. Before([a EXCEPT !.input = v])
    <3>1. PICK c : c = [a EXCEPT !.input = v]
      OBVIOUS
    <3>2. c = Says(t, h, k, u, l, v, y, z)
      BY <2>2, <3>1
    <3>3. Before(c)
      BY <1>a, <3>2, Zenon DEF Before
    <3> QED BY <3>1, <3>3
  <2>6. Before([a EXCEPT !.output = v])
    <3>1. PICK c : c = [a EXCEPT !.output = v]
      OBVIOUS
    <3>2. c = Says(t, h, k, u, l, x, v, z)
      BY <2>3, <3>1
    <3>3. Before(c)
      BY <1>a, <3>2, Zenon DEF Before
    <3> QED BY <3>1, <3>3
  <2> QED BY <2>4, <2>5, <2>6
<1>5. CASE type = "op_name"
  <2>1. ParseEntry(a, e) = a
    BY <1>3, <1>5 DEF ParseEntry
  <2> QED BY <1>2, <2>1
<1>6. CASE type = "shape_type"
  <2>1. ParseEntry(a, e) = [a EXCEPT !.unknown = TRUE]
    BY <1>3, <1>6 DEF ParseEntry
  <2> QED BY <1>2, <1>4, <2>1
<1>7. CASE type = "bitmap"
  <2>1. ParseEntry(a, e) = [a EXCEPT !.unknown = (e.val % 2 = 0)]
    BY <1>3, <1>7 DEF ParseEntry
  <2> QED BY <1>2, <1>4, <2>1
<1>8. CASE type = "input_shape"
  <2>1. ParseEntry(a, e) = [a EXCEPT !.input = ParseExtShapeAndType(a, @, e.val)]
    BY <1>3, <1>8 DEF ParseEntry
  <2> QED BY <1>2, <1>4, <2>1
<1>9. CASE type = "output_shape"
  <2>1. ParseEntry(a, e) = [a EXCEPT !.output = ParseExtShapeAndType(a, @, e.val)]
    BY <1>3, <1>9 DEF ParseEntry
  <2> QED BY <1>2, <1>4, <2>1
<1> QED BY <1>5, <1>6, <1>7, <1>8, <1>9

\* The session record of the host.
LEMMA SessionRead ==
    ASSUME NEW a, Before(a), NEW session
    PROVE  LET m == ParseEntry(a, Entry("session_info", session))
           IN  m.has_sess = TRUE /\ m.kid = session.kid /\ m.async = FALSE
<1>1. PICK t, h, k, u, l, x, y, z : t = TRUE /\ l = FALSE /\ a = Says(t, h, k, u, l, x, y, z)
  BY DEF Before
<1>2. PICK e, d : e = Entry("session_info", session) /\ d = session.kid
  OBVIOUS
<1>3. e.type = "session_info" /\ e.val.kid = d /\ a.ok = TRUE
  BY <1>1, <1>2, EntryParts DEF Says
<1>4. ParseEntry(a, e) = [a EXCEPT !.has_sess = TRUE, !.kid = d]
  BY <1>3 DEF ParseEntry
<1>5. PICK m : m = ParseEntry(a, e)
  OBVIOUS
<1>6. m.has_sess = TRUE /\ m.kid = d /\ m.async = FALSE
  BY <1>1, <1>4, <1>5 DEF Says
<1> QED BY <1>2, <1>5, <1>6

\* What the device reads from the records of the host (GenCCExtBuffer).
LEMMA HostRecords ==
    ASSUME NEW name, NEW in, NEW out, NEW id, NEW kid, NEW flag, NEW ext,
           ext = GenCCExtBuffer(name, in, out, SessionInfo(id, kid, flag))
    PROVE  /\ ParseExtSessionInfo(ext) = {SessionInfo(id, kid, flag)}
           /\ ParseExtMsg(ext).has_sess /\ ParseExtMsg(ext).kid = kid
           /\ ~ParseExtMsg(ext).async
<1>1. PICK session : session = SessionInfo(id, kid, flag)
  OBVIOUS
<1>2. /\ Len(ext) = 6 /\ DOMAIN ext = 1 .. 6
      /\ ext[1] = Entry("op_name", name) /\ ext[2] = Entry("shape_type", 0)
      /\ ext[3] = Entry("bitmap", 0) /\ ext[4] = Entry("input_shape", in)
      /\ ext[5] = Entry("output_shape", out) /\ ext[6] = Entry("session_info", session)
  BY <1>1 DEF GenCCExtBuffer
<1>3. \A n \in 1 .. 6 : ext[n].type = "session_info" <=> n = 6
  <2>1. \A n \in 1 .. 6 : n = 1 \/ n = 2 \/ n = 3 \/ n = 4 \/ n = 5 \/ n = 6
    OBVIOUS
  <2>2. /\ ext[1].type = "op_name" /\ ext[2].type = "shape_type" /\ ext[3].type = "bitmap"
        /\ ext[4].type = "input_shape" /\ ext[5].type = "output_shape"
        /\ ext[6].type = "session_info"
    <3>1. Entry("op_name", name).type = "op_name" /\ Entry("shape_type", 0).type = "shape_type"
      BY EntryParts
    <3>2. Entry("bitmap", 0).type = "bitmap" /\ Entry("input_shape", in).type = "input_shape"
      BY EntryParts
    <3>3. /\ Entry("output_shape", out).type = "output_shape"
          /\ Entry("session_info", session).type = "session_info"
      BY EntryParts
    <3> QED BY <1>2, <3>1, <3>2, <3>3
  <2> QED BY <2>1, <2>2
<1>4. ParseExtSessionInfo(ext) = {session}
  <2>1. ext[6].val = session
    <3>1. Entry("session_info", session).val = session
      BY EntryParts
    <3> QED BY <1>2, <3>1
  <2>2. PICK found : found = {i \in DOMAIN ext : ext[i].type = "session_info"}
    OBVIOUS
  <2>3. \A i : i \in found <=> i = 6
    <3>1. 6 \in 1 .. 6 /\ \A i : i \in found <=> i \in 1 .. 6 /\ ext[i].type = "session_info"
      BY <1>2, <2>2
    <3> QED BY <1>3, <3>1, Zenon
  <2>4. \A j : j \in {i \in found : \A k \in found : i <= k} <=> j = 6
    BY <2>3
  <2>5. ParseExtSessionInfo(ext)
          = {ext[i].val : i \in {j \in found : \A k \in found : j <= k}}
    BY <2>2 DEF ParseExtSessionInfo
  <2>6. \A x : x \in ParseExtSessionInfo(ext) <=> x = ext[6].val
    <3>1. PICK S : S = {j \in found : \A k \in found : j <= k}
      OBVIOUS
    <3>2. \A x : x \in ParseExtSessionInfo(ext) <=> \E i \in S : x = ext[i].val
      BY <2>5, <3>1, Zenon
    <3>3. \A j : j \in S <=> j = 6
      BY <2>4, <3>1
    <3> QED BY <3>2, <3>3, Zenon
  <2> QED BY <2>1, <2>6
<1>5. PICK m : /\ m[0] = ExtInfoMsg /\ ParseExtMsg(ext) = m[6]
               /\ \A n \in 1 .. 6 : m[n] = ParseEntry(m[n - 1], ext[n])
  BY <1>2, SixRecords
<1>6. /\ m[1] = ParseEntry(m[0], ext[1]) /\ m[2] = ParseEntry(m[1], ext[2])
      /\ m[3] = ParseEntry(m[2], ext[3]) /\ m[4] = ParseEntry(m[3], ext[4])
      /\ m[5] = ParseEntry(m[4], ext[5]) /\ m[6] = ParseEntry(m[5], ext[6])
  <2>1. \A n \in 1 .. 6 : m[n] = ParseEntry(m[n - 1], ext[n])
    BY <1>5
  <2>2. 1 - 1 = 0 /\ 2 - 1 = 1 /\ 3 - 1 = 2 /\ 4 - 1 = 3 /\ 5 - 1 = 4 /\ 6 - 1 = 5
    OBVIOUS
  <2>3. 1 \in 1 .. 6 /\ 2 \in 1 .. 6 /\ 3 \in 1 .. 6 /\ 4 \in 1 .. 6 /\ 5 \in 1 .. 6 /\ 6 \in 1 .. 6
    OBVIOUS
  <2> QED BY <2>1, <2>2, <2>3, Zenon
<1>7. Before(m[0])
  <2>1. m[0] = Says(TRUE, FALSE, 0, FALSE, FALSE, << >>, << >>, 0)
    BY <1>5, Zenon DEF ExtInfoMsg, Says
  <2> QED BY <2>1, Zenon DEF Before
<1>8. Before(m[1])
  BY <1>2, <1>6, <1>7, RecordRead
<1>9. Before(m[2])
  BY <1>2, <1>6, <1>8, RecordRead
<1>10. Before(m[3])
  BY <1>2, <1>6, <1>9, RecordRead
<1>11. Before(m[4])
  BY <1>2, <1>6, <1>10, RecordRead
<1>12. Before(m[5])
  BY <1>2, <1>6, <1>11, RecordRead
<1>13. m[6].has_sess = TRUE /\ m[6].kid = session.kid /\ m[6].async = FALSE
  <2>1. m[6] = ParseEntry(m[5], Entry("session_info", session))
    BY <1>2, <1>6
  <2>2. PICK a, n : a = m[5] /\ n = ParseEntry(a, Entry("session_info", session))
    OBVIOUS
  <2>3. n.has_sess = TRUE /\ n.kid = session.kid /\ n.async = FALSE
    BY <1>12, <2>2, SessionRead
  <2> QED BY <2>1, <2>2, <2>3
<1>14. session.kid = kid
  BY <1>1 DEF SessionInfo
<1> QED BY <1>1, <1>4, <1>5, <1>13, <1>14

\* Replacing the kernel id in place.
LEMMA KernelIdUpdated ==
    ASSUME NEW name, NEW in, NEW out, NEW id, NEW old, NEW kid, NEW flag
    PROVE  UpdateKernelId(GenCCExtBuffer(name, in, out, SessionInfo(id, old, flag)), kid)
             = GenCCExtBuffer(name, in, out, SessionInfo(id, kid, flag))
<1>1. PICK ext, new, up : /\ ext = GenCCExtBuffer(name, in, out, SessionInfo(id, old, flag))
                          /\ new = GenCCExtBuffer(name, in, out, SessionInfo(id, kid, flag))
                          /\ up = UpdateKernelId(ext, kid)
  OBVIOUS
<1>2. /\ DOMAIN ext = 1 .. 6 /\ DOMAIN new = 1 .. 6 /\ new = [i \in 1 .. 6 |-> new[i]]
      /\ \A i \in 1 .. 6 : i # 6 => ext[i] = new[i] /\ ext[i].type # "session_info"
      /\ ext[6] = Entry("session_info", SessionInfo(id, old, flag))
      /\ new[6] = Entry("session_info", SessionInfo(id, kid, flag))
  BY <1>1 DEF GenCCExtBuffer, Entry
<1>3. PICK e : e = ext[6]
  OBVIOUS
<1>a. PICK kind : kind = "session_info"
  OBVIOUS
<1>4. e = [type |-> kind, val |-> [id |-> id, kid |-> old, flag |-> flag]]
  BY <1>2, <1>3, <1>a, Zenon DEF Entry, SessionInfo
<1>5. [e EXCEPT !.val.kid = kid]
        = [type |-> kind, val |-> [id |-> id, kid |-> kid, flag |-> flag]]
  <2>1. PICK q : q = [id |-> id, kid |-> old, flag |-> flag]
    OBVIOUS
  <2>2. e.val = q /\ [q EXCEPT !.kid = kid] = [id |-> id, kid |-> kid, flag |-> flag]
    BY <1>4, <2>1
  <2>3. [e EXCEPT !.val.kid = kid] = [e EXCEPT !.val = [q EXCEPT !.kid = kid]]
    BY <2>2
  <2> QED BY <1>4, <2>2, <2>3
<1>6. [e EXCEPT !.val.kid = kid] = new[6]
  BY <1>2, <1>5, <1>a, Zenon DEF Entry, SessionInfo
<1>7. up = [i \in 1 .. 6 |-> IF ext[i].type = "session_info"
                             THEN [ext[i] EXCEPT !.val.kid = kid] ELSE ext[i]]
  BY <1>1, <1>2 DEF UpdateKernelId
<1>8. e.type = "session_info"
  BY <1>4, <1>a
<1>9. ASSUME NEW i \in 1 .. 6 PROVE up[i] = new[i]
  <2>1. CASE i = 6
    BY <1>3, <1>6, <1>7, <1>8, <2>1
  <2>2. CASE i # 6
    BY <1>2, <1>7, <2>2
  <2> QED BY <2>1, <2>2
<1>10. up = [i \in 1 .. 6 |-> new[i]]
  BY <1>7, <1>9
<1> QED BY <1>1, <1>2, <1>10

-----------------------------------------------------------------------------
(* Claims                                                                  *)

\* Who reaches a cache.
LEMMA ScopeIn ==
    /\ \A k, o : o \in ScopesOf(k) <=>
         \/ \E i \in Session : o = <<"session", i>> /\ session_kernel_cache[i] = k
         \/ \E s \in Stream : o = <<"stream", s>> /\ stream_kernel_cache[s] = k
         \/ \E w \in Worker : work[w] # Idle /\ work[w].kernel = k /\ o = ScopeOf(w, work[w].req)
    /\ \A k, o : o \in ScopesOf(k)' <=>
         \/ \E i \in Session : o = <<"session", i>> /\ session_kernel_cache'[i] = k
         \/ \E s \in Stream : o = <<"stream", s>> /\ stream_kernel_cache'[s] = k
         \/ \E w \in Worker : work'[w] # Idle /\ work'[w].kernel = k /\ o = ScopeOf(w, work'[w].req)
<1>1. \A k, o : o \in ScopesOf(k) <=>
         \/ \E i \in Session : o = <<"session", i>> /\ session_kernel_cache[i] = k
         \/ \E s \in Stream : o = <<"stream", s>> /\ stream_kernel_cache[s] = k
         \/ \E w \in Worker : work[w] # Idle /\ work[w].kernel = k /\ o = ScopeOf(w, work[w].req)
  BY Zenon DEF ScopesOf
<1>2. \A k, o : o \in ScopesOf(k)' <=>
         \/ \E i \in Session : o = <<"session", i>> /\ session_kernel_cache'[i] = k
         \/ \E s \in Stream : o = <<"stream", s>> /\ stream_kernel_cache'[s] = k
         \/ \E w \in Worker : work'[w] # Idle /\ work'[w].kernel = k /\ o = ScopeOf(w, work'[w].req)
  BY Zenon DEF ScopesOf
<1> QED BY <1>1, <1>2

\* What claims something of a key.
LEMMA ClaimIn ==
    /\ \A a : a \in QueueClaims <=>
         \E s \in Stream : \E r \in Range(queue[s]) : Sessioned(r.ext) /\ a = LaunchClaim(s, r)
    /\ \A a : a \in QueueClaims' <=>
         \E s \in Stream : \E r \in Range(queue'[s]) : Sessioned(r.ext) /\ a = LaunchClaim(s, r)
    /\ \A a : a \in TaskClaims <=> \E i \in DOMAIN tasks : a = TaskClaim(i, tasks[i])
    /\ \A a : a \in TaskClaims' <=> \E i \in DOMAIN tasks' : a = TaskClaim(i, tasks'[i])
    /\ \A a : a \in CacheClaims <=>
         \E k \in DOMAIN caches : \E o \in ScopesOf(k), q \in DOMAIN caches[k].iter :
             a = ContextClaim(o, q, ctxs[caches[k].iter[q]])
    /\ \A a : a \in CacheClaims' <=>
         \E k \in DOMAIN caches' : \E o \in ScopesOf(k)', q \in DOMAIN caches'[k].iter :
             a = ContextClaim(o, q, ctxs'[caches'[k].iter[q]])
<1>1. \A a : a \in QueueClaims <=>
         \E s \in Stream : \E r \in Range(queue[s]) : Sessioned(r.ext) /\ a = LaunchClaim(s, r)
  BY DEF QueueClaims
<1>2. \A a : a \in QueueClaims' <=>
         \E s \in Stream : \E r \in Range(queue'[s]) : Sessioned(r.ext) /\ a = LaunchClaim(s, r)
  BY DEF QueueClaims
<1>3. /\ \A a : a \in TaskClaims <=> \E i \in DOMAIN tasks : a = TaskClaim(i, tasks[i])
      /\ \A a : a \in TaskClaims' <=> \E i \in DOMAIN tasks' : a = TaskClaim(i, tasks'[i])
  BY Zenon DEF TaskClaims
<1>4. \A a : a \in CacheClaims <=>
         \E k \in DOMAIN caches : \E o \in ScopesOf(k), q \in DOMAIN caches[k].iter :
             a = ContextClaim(o, q, ctxs[caches[k].iter[q]])
  BY DEF CacheClaims
<1>5. \A a : a \in CacheClaims' <=>
         \E k \in DOMAIN caches' : \E o \in ScopesOf(k)', q \in DOMAIN caches'[k].iter :
             a = ContextClaim(o, q, ctxs'[caches'[k].iter[q]])
  BY DEF CacheClaims
<1> QED BY <1>1, <1>2, <1>3, <1>4, <1>5

\* Nothing new is claimed but of an id that is drawn now.
LEMMA ClaimsKept ==
    ASSUME ClaimsFit, gKernelId \in Nat, gKernelId' \in Nat, gKernelId <= gKernelId',
           NEW fresh,
           \A a \in Claims' : a \in Claims \/ a = fresh,
           fresh \in Claims \/ (fresh.key = <<HostScope, gKernelId>> /\ gKernelId < gKernelId')
    PROVE  ClaimsFit'
<1>1. PICK g, h : g = gKernelId /\ h = gKernelId'
  OBVIOUS
<1>2. \A a \in Claims : a.key # <<HostScope, g>>
  <2>1. ASSUME NEW a \in Claims, a.key = <<HostScope, g>> PROVE FALSE
    <3>1. a.key[1] = HostScope /\ a.key[2] = g
      BY <2>1
    <3>2. g < g
      BY <1>1, <3>1 DEF ClaimsFit
    <3> QED BY <1>1, <3>2
  <2> QED BY <2>1
<1>3. CASE fresh \in Claims
  <2>1. \A a \in Claims' : a \in Claims
    BY <1>3
  <2>2. \A n \in Nat : n < g => n < h
    BY <1>1
  <2> QED BY <1>1, <2>1, <2>2 DEF ClaimsFit
<1>4. CASE fresh.key = <<HostScope, g>> /\ g < h
  <2>1. ASSUME NEW a \in Claims', NEW b \in Claims', a.key = b.key PROVE a = b
    BY <1>2, <1>4, <2>1 DEF ClaimsFit
  <2>2. ASSUME NEW a \in Claims', a.key[1] = HostScope PROVE a.key[2] \in Nat /\ a.key[2] < h
    <3>1. CASE a \in Claims
      <4>1. \A n \in Nat : n < g => n < h
        BY <1>1
      <4> QED BY <1>1, <2>2, <3>1, <4>1 DEF ClaimsFit
    <3>2. CASE a = fresh
      BY <1>1, <1>4, <3>2
    <3> QED BY <2>2, <3>1, <3>2
  <2> QED BY <1>1, <2>1, <2>2 DEF ClaimsFit
<1> QED BY <1>1, <1>3, <1>4

\* The claims of contexts stay when nothing about caches changes.
LEMMA SameCacheClaims ==
    ASSUME UNCHANGED <<work, caches, session_kernel_cache, stream_kernel_cache, ctxs>>
    PROVE  CacheClaims' = CacheClaims /\ \A k : ScopesOf(k)' = ScopesOf(k)
<1>1. \A k, o : o \in ScopesOf(k)' <=> o \in ScopesOf(k)
  BY ScopeIn
<1>2. \A k : ScopesOf(k)' = ScopesOf(k)
  BY <1>1
<1>3. \A a : a \in CacheClaims' <=> a \in CacheClaims
  BY <1>2, ClaimIn
<1> QED BY <1>2, <1>3

-----------------------------------------------------------------------------
(* The host: which launches are under which key                            *)

\* A launch under kernel id kid in the session of the host.
Under(s, r, kid) == Sessioned(r.ext) /\ Key(s, r.ext) = <<HostScope, kid>>

\* A step writes task i at most: its kernel id stays, or is drawn now.
SameTask(t, u) == t.kid = u.kid /\ t.stream = u.stream /\ t.kind = u.kind
TaskMoves(i) ==
    /\ \A j \in DOMAIN tasks' : j # i => j \in DOMAIN tasks /\ SameTask(tasks[j], tasks'[j])
    /\ i \in DOMAIN tasks' =>
         \/ /\ i \in DOMAIN tasks /\ tasks'[i].kid = tasks[i].kid
            /\ tasks'[i].kind = tasks[i].kind
            /\ tasks[i].stream \in {NoStream, tasks'[i].stream}
         \/ tasks'[i].kid = gKernelId /\ gKernelId < gKernelId'
    /\ gKernelId \in Nat /\ gKernelId' \in Nat /\ gKernelId <= gKernelId'

\* The claims after such a step.
LEMMA HostClaims ==
    ASSUME LaunchInv, NEW i, TaskMoves(i),
           UNCHANGED <<work, caches, session_kernel_cache, stream_kernel_cache, ctxs>>,
           \A a \in QueueClaims' : a \in Claims \/ (i \in DOMAIN tasks' /\ a = TaskClaim(i, tasks'[i]))
    PROVE  ClaimsFit' /\ KidsFit'
<1>1. ClaimsFit /\ KidsFit
  BY DEF LaunchInv
<1>2. PICK fresh : fresh = TaskClaim(i, tasks'[i])
  OBVIOUS
<1>3. \A j \in DOMAIN tasks : TaskClaim(j, tasks[j]) \in Claims
  BY ClaimIn DEF Claims
<1>4. ASSUME NEW a \in Claims' PROVE a \in Claims \/ (i \in DOMAIN tasks' /\ a = fresh)
  <2>1. CASE a \in QueueClaims'
    BY <1>2, <2>1
  <2>2. CASE a \in ForeignClaims'
    <3>1. ForeignClaims' = ForeignClaims
      BY DEF ForeignClaims
    <3> QED BY <2>2, <3>1 DEF Claims
  <2>3. CASE a \in TaskClaims'
    <3>1. PICK j \in DOMAIN tasks' : a = TaskClaim(j, tasks'[j])
      BY <2>3, ClaimIn
    <3>2. CASE j # i
      <4>1. j \in DOMAIN tasks /\ tasks'[j].kid = tasks[j].kid
        BY <3>2 DEF TaskMoves, SameTask
      <4>2. TaskClaim(j, tasks'[j]) = TaskClaim(j, tasks[j])
        BY <4>1 DEF TaskClaim
      <4> QED BY <1>3, <3>1, <4>1, <4>2
    <3>3. CASE j = i
      BY <1>2, <3>1, <3>3
    <3> QED BY <3>2, <3>3
  <2>4. CASE a \in CacheClaims'
    BY <2>4, SameCacheClaims DEF Claims
  <2> QED BY <1>4, <2>1, <2>2, <2>3, <2>4 DEF Claims
<1>5. i \in DOMAIN tasks' =>
          fresh \in Claims \/ (fresh.key = <<HostScope, gKernelId>> /\ gKernelId < gKernelId')
  <2>1. ASSUME i \in DOMAIN tasks, tasks'[i].kid = tasks[i].kid PROVE fresh \in Claims
    <3>1. TaskClaim(i, tasks'[i]) = TaskClaim(i, tasks[i])
      BY <2>1 DEF TaskClaim
    <3> QED BY <1>2, <1>3, <2>1, <3>1
  <2>2. fresh.key = <<HostScope, tasks'[i].kid>>
    BY <1>2 DEF TaskClaim
  <2> QED BY <2>1, <2>2 DEF TaskMoves
<1>6. ClaimsFit'
  <2>0. /\ gKernelId \in Nat /\ gKernelId' \in Nat /\ gKernelId <= gKernelId'
    BY DEF TaskMoves
  <2>1. CASE i \in DOMAIN tasks'
    BY <1>1, <1>4, <1>5, <2>0, <2>1, ClaimsKept
  <2>2. CASE i \notin DOMAIN tasks'
    <3>1. \A a \in Claims' : a \in Claims
      BY <1>4, <2>2
    <3>2. PICK g, h : g = gKernelId /\ h = gKernelId'
      OBVIOUS
    <3>3. \A n \in Nat : n < g => n < h
      BY <2>0, <3>2
    <3> QED BY <1>1, <3>1, <3>2, <3>3 DEF ClaimsFit
  <2> QED BY <2>1, <2>2
<1>7. KidsFit'
  <2>1. FirstKernelId <= gKernelId'
    BY <1>1, AicpuAssumption DEF KidsFit, TaskMoves
  <2>2. ASSUME NEW j \in DOMAIN tasks' PROVE FirstKernelId <= tasks'[j].kid
    BY <1>1 DEF KidsFit, TaskMoves, SameTask
  <2> QED BY <2>1, <2>2 DEF KidsFit
<1> QED BY <1>6, <1>7

\* The kernel ids in use are drawn already, and tasks have ids of their own.
LEMMA KidsDrawn ==
    ASSUME ClaimsFit
    PROVE  /\ \A s \in Stream : \A r \in Range(queue[s]) : \A kid :
                Under(s, r, kid) => kid \in Nat /\ kid < gKernelId
           /\ \A i \in DOMAIN tasks : tasks[i].kid \in Nat /\ tasks[i].kid < gKernelId
           /\ \A i, j \in DOMAIN tasks : tasks[i].kid = tasks[j].kid => i = j
<1>1. ASSUME NEW s \in Stream, NEW r \in Range(queue[s]), NEW kid, Under(s, r, kid)
      PROVE  kid \in Nat /\ kid < gKernelId
  <2>1. PICK a : a = LaunchClaim(s, r)
    OBVIOUS
  <2>2. a \in Claims
    BY <1>1, <2>1, ClaimIn DEF Claims, Under
  <2>3. a.key = <<HostScope, kid>>
    BY <1>1, <2>1 DEF Under, LaunchClaim
  <2>4. a.key[1] = HostScope /\ a.key[2] = kid
    BY <2>3
  <2> QED BY <2>2, <2>4 DEF ClaimsFit
<1>2. ASSUME NEW i \in DOMAIN tasks
      PROVE  /\ TaskClaim(i, tasks[i]) \in Claims
             /\ TaskClaim(i, tasks[i]).key = <<HostScope, tasks[i].kid>>
             /\ TaskClaim(i, tasks[i]).node = i
  <2>1. TaskClaim(i, tasks[i]) \in Claims
    BY ClaimIn DEF Claims
  <2> QED BY <2>1 DEF TaskClaim
<1>3. ASSUME NEW i \in DOMAIN tasks PROVE tasks[i].kid \in Nat /\ tasks[i].kid < gKernelId
  <2>1. PICK a : a = TaskClaim(i, tasks[i])
    OBVIOUS
  <2>2. a \in Claims /\ a.key[1] = HostScope /\ a.key[2] = tasks[i].kid
    BY <1>2, <2>1
  <2> QED BY <2>2 DEF ClaimsFit
<1>4. ASSUME NEW i \in DOMAIN tasks, NEW j \in DOMAIN tasks, tasks[i].kid = tasks[j].kid
      PROVE  i = j
  <2>1. PICK a, b : a = TaskClaim(i, tasks[i]) /\ b = TaskClaim(j, tasks[j])
    OBVIOUS
  <2>2. a \in Claims /\ b \in Claims /\ a.key = b.key /\ a.node = i /\ b.node = j
    BY <1>2, <1>4, <2>1
  <2>3. a = b
    BY <2>2 DEF ClaimsFit
  <2> QED BY <2>2, <2>3
<1> QED BY <1>1, <1>3, <1>4

\* SetVisit leaves what matters here alone.
LEMMA VisitSame ==
    ASSUME NEW ts \in Seq(Task), NEW i \in DOMAIN ts, NEW v \in BOOLEAN
    PROVE  /\ DOMAIN [ts EXCEPT ![i].visit = v] = DOMAIN ts
           /\ \A j \in DOMAIN ts : SameTask(ts[j], [ts EXCEPT ![i].visit = v][j])
<1>1. PICK t : t = [ts[i] EXCEPT !.visit = v]
  OBVIOUS
<1>2. SameTask(ts[i], t)
  <2>1. ts[i] \in Task
    OBVIOUS
  <2> QED BY <1>1, <2>1 DEF Task, SameTask
<1>3. [ts EXCEPT ![i].visit = v] = [ts EXCEPT ![i] = t]
  BY <1>1
<1>4. DOMAIN [ts EXCEPT ![i].visit = v] = DOMAIN ts
  BY VisitWritten
<1>5. \A j \in DOMAIN ts : [ts EXCEPT ![i] = t][j] = IF j = i THEN t ELSE ts[j]
  OBVIOUS
<1>6. \A j \in DOMAIN ts : SameTask(ts[j], ts[j])
  BY DEF SameTask
<1> QED BY <1>2, <1>3, <1>4, <1>5, <1>6

\* Executor e does something that is no launch.
LEMMA NotLaunched ==
    ASSUME LaunchInv, HostInv, NEW i, TaskMoves(i), NEW e \in Executor,
           UNCHANGED <<queue, work, caches, session_kernel_cache, stream_kernel_cache, ctxs>>,
           \A f \in Executor : f # e => execs'[f] = execs[f],
           execs'[e].st = "sync" =>
               tasks'[execs'[e].list[execs'[e].pos]].stream = execs'[e].stream,
           execs[e].st = "sync" => queue[execs[e].stream] = << >>,
           \A f \in Executor : execs[f].st = "sync" /\ f # e => execs[f].list[execs[f].pos] # i,
           DOMAIN tasks \subseteq DOMAIN tasks'
    PROVE  LaunchInv'
<1>1. ClaimsFit' /\ KidsFit'
  <2>1. \A a \in QueueClaims' : a \in Claims
    BY ClaimIn DEF Claims
  <2> QED BY <2>1, HostClaims
<1>2. Origins' /\ OneStream'
  BY DEF LaunchInv, Origins, OneStream
<1>3. WaitsWhere'
  <2>1. ASSUME NEW f \in Executor, execs'[f].st = "sync", f # e
        PROVE  tasks'[execs'[f].list[execs'[f].pos]].stream = execs'[f].stream
    <3>1. f # e /\ execs'[f] = execs[f]
      BY <2>1
    <3>2. PICK j : j = execs[f].list[execs[f].pos]
      OBVIOUS
    <3>3. j # i /\ j \in DOMAIN tasks /\ tasks[j].stream = execs[f].stream
      BY <2>1, <3>1, <3>2 DEF LaunchInv, WaitsWhere, HostInv, ListFits
    <3>4. tasks'[j].stream = tasks[j].stream
      BY <3>3 DEF TaskMoves, SameTask
    <3> QED BY <3>1, <3>2, <3>3, <3>4
  <2> QED BY <2>1 DEF WaitsWhere
<1>4. TaskStream'
  <2>1. ASSUME NEW j \in DOMAIN tasks', NEW s \in Stream, NEW r \in Range(queue[s]),
               Under(s, r, tasks'[j].kid)
        PROVE  /\ s = tasks'[j].stream
               /\ tasks'[j].kind \in Class3 =>
                    \E f \in Executor : /\ execs'[f].st = "sync"
                                        /\ execs'[f].list[execs'[f].pos] = j
    <3>1. tasks'[j].kid # gKernelId
      <4>1. PICK g : g = gKernelId
        OBVIOUS
      <4>2. tasks'[j].kid \in Nat /\ tasks'[j].kid < g /\ g \in Nat
        BY <2>1, <4>1, KidsDrawn DEF LaunchInv, TaskMoves
      <4> QED BY <4>1, <4>2
    <3>2. /\ j \in DOMAIN tasks /\ tasks'[j].kid = tasks[j].kid /\ tasks'[j].kind = tasks[j].kind
          /\ tasks[j].stream \in {NoStream, tasks'[j].stream}
      BY <3>1 DEF TaskMoves, SameTask
    <3>3. /\ s = tasks[j].stream
          /\ Waits(j) => \E f \in Executor : /\ execs[f].st = "sync"
                                             /\ execs[f].list[execs[f].pos] = j
      BY <2>1, <3>2 DEF LaunchInv, TaskStream, Under
    <3>4. s = tasks'[j].stream
      BY <3>2, <3>3, AicpuAssumption
    <3>5. ASSUME tasks'[j].kind \in Class3
          PROVE  \E f \in Executor : execs'[f].st = "sync" /\ execs'[f].list[execs'[f].pos] = j
      <4>1. PICK f \in Executor : execs[f].st = "sync" /\ execs[f].list[execs[f].pos] = j
        BY <3>2, <3>3, <3>5 DEF Waits
      <4>2. CASE f # e
        BY <4>1, <4>2
      <4>3. CASE f = e
        <5>1. execs[e].stream = s
          BY <3>3, <4>1, <4>3 DEF LaunchInv, WaitsWhere
        <5>2. queue[s] = << >>
          BY <4>1, <4>3, <5>1
        <5> QED BY <2>1, <5>2, EmptyList
      <4> QED BY <4>2, <4>3
    <3> QED BY <3>4, <3>5
  <2> QED BY <2>1 DEF TaskStream, Under, Waits
<1> QED BY <1>1, <1>2, <1>3, <1>4 DEF LaunchInv

\* Launch r enters the queue of stream s.
Entered(s, r) ==
    \A u \in Stream : \A q : q \in Range(queue'[u]) <=> q \in Range(queue[u]) \/ (u = s /\ q = r)

\* A launch enters at the end of its queue.
LEMMA AppendEnters ==
    ASSUME Numbered, NEW s \in Stream, NEW r, queue' = [queue EXCEPT ![s] = Append(@, r)]
    PROVE  Entered(s, r)
<1>1. PICK q, S : q = queue[s] /\ S = Range(queue[s]) \cup {r}
  OBVIOUS
<1>2. q \in Seq(S) /\ r \in S
  <2>1. q \in Seq(Range(q))
    BY <1>1, QueueLists
  <2>2. Range(q) \subseteq S
    BY <1>1
  <2> QED BY <1>1, <2>1, <2>2
<1>3. Range(Append(q, r)) = Range(q) \cup {r}
  BY <1>2, PushList
<1>4. /\ queue'[s] = Append(q, r)
      /\ \A u \in Stream : u # s => queue'[u] = queue[u]
  BY <1>1 DEF Numbered
<1> QED BY <1>1, <1>3, <1>4 DEF Entered

\* Task i is launched on stream s by executor e, under kernel id kid.
LaunchedAs(i, e, s, r, kid) ==
    /\ Entered(s, r) /\ OfHost(s, r) /\ Under(s, r, kid) /\ r.node = i
    /\ kid = tasks[i].kid \/ kid = tasks'[i].kid
    /\ kid = tasks[i].kid /\ tasks[i].stream \notin {NoStream, s} => Waits(i)
    /\ DOMAIN tasks' = DOMAIN tasks /\ tasks'[i].stream = s /\ tasks'[i].kind = tasks[i].kind
    /\ \A f \in Executor : execs[f].st = "sync" => f # e /\ execs[f].list[execs[f].pos] # i
    /\ \A f \in Executor : f # e => execs'[f] = execs[f]
    /\ Waits(i) => execs'[e].st = "sync"
    /\ execs'[e].st = "sync" => execs'[e].list[execs'[e].pos] = i /\ execs'[e].stream = s

\* A launch of a task keeps what is known of the launches.
LEMMA Launched ==
    ASSUME LaunchInv, HostInv, NEW i \in DOMAIN tasks, TaskMoves(i), NEW e \in Executor,
           NEW s \in Stream, NEW r, NEW kid, LaunchedAs(i, e, s, r, kid),
           UNCHANGED <<work, caches, session_kernel_cache, stream_kernel_cache, ctxs>>
    PROVE  LaunchInv'
<1>1. /\ Entered(s, r) /\ Under(s, r, kid) /\ r.node = i /\ i \in DOMAIN tasks'
      /\ kid = tasks[i].kid \/ kid = tasks'[i].kid
  BY DEF LaunchedAs
<1>2. LaunchClaim(s, r) = [key |-> <<HostScope, kid>>, node |-> i, small |-> TRUE]
  BY <1>1 DEF LaunchedAs, OfHost, LaunchClaim, Under, Small
<1>3. ClaimsFit' /\ KidsFit'
  <2>1. LaunchClaim(s, r) \in Claims \/ LaunchClaim(s, r) = TaskClaim(i, tasks'[i])
    <3>1. TaskClaim(i, tasks[i]) \in Claims
      BY ClaimIn DEF Claims
    <3>2. CASE kid = tasks[i].kid
      BY <1>2, <3>1, <3>2 DEF TaskClaim
    <3>3. CASE kid = tasks'[i].kid
      BY <1>2, <3>3 DEF TaskClaim
    <3> QED BY <1>1, <3>2, <3>3
  <2>2. ASSUME NEW a \in QueueClaims'
        PROVE  a \in Claims \/ (i \in DOMAIN tasks' /\ a = TaskClaim(i, tasks'[i]))
    <3>1. PICK u \in Stream : \E q \in Range(queue'[u]) : Sessioned(q.ext) /\ a = LaunchClaim(u, q)
      BY <2>2, ClaimIn
    <3>2. PICK q \in Range(queue'[u]) : Sessioned(q.ext) /\ a = LaunchClaim(u, q)
      BY <3>1
    <3>3. CASE q \in Range(queue[u])
      BY <3>2, <3>3, ClaimIn DEF Claims
    <3>4. CASE u = s /\ q = r
      BY <1>1, <2>1, <3>2, <3>4
    <3> QED BY <1>1, <3>2, <3>3, <3>4 DEF Entered
  <2> QED BY <2>2, HostClaims
<1>4. PICK g : g = gKernelId
  OBVIOUS
<1>5. /\ g \in Nat
      /\ \A j \in DOMAIN tasks : tasks[j].kid \in Nat /\ tasks[j].kid < g /\ tasks[j].kid # g
      /\ \A u \in Stream : \A q \in Range(queue[u]) : ~Under(u, q, g)
  <2>1. g \in Nat
    BY <1>4 DEF TaskMoves
  <2>2. \A n \in Nat : n < g => n # g
    BY <2>1
  <2> QED BY <1>4, <2>1, <2>2, KidsDrawn DEF LaunchInv
<1>6. \/ tasks'[i].kid = tasks[i].kid /\ tasks[i].stream \in {NoStream, s}
      \/ tasks'[i].kid = g
  BY <1>1, <1>4 DEF TaskMoves, LaunchedAs
<1>7. \A u \in Stream : \A q \in Range(queue[u]) : Under(u, q, tasks[i].kid) =>
          u = tasks[i].stream /\ ~Waits(i)
  BY DEF LaunchInv, TaskStream, Under, LaunchedAs
<1>8. \A u \in Stream : \A q \in Range(queue[u]) : Under(u, q, kid) => u = s
  <2>1. ASSUME NEW u \in Stream, NEW q \in Range(queue[u]), Under(u, q, kid) PROVE u = s
    <3>1. kid = tasks[i].kid
      BY <1>1, <1>5, <1>6, <2>1
    <3>2. tasks[i].stream \in {NoStream, s} /\ u = tasks[i].stream
      BY <1>7, <2>1, <3>1 DEF LaunchedAs
    <3> QED BY <3>2, AicpuAssumption
  <2> QED BY <2>1
<1>9. Origins'
  BY <1>1 DEF LaunchInv, Origins, Entered, LaunchedAs
<1>10. OneStream'
  <2>1. ASSUME NEW u \in Stream, NEW v \in Stream, NEW p \in Range(queue'[u]),
               NEW q \in Range(queue'[v]), Sessioned(p.ext), Sessioned(q.ext),
               Key(u, p.ext) = Key(v, q.ext)
        PROVE  u = v
    <3>1. CASE p \in Range(queue[u]) /\ q \in Range(queue[v])
      BY <2>1, <3>1 DEF LaunchInv, OneStream
    <3>2. CASE u = s /\ p = r /\ q \in Range(queue[v])
      <4>1. Under(v, q, kid)
        BY <1>1, <2>1, <3>2 DEF Under
      <4> QED BY <1>8, <3>2, <4>1
    <3>3. CASE v = s /\ q = r /\ p \in Range(queue[u])
      <4>1. Under(u, p, kid)
        BY <1>1, <2>1, <3>3 DEF Under
      <4> QED BY <1>8, <3>3, <4>1
    <3> QED BY <1>1, <2>1, <3>1, <3>2, <3>3 DEF Entered
  <2> QED BY <2>1 DEF OneStream
<1>11. \A j \in DOMAIN tasks' : j # i =>
          /\ j \in DOMAIN tasks /\ tasks'[j].kid = tasks[j].kid
          /\ tasks'[j].stream = tasks[j].stream /\ tasks'[j].kind = tasks[j].kind
          /\ tasks[j].kid # kid
  <2>1. ASSUME NEW j \in DOMAIN tasks', j # i
        PROVE  /\ j \in DOMAIN tasks /\ tasks'[j].kid = tasks[j].kid
               /\ tasks'[j].stream = tasks[j].stream /\ tasks'[j].kind = tasks[j].kind
    BY <2>1 DEF TaskMoves, SameTask
  <2>2. ASSUME NEW j \in DOMAIN tasks, j # i PROVE tasks[j].kid # tasks[i].kid
    BY <2>2, KidsDrawn DEF LaunchInv
  <2> QED BY <1>1, <1>5, <1>6, <2>1, <2>2
<1>12. TaskStream'
  <2>1. ASSUME NEW j \in DOMAIN tasks', NEW u \in Stream, NEW q \in Range(queue'[u]),
               Under(u, q, tasks'[j].kid)
        PROVE  /\ u = tasks'[j].stream
               /\ tasks'[j].kind \in Class3 =>
                    \E f \in Executor : /\ execs'[f].st = "sync"
                                        /\ execs'[f].list[execs'[f].pos] = j
    <3>1. CASE j # i
      <4>1. q # r \/ u # s
        <5>1. ASSUME q = r, u = s PROVE FALSE
          <6>1. <<HostScope, kid>> = <<HostScope, tasks'[j].kid>>
            BY <1>1, <2>1, <5>1 DEF Under
          <6> QED BY <1>11, <3>1, <6>1
        <5> QED BY <5>1
      <4>2. q \in Range(queue[u])
        BY <1>1, <2>1, <4>1 DEF Entered
      <4>3. Under(u, q, tasks[j].kid) /\ j \in DOMAIN tasks
        BY <1>11, <2>1, <3>1
      <4>4. /\ u = tasks[j].stream
            /\ Waits(j) => \E f \in Executor : /\ execs[f].st = "sync"
                                               /\ execs[f].list[execs[f].pos] = j
        BY <4>2, <4>3 DEF LaunchInv, TaskStream, Under
      <4>5. ASSUME NEW f \in Executor, execs[f].st = "sync" PROVE execs'[f] = execs[f]
        BY <4>5 DEF LaunchedAs
      <4> QED BY <1>11, <3>1, <4>4, <4>5 DEF Waits
    <3>2. CASE j = i
      <4>1. u = s
        <5>1. CASE q \in Range(queue[u])
          <6>1. tasks'[i].kid = tasks[i].kid /\ tasks[i].stream \in {NoStream, s}
            BY <1>5, <1>6, <2>1, <3>2, <5>1
          <6>2. u = tasks[i].stream
            BY <1>7, <2>1, <3>2, <5>1, <6>1
          <6> QED BY <6>1, <6>2, AicpuAssumption
        <5> QED BY <1>1, <2>1, <5>1 DEF Entered
      <4> QED BY <3>2, <4>1 DEF LaunchedAs, Waits
    <3> QED BY <3>1, <3>2
  <2> QED BY <2>1 DEF TaskStream, Under, Waits
<1>13. WaitsWhere'
  <2>1. ASSUME NEW f \in Executor, execs'[f].st = "sync"
        PROVE  tasks'[execs'[f].list[execs'[f].pos]].stream = execs'[f].stream
    <3>1. CASE f = e
      BY <2>1, <3>1 DEF LaunchedAs
    <3>2. CASE f # e
      <4>1. execs'[f] = execs[f] /\ execs[f].st = "sync" /\ execs[f].list[execs[f].pos] # i
        BY <2>1, <3>2 DEF LaunchedAs
      <4>2. PICK j : j = execs[f].list[execs[f].pos]
        OBVIOUS
      <4>3. j \in DOMAIN tasks /\ tasks[j].stream = execs[f].stream
        BY <4>1, <4>2 DEF LaunchInv, WaitsWhere, HostInv, ListFits
      <4>4. j \in DOMAIN tasks'
        BY <4>3 DEF LaunchedAs
      <4> QED BY <1>11, <4>1, <4>2, <4>3, <4>4
    <3> QED BY <3>1, <3>2
  <2> QED BY <2>1 DEF WaitsWhere
<1> QED BY <1>3, <1>9, <1>10, <1>12, <1>13 DEF LaunchInv

\* Another framework launches.
LEMMA ForeignLaunched ==
    ASSUME LaunchInv, HostInv, NEW f \in Foreign, NEW r, Entered(f.stream, r),
           r.node = f.node, r.blocks = f.blocks, r.ext = f.ext,
           UNCHANGED <<work, caches, session_kernel_cache, stream_kernel_cache, ctxs,
                       tasks, execs, gKernelId>>
    PROVE  LaunchInv'
<1>1. PICK s : s = f.stream
  OBVIOUS
<1>2. s \in Stream /\ Entered(s, r)
  BY <1>1, ForeignAssumption
<1>3. ClaimsFit' /\ KidsFit'
  <2>1. LaunchClaim(s, r) = LaunchClaim(f.stream, f)
    BY <1>1 DEF LaunchClaim, Small
  <2>2. Sessioned(r.ext) => LaunchClaim(s, r) \in Claims
    BY <2>1 DEF Claims, ForeignClaims
  <2>3. ASSUME NEW a \in QueueClaims' PROVE a \in Claims
    <3>1. PICK u \in Stream : \E q \in Range(queue'[u]) : Sessioned(q.ext) /\ a = LaunchClaim(u, q)
      BY <2>3, ClaimIn
    <3>2. PICK q \in Range(queue'[u]) : Sessioned(q.ext) /\ a = LaunchClaim(u, q)
      BY <3>1
    <3>3. CASE q \in Range(queue[u])
      BY <3>2, <3>3, ClaimIn DEF Claims
    <3>4. CASE u = s /\ q = r
      BY <2>2, <3>2, <3>4
    <3> QED BY <1>2, <3>2, <3>3, <3>4 DEF Entered
  <2>4. PICK i : i \notin DOMAIN tasks
    BY NoSetContainsEverything
  <2>5. TaskMoves(i)
    <3>1. PICK g : g = gKernelId
      OBVIOUS
    <3>2. g \in Nat /\ g <= g
      BY <3>1 DEF HostInv, HostTypeOK
    <3> QED BY <2>4, <3>1, <3>2 DEF TaskMoves, SameTask
  <2> QED BY <2>3, <2>5, HostClaims
<1>4. Origins'
  BY <1>1, <1>2 DEF LaunchInv, Origins, Entered, OfForeign
<1>5. ASSUME NEW u \in Stream, NEW q \in Range(queue[u]), Sessioned(q.ext), Sessioned(r.ext),
             Key(u, q.ext) = Key(s, r.ext)
      PROVE  u = s
  <2>1. CASE OfForeign(u, q)
    <3>1. PICK h \in Foreign : h.stream = u /\ q.ext = h.ext
      BY <2>1 DEF OfForeign
    <3> QED BY <1>1, <1>5, <3>1, ForeignAssumption
  <2>2. CASE OfHost(u, q)
    <3>1. PICK k : k = ParseExtMsg(q.ext).kid
      OBVIOUS
    <3>2. k \in Nat /\ k >= FirstKernelId /\ Key(u, q.ext) = <<HostScope, k>>
      BY <2>2, <3>1 DEF OfHost, Key
    <3>3. Scope(s, r.ext) = HostScope /\ ParseExtMsg(r.ext).kid = k
      BY <1>5, <3>2 DEF Key
    <3>4. k < FirstKernelId
      BY <1>1, <1>5, <3>3, ForeignAssumption
    <3> QED BY <3>2, <3>4, AicpuAssumption
  <2> QED BY <2>1, <2>2 DEF LaunchInv, Origins
<1>6. OneStream'
  <2>1. ASSUME NEW u \in Stream, NEW v \in Stream, NEW p \in Range(queue'[u]),
               NEW q \in Range(queue'[v]), Sessioned(p.ext), Sessioned(q.ext),
               Key(u, p.ext) = Key(v, q.ext)
        PROVE  u = v
    <3>1. CASE p \in Range(queue[u]) /\ q \in Range(queue[v])
      BY <2>1, <3>1 DEF LaunchInv, OneStream
    <3>2. CASE u = s /\ p = r /\ q \in Range(queue[v])
      BY <1>5, <2>1, <3>2
    <3>3. CASE v = s /\ q = r /\ p \in Range(queue[u])
      BY <1>5, <2>1, <3>3
    <3> QED BY <1>2, <2>1, <3>1, <3>2, <3>3 DEF Entered
  <2> QED BY <2>1 DEF OneStream
<1>7. ASSUME NEW j \in DOMAIN tasks, Under(s, r, tasks[j].kid) PROVE FALSE
  <2>1. PICK k : k = tasks[j].kid
    OBVIOUS
  <2>2. Scope(s, r.ext) = HostScope /\ ParseExtMsg(r.ext).kid = k /\ Sessioned(r.ext)
    BY <1>7, <2>1 DEF Under, Key
  <2>3. k < FirstKernelId
    BY <1>1, <2>2, ForeignAssumption
  <2>4. k \in Nat /\ FirstKernelId <= k
    BY <2>1, KidsDrawn DEF LaunchInv, KidsFit
  <2> QED BY <2>3, <2>4, AicpuAssumption
<1>8. TaskStream'
  <2>1. ASSUME NEW j \in DOMAIN tasks, NEW u \in Stream, NEW q \in Range(queue'[u]),
               Under(u, q, tasks[j].kid)
        PROVE  /\ u = tasks[j].stream
               /\ tasks[j].kind \in Class3 =>
                    \E h \in Executor : /\ execs[h].st = "sync"
                                        /\ execs[h].list[execs[h].pos] = j
    <3>1. q \in Range(queue[u])
      BY <1>2, <1>7, <2>1 DEF Entered
    <3> QED BY <2>1, <3>1 DEF LaunchInv, TaskStream, Under, Waits
  <2> QED BY <2>1 DEF TaskStream, Under, Waits
<1>9. WaitsWhere'
  BY DEF LaunchInv, WaitsWhere
<1> QED BY <1>3, <1>4, <1>6, <1>8, <1>9 DEF LaunchInv

\* Executor e, in run x, is not waiting, and nobody waits for the task it is at.
LEMMA NobodyWaits ==
    ASSUME HostInv, NEW e \in Executor, NEW s \in Stream, NEW rep \in BOOLEAN,
           NEW x \in RunOf(e, s, rep)
    PROVE  /\ execs[e].st # "sync"
           /\ \A f \in Executor : execs[f].st = "sync" =>
                 f # e /\ execs[f].list[execs[f].pos] # x.list[x.pos]
<1>1. execs[e].st # "sync"
  BY DEF RunOf
<1>2. Runs(e, x)
  BY RunOfRuns
<1>3. x.pos \in Held(execs[e]) /\ execs[e].list = x.list
  <2>1. x \in Call /\ x.pos \in DOMAIN x.list
    BY <1>2 DEF Runs
  <2>2. x.pos >= x.pos
    BY <2>1 DEF Call
  <2>3. x.pos \in Held(x)
    BY <2>1, <2>2 DEF Held
  <2> QED BY <1>2, <2>3 DEF Runs
<1>4. ASSUME NEW f \in Executor, execs[f].st = "sync"
      PROVE  f # e /\ execs[f].list[execs[f].pos] # x.list[x.pos]
  <2>1. ListFits(execs[f]) /\ execs[f] \in Call
    BY DEF HostInv, HostTypeOK
  <2>2. execs[f].pos \in DOMAIN execs[f].list /\ execs[f].pos >= execs[f].pos
    BY <1>4, <2>1 DEF ListFits, Call
  <2>3. execs[f].pos \in Held(execs[f])
    BY <2>2 DEF Held
  <2> QED BY <1>1, <1>3, <1>4, <2>3 DEF HostInv, TaskExclusive
<1> QED BY <1>1, <1>4

\* What a launch writes into its task.
LEMMA WrittenMoves ==
    ASSUME LaunchInv, HostInv, NEW i \in DOMAIN tasks, NEW s \in Stream, NEW shape \in left.shapes,
           DrawnBy(i, s), DOMAIN tasks' = DOMAIN tasks,
           SameTask(Written(i, s, shape), tasks'[i]),
           \A j \in DOMAIN tasks : j # i => SameTask(tasks[j], tasks'[j])
    PROVE  /\ TaskMoves(i) /\ tasks'[i].stream = s /\ tasks'[i].kind = tasks[i].kind
           /\ tasks'[i].kid = KernelId(i, s)
<1>1. tasks[i] \in Task
  BY DEF HostInv, HostTypeOK
<1>2. PICK g, n : g = gKernelId /\ n = tasks[i].kid
  OBVIOUS
<1>3. g \in Nat /\ n \in Nat /\ n < g /\ n # g
  <2>1. g \in Nat /\ n \in Nat /\ n < g
    BY <1>2, KidsDrawn DEF LaunchInv, HostInv, HostTypeOK
  <2> QED BY <2>1
<1>4. PICK a, b, k : /\ a = UpdateShape(tasks[i].in, shape) /\ b = UpdateShape(tasks[i].out, shape)
                     /\ k = KernelId(i, s)
  OBVIOUS
<1>5. Written(i, s, shape) = [tasks[i] EXCEPT !.in = a, !.out = b, !.kid = k, !.stream = s]
  BY <1>4 DEF Written
<1>6. /\ Written(i, s, shape).kid = k /\ Written(i, s, shape).stream = s
      /\ Written(i, s, shape).kind = tasks[i].kind
  BY <1>1, <1>5 DEF Task
<1>7. tasks'[i].kid = k /\ tasks'[i].stream = s /\ tasks'[i].kind = tasks[i].kind
  BY <1>6 DEF SameTask
<1>8. IF tasks[i].stream \in {NoStream, s} THEN k = n /\ gKernelId' = g ELSE k = g /\ gKernelId' = g + 1
  BY <1>2, <1>3, <1>4 DEF KernelId, DrawnBy
<1>9. g + 1 \in Nat /\ g <= g + 1 /\ g < g + 1 /\ g <= g
  BY <1>3
<1>10. TaskMoves(i)
  <2>1. /\ gKernelId \in Nat /\ gKernelId' \in Nat /\ gKernelId <= gKernelId'
    BY <1>2, <1>3, <1>8, <1>9
  <2>2. \/ /\ tasks'[i].kid = tasks[i].kid /\ tasks'[i].kind = tasks[i].kind
           /\ tasks[i].stream \in {NoStream, tasks'[i].stream}
        \/ tasks'[i].kid = gKernelId /\ gKernelId < gKernelId'
    BY <1>2, <1>7, <1>8, <1>9
  <2> QED BY <2>1, <2>2 DEF TaskMoves
<1> QED BY <1>4, <1>7, <1>10

\* The steps of the host but launches.
LEMMA AddLauncherLaunch ==
    ASSUME LaunchInv, HostInv, NEW t \in Thread, NEW e \in Executor, NEW kind \in Kind,
           AddLauncher(t, e, kind)
    PROVE  LaunchInv'
<1>1. HostTypeOK
  BY DEF HostInv
<1>2. /\ execs[e].st \in {"free", "open"}
      /\ UNCHANGED <<queue, work, caches, session_kernel_cache, stream_kernel_cache, ctxs>>
  BY DEF AddLauncher, devVars
<1>3. ASSUME NEW i, execs' = [execs EXCEPT ![e].st = "open", ![e].list = Append(@, i)]
      PROVE  execs'[e].st = "open" /\ \A f \in Executor : f # e => execs'[f] = execs[f]
  <2>1. execs[e] \in Call /\ DOMAIN execs = Executor
    BY <1>1 DEF HostTypeOK
  <2>2. PICK y : y = [execs[e] EXCEPT !.st = "open", !.list = Append(@, i)]
    OBVIOUS
  <2>3. y.st = "open"
    BY <2>1, <2>2 DEF Call
  <2>4. execs' = [execs EXCEPT ![e] = y]
    BY <1>3, <2>1, <2>2
  <2> QED BY <2>1, <2>3, <2>4
<1>4. PICK g : g = gKernelId
  OBVIOUS
<1>5. g \in Nat /\ g <= g /\ g + 1 \in Nat /\ g < g + 1 /\ g <= g + 1
  BY <1>1, <1>4 DEF HostTypeOK
<1>6. \A f \in Executor : execs[f].st = "sync" => execs[f].list[execs[f].pos] \in DOMAIN tasks
  BY DEF HostInv, ListFits
<1>7. CASE Found(t, kind) # {}
  <2>1. PICK i : i = First(Found(t, kind))
    OBVIOUS
  <2>2. i \in DOMAIN tasks
    BY <1>1, <1>7, <2>1, FirstFound
  <2>3. /\ tasks' = [tasks EXCEPT ![i].visit = TRUE] /\ gKernelId' = gKernelId
        /\ execs' = [execs EXCEPT ![e].st = "open", ![e].list = Append(@, i)]
    BY <1>7, <2>1 DEF AddLauncher
  <2>4. DOMAIN tasks' = DOMAIN tasks /\ \A j \in DOMAIN tasks : SameTask(tasks[j], tasks'[j])
    BY <1>1, <2>2, <2>3, VisitSame DEF HostTypeOK
  <2>5. PICK o : o \notin DOMAIN tasks
    BY NoSetContainsEverything
  <2>6. TaskMoves(o)
    BY <1>4, <1>5, <2>3, <2>4, <2>5 DEF TaskMoves
  <2>7. execs'[e].st = "open" /\ \A f \in Executor : f # e => execs'[f] = execs[f]
    BY <1>3, <2>3
  <2> QED BY <1>2, <1>6, <2>4, <2>5, <2>6, <2>7, NotLaunched
<1>8. CASE Found(t, kind) = {}
  <2>1. PICK i, new : i = Len(tasks) + 1 /\ new = NewTask(t, kind)
    OBVIOUS
  <2>2. tasks' = Append(tasks, new) /\ gKernelId' = gKernelId + 1 /\ new.kid = gKernelId
    BY <1>8, <2>1 DEF AddLauncher, NewTask
  <2>3. /\ Len(tasks') = i /\ DOMAIN tasks \subseteq DOMAIN tasks' /\ i \notin DOMAIN tasks
        /\ tasks'[i] = new
        /\ \A j \in DOMAIN tasks' : j # i => j \in DOMAIN tasks /\ tasks'[j] = tasks[j]
    <3>1. tasks \in Seq(Task)
      BY <1>1 DEF HostTypeOK
    <3>2. tasks \in Seq(Task \cup {new})
      BY <3>1
    <3> QED BY <2>1, <2>2, <3>2
  <2>4. execs' = [execs EXCEPT ![e].st = "open", ![e].list = Append(@, i)]
    BY <1>8, <2>3 DEF AddLauncher
  <2>5. TaskMoves(i)
    BY <1>4, <1>5, <2>2, <2>3 DEF TaskMoves, SameTask
  <2>6. execs'[e].st = "open" /\ \A f \in Executor : f # e => execs'[f] = execs[f]
    BY <1>3, <2>4
  <2> QED BY <1>2, <1>6, <2>3, <2>5, <2>6, NotLaunched
<1> QED BY <1>7, <1>8

\* No task is written that matters here, and no id drawn.
LEMMA NoTaskMoves ==
    ASSUME HostInv, gKernelId' = gKernelId, DOMAIN tasks' = DOMAIN tasks,
           \A j \in DOMAIN tasks : SameTask(tasks[j], tasks'[j])
    PROVE  \E o : o \notin DOMAIN tasks /\ TaskMoves(o)
<1>1. PICK o : o \notin DOMAIN tasks
  BY NoSetContainsEverything
<1>2. PICK g : g = gKernelId
  OBVIOUS
<1>3. g \in Nat /\ g <= g
  BY <1>2 DEF HostInv, HostTypeOK
<1> QED BY <1>1, <1>2, <1>3 DEF TaskMoves

\* A step of the host that launches nothing, and the steps that are such.
LEMMA QuietLaunch ==
    ASSUME LaunchInv, HostInv, NEW e \in Executor, NEW y,
           UNCHANGED <<queue, work, caches, session_kernel_cache, stream_kernel_cache, ctxs>>,
           gKernelId' = gKernelId, DOMAIN tasks' = DOMAIN tasks,
           \A j \in DOMAIN tasks : SameTask(tasks[j], tasks'[j]),
           execs' = [execs EXCEPT ![e] = y], y.st # "sync",
           execs[e].st = "sync" => queue[execs[e].stream] = << >>
    PROVE  LaunchInv'
<1>1. PICK o : o \notin DOMAIN tasks /\ TaskMoves(o)
  BY NoTaskMoves
<1>2. execs'[e] = y /\ \A f \in Executor : f # e => execs'[f] = execs[f]
  BY DEF HostInv, HostTypeOK
<1>3. \A f \in Executor : execs[f].st = "sync" => execs[f].list[execs[f].pos] \in DOMAIN tasks
  BY DEF HostInv, ListFits
<1> QED BY <1>1, <1>2, <1>3, NotLaunched

\* A call is given up, waited for or destroyed.
LEMMA PlainHostLaunch ==
    ASSUME LaunchInv, HostInv, NEW e \in Executor, Abandon(e) \/ Synchronized(e) \/ Destroy(e)
    PROVE  LaunchInv'
<1>1. HostTypeOK /\ execs[e] \in Call /\ ListFits(execs[e])
  BY DEF HostInv, HostTypeOK
<1>2. Free.st # "sync"
  BY DEF Free
<1>3. \A j \in DOMAIN tasks : SameTask(tasks[j], tasks[j])
  BY DEF SameTask
<1>4. CASE Abandon(e)
  <2>1. /\ UNCHANGED <<queue, work, caches, session_kernel_cache, stream_kernel_cache, ctxs>>
        /\ gKernelId' = gKernelId /\ tasks' = tasks /\ execs' = [execs EXCEPT ![e] = Free]
        /\ execs[e].st # "sync"
    BY <1>4 DEF Abandon, devVars
  <2> QED BY <1>2, <1>3, <2>1, QuietLaunch
<1>5. CASE Synchronized(e)
  <2>1. PICK x : x = execs[e]
    OBVIOUS
  <2>2. /\ UNCHANGED <<queue, work, caches, session_kernel_cache, stream_kernel_cache, ctxs>>
        /\ gKernelId' = gKernelId /\ x.st = "sync" /\ queue[x.stream] = << >>
        /\ Finished(e, x, tasks)
    BY <1>5, <2>1 DEF Synchronized, devVars
  <2>3. PICK i : i = x.list[x.pos]
    OBVIOUS
  <2>4. i \in DOMAIN tasks /\ x.rep \in BOOLEAN /\ x \in Call
    BY <1>1, <2>1, <2>2, <2>3 DEF ListFits, Call
  <2>5. tasks' = [tasks EXCEPT ![i].visit = x.rep]
    BY <2>2, <2>3 DEF Finished
  <2>6. DOMAIN tasks' = DOMAIN tasks /\ \A j \in DOMAIN tasks : SameTask(tasks[j], tasks'[j])
    BY <1>1, <2>4, <2>5, VisitSame DEF HostTypeOK
  <2>7. PICK y : y = IF x.pos < Len(x.list) THEN [x EXCEPT !.st = "run", !.pos = @ + 1]
                     ELSE IF x.rep THEN [x EXCEPT !.st = "ready"] ELSE Free
    OBVIOUS
  <2>8. execs' = [execs EXCEPT ![e] = y] /\ y.st # "sync"
    BY <1>2, <2>2, <2>4, <2>7 DEF Finished, Call
  <2> QED BY <2>1, <2>2, <2>6, <2>8, QuietLaunch
<1>6. CASE Destroy(e)
  <2>1. /\ UNCHANGED <<queue, work, caches, session_kernel_cache, stream_kernel_cache, ctxs>>
        /\ gKernelId' = gKernelId /\ execs' = [execs EXCEPT ![e] = Free]
        /\ execs[e].st # "sync"
        /\ tasks' = [i \in DOMAIN tasks |-> IF i \in Range(execs[e].list)
                                            THEN [tasks[i] EXCEPT !.visit = FALSE]
                                            ELSE tasks[i]]
    BY <1>6 DEF Destroy, devVars
  <2>2. DOMAIN tasks' = DOMAIN tasks
    BY <2>1
  <2>3. ASSUME NEW j \in DOMAIN tasks PROVE SameTask(tasks[j], tasks'[j])
    <3>1. tasks[j] \in Task
      BY <1>1 DEF HostTypeOK
    <3>2. SameTask(tasks[j], [tasks[j] EXCEPT !.visit = FALSE])
      BY <3>1 DEF Task, SameTask
    <3> QED BY <1>3, <2>1, <3>2
  <2> QED BY <1>2, <2>1, <2>2, <2>3, QuietLaunch
<1> QED BY <1>4, <1>5, <1>6

\* A task that is written and whose visit is set.
LEMMA WrittenSame ==
    ASSUME HostInv, NEW i \in DOMAIN tasks, NEW s \in Stream, NEW shape \in left.shapes,
           NEW v \in BOOLEAN,
           \/ tasks' = [tasks EXCEPT ![i] = Written(i, s, shape)]
           \/ tasks' = [[tasks EXCEPT ![i] = Written(i, s, shape)] EXCEPT ![i].visit = v]
           \/ tasks' = [tasks EXCEPT ![i] = [Written(i, s, shape) EXCEPT !.visit = v]]
    PROVE  /\ DOMAIN tasks' = DOMAIN tasks /\ SameTask(Written(i, s, shape), tasks'[i])
           /\ \A j \in DOMAIN tasks : j # i => SameTask(tasks[j], tasks'[j])
<1>1. PICK t : t = Written(i, s, shape)
  OBVIOUS
<1>2. t \in Task /\ tasks \in Seq(Task)
  BY <1>1, WrittenTask DEF HostInv, HostTypeOK
<1>3. PICK u : u = [t EXCEPT !.visit = v]
  OBVIOUS
<1>4. u \in Task /\ SameTask(t, u) /\ SameTask(t, t)
  BY <1>2, <1>3 DEF Task, SameTask
<1>5. tasks' = [tasks EXCEPT ![i] = t] \/ tasks' = [tasks EXCEPT ![i] = u]
  <2>1. [[tasks EXCEPT ![i] = t] EXCEPT ![i].visit = v] = [tasks EXCEPT ![i] = u]
    <3>1. PICK ts : ts = [tasks EXCEPT ![i] = t]
      OBVIOUS
    <3>2. ts[i] = t
      BY <3>1
    <3>3. [ts EXCEPT ![i].visit = v] = [ts EXCEPT ![i] = u]
      BY <1>3, <3>2
    <3> QED BY <3>1, <3>3
  <2> QED BY <1>1, <1>3, <2>1
<1>6. \A j \in DOMAIN tasks : SameTask(tasks[j], tasks[j])
  BY DEF SameTask
<1>7. CASE tasks' = [tasks EXCEPT ![i] = t]
  BY <1>1, <1>4, <1>6, <1>7
<1>8. CASE tasks' = [tasks EXCEPT ![i] = u]
  BY <1>1, <1>4, <1>6, <1>8
<1> QED BY <1>5, <1>7, <1>8

\* A launch that fails may have drawn a kernel id (AicpuCCTask::Run).
LEMMA LaunchFailsLaunch ==
    ASSUME LaunchInv, HostInv, NEW e \in Executor, NEW s \in Stream, NEW rep \in BOOLEAN,
           NEW shape \in left.shapes, NEW x \in RunOf(e, s, rep), NEW ran \in BOOLEAN,
           LaunchFails(e, x, shape, ran)
    PROVE  LaunchInv'
<1>1. Runs(e, x)
  BY RunOfRuns
<1>2. PICK i, u : i = x.list[x.pos] /\ u = x.stream
  OBVIOUS
<1>3. i \in DOMAIN tasks /\ u \in Stream /\ x \in Call /\ x.rep \in BOOLEAN
  BY <1>1, <1>2 DEF Runs, Call
<1>4. PICK y : y = IF x.rep THEN [x EXCEPT !.st = "ready"] ELSE Free
  OBVIOUS
<1>5. y.st # "sync"
  BY <1>3, <1>4 DEF Call, Free
<1>6. /\ execs' = [execs EXCEPT ![e] = y]
      /\ UNCHANGED <<queue, work, caches, session_kernel_cache, stream_kernel_cache, ctxs>>
  BY <1>4 DEF LaunchFails
<1>7. /\ execs[e].st # "sync"
      /\ \A f \in Executor : execs[f].st = "sync" => f # e /\ execs[f].list[execs[f].pos] # i
  BY <1>2, NobodyWaits
<1>8. execs'[e] = y /\ \A f \in Executor : f # e => execs'[f] = execs[f]
  BY <1>6 DEF HostInv, HostTypeOK
<1>9. CASE ran
  <2>1. /\ tasks' = [tasks EXCEPT ![i] = [Written(i, u, shape) EXCEPT !.visit = x.rep]]
        /\ DrawnBy(i, u)
    BY <1>2, <1>9 DEF LaunchFails
  <2>2. /\ DOMAIN tasks' = DOMAIN tasks /\ SameTask(Written(i, u, shape), tasks'[i])
        /\ \A j \in DOMAIN tasks : j # i => SameTask(tasks[j], tasks'[j])
    BY <1>3, <2>1, WrittenSame
  <2>3. TaskMoves(i)
    BY <1>3, <2>1, <2>2, WrittenMoves
  <2> QED BY <1>5, <1>6, <1>7, <1>8, <2>2, <2>3, NotLaunched
<1>10. CASE ~ran
  <2>1. tasks' = tasks /\ gKernelId' = gKernelId
    BY <1>10 DEF LaunchFails
  <2>2. \A j \in DOMAIN tasks : SameTask(tasks[j], tasks[j])
    BY DEF SameTask
  <2> QED BY <1>5, <1>6, <1>7, <2>1, <2>2, QuietLaunch
<1> QED BY <1>9, <1>10

\* A launch the runtime has refused is waited for, on its stream.
LEMMA LaunchLostLaunch ==
    ASSUME LaunchInv, HostInv, NEW e \in Executor, NEW s \in Stream, NEW rep \in BOOLEAN,
           NEW shape \in left.shapes, NEW x \in RunOf(e, s, rep), LaunchLost(e, x, shape)
    PROVE  LaunchInv'
<1>1. Runs(e, x)
  BY RunOfRuns
<1>2. PICK i, u, t : i = x.list[x.pos] /\ u = x.stream /\ t = Written(i, u, shape)
  OBVIOUS
<1>3. i \in DOMAIN tasks /\ u \in Stream /\ x \in Call /\ x.rep \in BOOLEAN
  BY <1>1, <1>2 DEF Runs, Call
<1>4. /\ DrawnBy(i, u)
      /\ IF Waits(i)
         THEN /\ tasks' = [tasks EXCEPT ![i] = t]
              /\ execs' = [execs EXCEPT ![e] = [x EXCEPT !.st = "sync"]]
         ELSE Finished(e, x, [tasks EXCEPT ![i] = t])
      /\ UNCHANGED <<queue, work, caches, session_kernel_cache, stream_kernel_cache, ctxs>>
  BY <1>2, Zenon DEF LaunchLost
<1>5. /\ DOMAIN tasks' = DOMAIN tasks /\ SameTask(t, tasks'[i])
      /\ \A j \in DOMAIN tasks : j # i => SameTask(tasks[j], tasks'[j])
  <2>1. \/ tasks' = [tasks EXCEPT ![i] = t]
        \/ tasks' = [[tasks EXCEPT ![i] = t] EXCEPT ![i].visit = x.rep]
    BY <1>2, <1>4, Zenon DEF Finished
  <2> QED BY <1>2, <1>3, <2>1, WrittenSame
<1>6. TaskMoves(i) /\ tasks'[i].stream = u
  BY <1>2, <1>3, <1>4, <1>5, WrittenMoves
<1>7. PICK y : y = IF Waits(i) THEN [x EXCEPT !.st = "sync"]
                   ELSE IF x.pos < Len(x.list) THEN [x EXCEPT !.st = "run", !.pos = @ + 1]
                   ELSE IF x.rep THEN [x EXCEPT !.st = "ready"] ELSE Free
  OBVIOUS
<1>8. execs' = [execs EXCEPT ![e] = y]
  BY <1>4, <1>7 DEF Finished
<1>9. execs'[e] = y /\ \A f \in Executor : f # e => execs'[f] = execs[f]
  BY <1>8 DEF HostInv, HostTypeOK
<1>10. y.st = "sync" => y.list[y.pos] = i /\ y.stream = u
  BY <1>2, <1>3, <1>7 DEF Call, Free
<1>11. /\ execs[e].st # "sync"
       /\ \A f \in Executor : execs[f].st = "sync" => f # e /\ execs[f].list[execs[f].pos] # i
  BY <1>2, NobodyWaits
<1>12. execs'[e].st = "sync" => tasks'[execs'[e].list[execs'[e].pos]].stream = execs'[e].stream
  BY <1>6, <1>9, <1>10
<1> QED BY <1>4, <1>5, <1>6, <1>9, <1>11, <1>12, NotLaunched

\* The records of a launch of task i put it under this kernel id.
LEMMA LaunchRead ==
    ASSUME NEW i, NEW in, NEW out, NEW old, NEW new, NEW flag,
           NEW gen, gen = GenCCExtBuffer(i, in, out, SessionInfo(HostSession, old, flag)),
           NEW ext, NEW kid,
           (ext = gen /\ kid = old) \/ (ext = UpdateKernelId(gen, new) /\ kid = new)
    PROVE  /\ Sessioned(ext) /\ SessionRecord(ext).flag = flag /\ SessionRecord(ext).id = HostSession
           /\ ParseExtMsg(ext).has_sess /\ ParseExtMsg(ext).kid = kid /\ ~ParseExtMsg(ext).async
<1>1. ext = GenCCExtBuffer(i, in, out, SessionInfo(HostSession, kid, flag))
  BY KernelIdUpdated
<1>2. PICK r : r = SessionInfo(HostSession, kid, flag)
  OBVIOUS
<1>3. /\ ParseExtSessionInfo(ext) = {r} /\ ParseExtMsg(ext).has_sess
      /\ ParseExtMsg(ext).kid = kid /\ ~ParseExtMsg(ext).async
  BY <1>1, <1>2, HostRecords
<1>4. Sessioned(ext)
  BY <1>3 DEF Sessioned
<1>5. SessionRecord(ext) = r
  BY <1>3 DEF SessionRecord
<1>6. r.flag = flag /\ r.id = HostSession
  BY <1>2 DEF SessionInfo
<1> QED BY <1>3, <1>4, <1>5, <1>6

\* AiCpuKernelLauncher::Launch.
LEMMA LaunchTaskLaunch ==
    ASSUME LaunchInv, HostInv, BlockInv, NEW e \in Executor, NEW s \in Stream, NEW rep \in BOOLEAN,
           NEW shape \in left.shapes, NEW x \in RunOf(e, s, rep), LaunchTask(e, x, shape)
    PROVE  LaunchInv'
<1>1. Runs(e, x)
  BY RunOfRuns
<1>2. PICK i, u, t : i = x.list[x.pos] /\ u = x.stream /\ t = Written(i, u, shape)
  OBVIOUS
<1>3. i \in DOMAIN tasks /\ u \in Stream /\ x \in Call /\ x.rep \in BOOLEAN
  BY <1>1, <1>2 DEF Runs, Call
<1>4. PICK flag : flag = TRUE
  OBVIOUS
<1>5. PICK old : old = GenCCExtBuffer(i, t.in, t.out, SessionInfo(HostSession, tasks[i].kid, flag))
  OBVIOUS
<1>6. PICK ext : ext = IF t.kind \in Class3 THEN old ELSE UpdateKernelId(old, t.kid)
  OBVIOUS
<1>7. PICK r, n : r = Launch(n, i, 0, ext) /\ n = left.own + left.foreign
  OBVIOUS
<1>8. /\ queue' = [queue EXCEPT ![u] = Append(@, r)]
      /\ DrawnBy(i, u)
      /\ IF Waits(i)
         THEN /\ tasks' = [tasks EXCEPT ![i] = t]
              /\ execs' = [execs EXCEPT ![e] = [x EXCEPT !.st = "sync"]]
         ELSE Finished(e, x, [tasks EXCEPT ![i] = t])
      /\ UNCHANGED <<work, caches, session_kernel_cache, stream_kernel_cache, ctxs>>
  BY <1>2, <1>4, <1>5, <1>6, <1>7, Zenon DEF LaunchTask
<1>9. /\ DOMAIN tasks' = DOMAIN tasks /\ SameTask(t, tasks'[i])
      /\ \A j \in DOMAIN tasks : j # i => SameTask(tasks[j], tasks'[j])
  <2>1. \/ tasks' = [tasks EXCEPT ![i] = t]
        \/ tasks' = [[tasks EXCEPT ![i] = t] EXCEPT ![i].visit = x.rep]
    BY <1>2, <1>8, Zenon DEF Finished
  <2> QED BY <1>2, <1>3, <2>1, WrittenSame
<1>10. /\ TaskMoves(i) /\ tasks'[i].stream = u /\ tasks'[i].kind = tasks[i].kind
       /\ tasks'[i].kid = KernelId(i, u)
  BY <1>2, <1>3, <1>8, <1>9, WrittenMoves
<1>11. t.kid = tasks'[i].kid /\ t.kind = tasks[i].kind
  BY <1>9, <1>10 DEF SameTask
<1>12. PICK kid : kid = IF Waits(i) THEN tasks[i].kid ELSE tasks'[i].kid
  OBVIOUS
<1>13. (ext = old /\ kid = tasks[i].kid) \/ (ext = UpdateKernelId(old, t.kid) /\ kid = t.kid)
  BY <1>6, <1>11, <1>12 DEF Waits
<1>14. /\ Sessioned(ext) /\ SessionRecord(ext).flag = flag /\ SessionRecord(ext).id = HostSession
       /\ ParseExtMsg(ext).has_sess /\ ParseExtMsg(ext).kid = kid /\ ~ParseExtMsg(ext).async
  BY <1>5, <1>13, LaunchRead
<1>15. r.ext = ext /\ r.node = i /\ r.blocks = 0
  BY <1>7 DEF Launch
<1>16. Scope(u, ext) = HostScope
  BY <1>4, <1>14 DEF Scope, HostScope
<1>17. kid \in Nat /\ kid >= FirstKernelId
  <2>1. tasks[i].kid \in Nat /\ FirstKernelId <= tasks[i].kid
    BY <1>3, KidsDrawn DEF LaunchInv, KidsFit
  <2>2. gKernelId \in Nat /\ FirstKernelId <= gKernelId
    BY DEF HostInv, HostTypeOK, LaunchInv, KidsFit
  <2>3. kid = tasks[i].kid \/ kid = gKernelId
    BY <1>10, <1>12 DEF KernelId
  <2> QED BY <2>1, <2>2, <2>3, AicpuAssumption
<1>18. OfHost(u, r)
  BY <1>14, <1>15, <1>16, <1>17 DEF OfHost
<1>19. Under(u, r, kid)
  BY <1>14, <1>15, <1>16 DEF Under, Key
<1>20. /\ execs[e].st # "sync"
       /\ \A f \in Executor : execs[f].st = "sync" => f # e /\ execs[f].list[execs[f].pos] # i
  BY <1>2, NobodyWaits
<1>21. PICK y : y = IF Waits(i) THEN [x EXCEPT !.st = "sync"]
                    ELSE IF x.pos < Len(x.list) THEN [x EXCEPT !.st = "run", !.pos = @ + 1]
                    ELSE IF x.rep THEN [x EXCEPT !.st = "ready"] ELSE Free
  OBVIOUS
<1>22. execs' = [execs EXCEPT ![e] = y]
  BY <1>8, <1>21 DEF Finished
<1>23. execs'[e] = y /\ \A f \in Executor : f # e => execs'[f] = execs[f]
  BY <1>22 DEF HostInv, HostTypeOK
<1>24. (Waits(i) => y.st = "sync") /\ (y.st = "sync" => y.list[y.pos] = i /\ y.stream = u)
  BY <1>2, <1>3, <1>21 DEF Call, Free
<1>25. Entered(u, r)
  BY <1>3, <1>8, AppendEnters DEF BlockInv
<1>26. kid = tasks[i].kid /\ tasks[i].stream \notin {NoStream, u} => Waits(i)
  <2>1. tasks[i].kid # gKernelId
    <3>1. PICK g : g = gKernelId
      OBVIOUS
    <3>2. tasks[i].kid \in Nat /\ tasks[i].kid < g /\ g \in Nat
      BY <1>3, <3>1, KidsDrawn DEF LaunchInv, HostInv, HostTypeOK
    <3> QED BY <3>1, <3>2
  <2> QED BY <1>10, <1>12, <2>1 DEF KernelId
<1>27. LaunchedAs(i, e, u, r, kid)
  BY <1>9, <1>10, <1>12, <1>15, <1>18, <1>19, <1>20, <1>23, <1>24, <1>25, <1>26 DEF LaunchedAs
<1> QED BY <1>3, <1>8, <1>10, <1>27, Launched

\* A launch of another framework.
LEMMA ForeignLaunchLaunch ==
    ASSUME LaunchInv, HostInv, BlockInv, NEW f \in Foreign, ForeignLaunch(f)
    PROVE  LaunchInv'
<1>1. PICK r, s : r = Launch(left.own + left.foreign, f.node, f.blocks, f.ext) /\ s = f.stream
  OBVIOUS
<1>2. r.node = f.node /\ r.blocks = f.blocks /\ r.ext = f.ext
  BY <1>1 DEF Launch
<1>3. s \in Stream /\ queue' = [queue EXCEPT ![s] = Append(@, r)]
  BY <1>1, ForeignAssumption DEF ForeignLaunch
<1>4. Entered(f.stream, r)
  BY <1>1, <1>3, AppendEnters DEF BlockInv
<1>5. UNCHANGED <<work, caches, session_kernel_cache, stream_kernel_cache, ctxs,
                  tasks, execs, gKernelId>>
  BY DEF ForeignLaunch
<1> QED BY <1>2, <1>4, <1>5, ForeignLaunched

\* Every step of the host.
LEMMA HostLaunch == ASSUME LaunchInv, HostInv, BlockInv, HostStep PROVE LaunchInv'
<1>1. ASSUME NEW t \in Thread, NEW e \in Executor, NEW kind \in Kind, AddLauncher(t, e, kind)
      PROVE  LaunchInv'
  BY <1>1, AddLauncherLaunch
<1>2. ASSUME NEW e \in Executor, Abandon(e) \/ Synchronized(e) \/ Destroy(e) PROVE LaunchInv'
  BY <1>2, PlainHostLaunch
<1>3. ASSUME NEW e \in Executor, NEW s \in Stream, NEW rep \in BOOLEAN, NEW shape \in left.shapes,
             NEW x \in RunOf(e, s, rep), LaunchTask(e, x, shape)
      PROVE  LaunchInv'
  BY <1>3, LaunchTaskLaunch
<1>4. ASSUME NEW e \in Executor, NEW s \in Stream, NEW rep \in BOOLEAN, NEW shape \in left.shapes,
             NEW x \in RunOf(e, s, rep), NEW ran \in BOOLEAN, LaunchFails(e, x, shape, ran)
      PROVE  LaunchInv'
  BY <1>4, LaunchFailsLaunch
<1>5. ASSUME NEW f \in Foreign, ForeignLaunch(f) PROVE LaunchInv'
  BY <1>5, ForeignLaunchLaunch
<1>6. ASSUME NEW e \in Executor, NEW s \in Stream, NEW rep \in BOOLEAN, NEW shape \in left.shapes,
             NEW x \in RunOf(e, s, rep), LaunchLost(e, x, shape)
      PROVE  LaunchInv'
  BY <1>6, LaunchLostLaunch
<1> QED BY <1>1, <1>2, <1>3, <1>4, <1>5, <1>6, Zenon DEF HostStep

\* At the start other frameworks claim what they will launch.
LEMMA LaunchInit == Init => LaunchInv
<1> SUFFICES ASSUME Init PROVE LaunchInv
  OBVIOUS
<1>1. /\ \A s \in Stream : queue[s] = << >> /\ Range(queue[s]) = {}
      /\ DOMAIN tasks = {} /\ DOMAIN caches = {}
      /\ \A e \in Executor : execs[e].st = "free"
      /\ gKernelId = FirstKernelId
  <2>1. \A s \in Stream : queue[s] = << >>
    BY DEF Init, DevInit
  <2>2. \A s \in Stream : Range(queue[s]) = {}
    BY <2>1, EmptyList
  <2>3. DOMAIN tasks = {} /\ DOMAIN caches = {}
    BY DEF Init, DevInit
  <2>4. \A e \in Executor : execs[e].st = "free"
    BY DEF Init, Free
  <2> QED BY <2>1, <2>2, <2>3, <2>4 DEF Init
<1>2. Claims = ForeignClaims
  <2>1. \A a : a \notin QueueClaims
    BY <1>1, ClaimIn
  <2>2. \A a : a \notin TaskClaims
    BY <1>1, ClaimIn
  <2>3. \A a : a \notin CacheClaims
    BY <1>1, ClaimIn
  <2> QED BY <2>1, <2>2, <2>3 DEF Claims
<1>3. \A a : a \in ForeignClaims <=>
          \E f \in Foreign : Sessioned(f.ext) /\ a = LaunchClaim(f.stream, f)
  BY DEF ForeignClaims
<1>4. ASSUME NEW a \in Claims, NEW b \in Claims, a.key = b.key PROVE a = b
  <2>1. PICK f \in Foreign : Sessioned(f.ext) /\ a = LaunchClaim(f.stream, f)
    BY <1>2, <1>3
  <2>2. PICK g \in Foreign : Sessioned(g.ext) /\ b = LaunchClaim(g.stream, g)
    BY <1>2, <1>3
  <2>3. Key(f.stream, f.ext) = Key(g.stream, g.ext)
    BY <1>4, <2>1, <2>2 DEF LaunchClaim
  <2>4. f.node = g.node /\ f.stream = g.stream /\ Small(f) = Small(g)
    BY <2>1, <2>2, <2>3, ForeignAssumption
  <2> QED BY <2>1, <2>2, <2>3, <2>4, Zenon DEF LaunchClaim
<1>5. ASSUME NEW a \in Claims, a.key[1] = HostScope
      PROVE  a.key[2] \in Nat /\ a.key[2] < gKernelId
  <2>1. PICK f \in Foreign : Sessioned(f.ext) /\ a = LaunchClaim(f.stream, f)
    BY <1>2, <1>3
  <2>2. a.key[1] = Scope(f.stream, f.ext) /\ a.key[2] = ParseExtMsg(f.ext).kid
    BY <2>1 DEF LaunchClaim, Key
  <2> QED BY <1>1, <1>5, <2>1, <2>2, ForeignAssumption
<1>6. ClaimsFit
  BY <1>4, <1>5 DEF ClaimsFit
<1>7. Origins /\ OneStream /\ TaskStream /\ WaitsWhere
  BY <1>1 DEF Origins, OneStream, TaskStream, WaitsWhere
<1>8. KidsFit
  BY <1>1, AicpuAssumption DEF KidsFit
<1> QED BY <1>6, <1>7, <1>8 DEF LaunchInv

-----------------------------------------------------------------------------
(* The device: who has which context                                       *)

\* Context c is filed under kernel id q in cache k.
Files(k, q, c) == k \in DOMAIN caches /\ q \in DOMAIN caches[k].iter /\ caches[k].iter[q] = c

\* A step of the device keeps what is known of the launches when it files
\* nothing that is not claimed.
LEMMA DeviceLaunch ==
    ASSUME LaunchInv, UNCHANGED hostVars,
           \A s \in Stream : Range(queue'[s]) \subseteq Range(queue[s]),
           \A a \in CacheClaims' : a \in Claims
    PROVE  LaunchInv'
<1>1. UNCHANGED <<tasks, execs, gKernelId>>
  BY DEF hostVars
<1>2. ASSUME NEW a \in Claims' PROVE a \in Claims
  <2>1. CASE a \in QueueClaims'
    BY <2>1, ClaimIn DEF Claims
  <2>2. CASE a \in ForeignClaims'
    BY <2>2 DEF Claims, ForeignClaims
  <2>3. CASE a \in TaskClaims'
    BY <1>1, <2>3, ClaimIn DEF Claims
  <2>4. CASE a \in CacheClaims'
    BY <2>4
  <2> QED BY <1>2, <2>1, <2>2, <2>3, <2>4 DEF Claims
<1>3. ClaimsFit'
  BY <1>1, <1>2 DEF LaunchInv, ClaimsFit
<1>4. Origins' /\ OneStream'
  BY DEF LaunchInv, Origins, OneStream
<1>5. TaskStream'
  BY <1>1 DEF LaunchInv, TaskStream, Waits
<1>6. WaitsWhere' /\ KidsFit'
  BY <1>1 DEF LaunchInv, WaitsWhere, KidsFit
<1> QED BY <1>3, <1>4, <1>5, <1>6 DEF LaunchInv

\* A worker at work: its launch is in its queue.
LEMMA AtWork ==
    ASSUME BlockInv, LaunchInv, NEW w \in Worker, work[w] # Idle
    PROVE  /\ w[1] \in Stream /\ work[w].req \in Range(queue[w[1]])
           /\ 1 \in DOMAIN queue[w[1]] /\ queue[w[1]][1] = work[w].req
           /\ work[w].req.n \in Nat /\ work[w].req.n > left.own + left.foreign
           /\ work[w].req.blocks \in 0 .. Blocks
           /\ OfHost(w[1], work[w].req) \/ OfForeign(w[1], work[w].req)
<1>1. PICK s, q : s = w[1] /\ q = queue[s]
  OBVIOUS
<1>2. s \in Stream
  BY <1>1, WorkerParts
<1>3. q # << >> /\ work[w].req = Head(q) /\ q \in Seq(Range(q)) /\ DOMAIN q = 1 .. Len(q)
  BY <1>1, <1>2, QueueLists DEF BlockInv, Running
<1>4. 1 \in DOMAIN q /\ Head(q) = q[1]
  BY <1>3
<1>5. q[1] \in Range(q)
  BY <1>4 DEF Range
<1>6. q[1].n \in Nat /\ q[1].n > left.own + left.foreign /\ q[1].blocks \in 0 .. Blocks
  BY <1>1, <1>2, <1>4 DEF BlockInv, Numbered
<1>7. OfHost(s, q[1]) \/ OfForeign(s, q[1])
  BY <1>1, <1>2, <1>5 DEF LaunchInv, Origins
<1> QED BY <1>1, <1>2, <1>3, <1>4, <1>5, <1>6, <1>7

\* What the records of a launch say of its scope.
LEMMA ScopeFacts ==
    ASSUME BlockInv, LaunchInv, NEW w \in Worker, work[w] # Idle, NEW r, r = work[w].req
    PROVE  /\ Msg(w).has_sess => Sessioned(r.ext)
           /\ Sessioned(r.ext) => /\ ScopeOf(w, r) = Scope(w[1], r.ext)
                                  /\ SessionRecord(r.ext).id \in Session
           /\ Sessioned(r.ext) =>
                IF SessionRecord(r.ext).flag
                THEN ScopeOf(w, r) = <<"session", SessionRecord(r.ext).id>>
                ELSE ScopeOf(w, r) = <<"stream", w[1]>>
           /\ ~Sessioned(r.ext) => ScopeOf(w, r) = <<"own", r.n, w[2]>>
           /\ Parked(w) => /\ Msg(w).has_sess /\ Small(r) /\ Sessioned(r.ext)
                           /\ ScopeOf(w, r) = <<"stream", w[1]>>
<1>1. OfHost(w[1], r) \/ OfForeign(w[1], r)
  BY AtWork
<1>2. PICK s, m : s = w[1] /\ m = ParseExtMsg(r.ext)
  OBVIOUS
<1>3. Msg(w) = m
  BY <1>2 DEF Msg
<1>6. Parked(w) => m.async /\ m.has_sess /\ ~SessionRecord(r.ext).flag /\ Small(r)
  BY <1>3 DEF Parked, SessionOf
<1>4. CASE OfHost(w[1], r)
  <2>1. Sessioned(r.ext) /\ Scope(s, r.ext) = HostScope /\ ~m.async
    BY <1>2, <1>4 DEF OfHost
  <2>2. SessionRecord(r.ext).flag /\ SessionRecord(r.ext).id = HostSession
    BY <2>1 DEF Scope, HostScope
  <2> QED BY <1>2, <1>3, <1>6, <2>1, <2>2, AicpuAssumption DEF ScopeOf, Scope
<1>5. CASE OfForeign(w[1], r)
  <2>1. PICK f \in Foreign : f.stream = s /\ r.blocks = f.blocks /\ r.ext = f.ext
    BY <1>2, <1>5 DEF OfForeign
  <2>2. /\ m.has_sess => Sessioned(r.ext)
        /\ Sessioned(r.ext) => SessionRecord(r.ext).id \in Session
    BY <1>2, <2>1, ForeignAssumption
  <2>3. Sessioned(r.ext) =>
                IF SessionRecord(r.ext).flag
                THEN Scope(s, r.ext) = <<"session", SessionRecord(r.ext).id>>
                ELSE Scope(s, r.ext) = <<"stream", s>>
    BY DEF Scope
  <2>4. ScopeOf(w, r) = IF Sessioned(r.ext) THEN Scope(s, r.ext) ELSE <<"own", r.n, w[2]>>
    BY <1>2 DEF ScopeOf
  <2> QED BY <1>2, <1>3, <1>6, <2>2, <2>3, <2>4
<1> QED BY <1>1, <1>4, <1>5

\* Two workers of one launch of one block are one.
LEMMA OneBlock ==
    ASSUME BlockInv, LaunchInv, NEW v \in Worker, NEW w \in Worker, v[1] = w[1],
           work[v] # Idle, work[w] # Idle, Small(work[v].req)
    PROVE  v = w
<1>1. work[v].req = work[w].req
  BY AtWork
<1>2. v[2] < BlockNum(work[v].req) /\ w[2] < BlockNum(work[v].req)
  BY <1>1 DEF BlockInv, Running
<1>3. BlockNum(work[v].req) = 1
  BY DEF Small, BlockNum
<1>4. v[2] \in Nat /\ w[2] \in Nat /\ v = <<v[1], v[2]>> /\ w = <<w[1], w[2]>>
  <2>1. \A b \in 0 .. Blocks - 1 : b \in Nat
    BY CacheAssumption
  <2> QED BY <2>1, WorkerParts
<1>5. v[2] = 0 /\ w[2] = 0
  BY <1>2, <1>3, <1>4
<1> QED BY <1>4, <1>5

\* Two workers under one key run on one stream and in as many blocks; the
\* worker of one block is alone.
LEMMA OneUser ==
    ASSUME BlockInv, LaunchInv, NEW v \in Worker, NEW w \in Worker,
           work[v] # Idle, work[w] # Idle, Msg(v).has_sess, Msg(w).has_sess,
           ScopeOf(v, work[v].req) = ScopeOf(w, work[w].req), Msg(v).kid = Msg(w).kid,
           Small(work[v].req)
    PROVE  v = w
<1>1. Sessioned(work[v].req.ext) /\ Sessioned(work[w].req.ext)
  BY ScopeFacts
<1>2. Scope(v[1], work[v].req.ext) = Scope(w[1], work[w].req.ext)
  BY <1>1, ScopeFacts
<1>3. Key(v[1], work[v].req.ext) = Key(w[1], work[w].req.ext)
  BY <1>2 DEF Key, Msg
<1>4. v[1] = w[1]
  BY <1>1, <1>3, AtWork DEF LaunchInv, OneStream
<1> QED BY <1>4, OneBlock

\* Names are used once: one that a worker is about to give is new.
LEMMA NoCacheNone ==
    ASSUME HostInv, Born PROVE NoCache \notin DOMAIN caches
<1>1. left.own \in Nat /\ left.foreign \in Nat
  BY DEF HostInv, HostTypeOK
<1>2. PICK k : k = NoCache
  OBVIOUS
<1>3. k[1] = 0
  BY <1>2 DEF NoCache
<1>4. ASSUME k \in DOMAIN caches PROVE FALSE
  <2>1. k[1] > left.own + left.foreign
    BY <1>4 DEF Born, BornIn
  <2> QED BY <1>1, <1>3, <2>1
<1> QED BY <1>2, <1>4

\* A worker's name is new until it makes what it names.
LEMMA NameNew ==
    ASSUME HostInv, BlockInv, LaunchInv, Born, NEW w \in Worker, work[w] # Idle
    PROVE  /\ Name(w) # NoCache
           /\ work[w].pc = "open" => Name(w) \notin DOMAIN caches
           /\ work[w].pc \in {"open", "lookup", "build"} => Name(w) \notin DOMAIN ctxs
<1>1. PICK s, c : s = w[1] /\ c = Name(w)
  OBVIOUS
<1>2. c[1] = work[w].req.n /\ c[2] = w[2] /\ w = <<s, c[2]>> /\ s \in Stream
  BY <1>1, WorkerParts DEF Name
<1>3. 1 \in DOMAIN queue[s] /\ queue[s][1].n = c[1] /\ c[1] \in Nat /\ c[1] > left.own + left.foreign
  BY <1>1, <1>2, AtWork
<1>4. c # NoCache
  <2>1. left.own \in Nat /\ left.foreign \in Nat
    BY DEF HostInv, HostTypeOK
  <2>2. c[1] # 0
    BY <1>3, <2>1
  <2> QED BY <2>2 DEF NoCache
<1>5. ASSUME c \in DOMAIN caches
      PROVE  work[w].pc \in {"lookup", "build", "tensor", "run", "async", "done"}
  BY <1>2, <1>3, <1>5 DEF Born, BornIn
<1>6. ASSUME c \in DOMAIN ctxs PROVE work[w].pc \in {"tensor", "run", "async", "done"}
  BY <1>2, <1>3, <1>6 DEF Born, BornIn
<1> QED BY <1>1, <1>4, <1>5, <1>6

\* Worker w takes a step to this stage.
Went(w, pc, kernel, ctx, proto) ==
    /\ work[w] # Idle /\ work'[w] # Idle
    /\ work'[w].pc = pc /\ work'[w].req = work[w].req /\ work'[w].kernel = kernel
    /\ work'[w].ctx = ctx /\ work'[w].proto = proto
    /\ \A v \in Worker : v # w => work'[v] = work[v]
    /\ UNCHANGED <<queue, left>>

CacheStages == {"lookup", "build", "tensor", "run", "async", "done"}
ContextStages == {"tensor", "run", "async", "done"}

\* A worker's step gives its own name at most.
LEMMA BornOnce ==
    ASSUME HostInv, BlockInv, LaunchInv, NEW w \in Worker,
           NEW pc, NEW kernel, NEW ctx, NEW proto, Went(w, pc, kernel, ctx, proto),
           NEW stages, work[w].pc \in stages => pc \in stages,
           NEW old, BornIn(old, stages), NEW new,
           \A k \in new : k \in old \/ (k = Name(w) /\ pc \in stages)
    PROVE  BornIn(new, stages)'
<1>1. UNCHANGED <<queue, left>> /\ work[w] # Idle /\ work'[w].pc = pc
  BY DEF Went
<1>2. ASSUME NEW k \in old
      PROVE  /\ k[1] \in Nat /\ k[1] > left.own + left.foreign
             /\ \A s \in Stream : \A i \in DOMAIN queue[s] : queue[s][i].n = k[1] =>
                   i = 1 /\ <<s, k[2]>> \in Worker /\ work'[<<s, k[2]>>].pc \in stages
  <2>1. ASSUME NEW v \in Worker, work[v].pc \in stages PROVE work'[v].pc \in stages
    BY <2>1 DEF Went
  <2> QED BY <2>1 DEF BornIn
<1>3. /\ Name(w)[1] \in Nat /\ Name(w)[1] > left.own + left.foreign
      /\ \A s \in Stream : \A i \in DOMAIN queue[s] : queue[s][i].n = Name(w)[1] =>
            i = 1 /\ <<s, Name(w)[2]>> = w
  <2>1. PICK t, c : t = w[1] /\ c = Name(w)
    OBVIOUS
  <2>2. c[1] = work[w].req.n /\ c[2] = w[2] /\ w = <<t, c[2]>> /\ t \in Stream
    BY <2>1, WorkerParts DEF Name
  <2>3. 1 \in DOMAIN queue[t] /\ queue[t][1].n = c[1] /\ c[1] \in Nat /\ c[1] > left.own + left.foreign
    BY <1>1, <2>1, <2>2, AtWork
  <2>4. ASSUME NEW s \in Stream, NEW i \in DOMAIN queue[s], queue[s][i].n = c[1]
        PROVE  s = t /\ i = 1
    BY <2>2, <2>3, <2>4 DEF BlockInv, Numbered
  <2> QED BY <2>1, <2>2, <2>3, <2>4
<1> QED BY <1>1, <1>2, <1>3 DEF BornIn

\* ... so names stay given once.
LEMMA BornKept ==
    ASSUME HostInv, BlockInv, LaunchInv, Born, NEW w \in Worker,
           NEW pc, NEW kernel, NEW ctx, NEW proto, Went(w, pc, kernel, ctx, proto),
           work[w].pc \in CacheStages => pc \in CacheStages,
           work[w].pc \in ContextStages => pc \in ContextStages,
           \A k \in DOMAIN caches' : k \in DOMAIN caches \/ (k = Name(w) /\ pc \in CacheStages),
           \A k \in DOMAIN ctxs' : k \in DOMAIN ctxs \/ (k = Name(w) /\ pc \in ContextStages)
    PROVE  Born'
<1>1. PICK a, b, c, d : a = DOMAIN caches /\ b = DOMAIN caches' /\ c = DOMAIN ctxs /\ d = DOMAIN ctxs'
  OBVIOUS
<1>2. BornIn(a, CacheStages) /\ BornIn(c, ContextStages)
  BY <1>1 DEF Born, CacheStages, ContextStages
<1>3. BornIn(b, CacheStages)'
  BY <1>1, <1>2, BornOnce
<1>4. BornIn(d, ContextStages)'
  BY <1>1, <1>2, BornOnce
<1>5. BornIn(DOMAIN caches, CacheStages)' /\ BornIn(DOMAIN ctxs, ContextStages)'
  BY <1>1, <1>3, <1>4 DEF BornIn
<1> QED BY <1>5 DEF Born, CacheStages, ContextStages

\* Who reaches a cache after such a step.
LEMMA ScopesKept ==
    ASSUME NEW w \in Worker, NEW pc, NEW kernel, NEW ctx, NEW proto, Went(w, pc, kernel, ctx, proto),
           NEW k, NEW S, \A o : o \in ScopesOf(k) => o \in S,
           kernel = work[w].kernel \/ kernel # k \/ ScopeOf(w, work[w].req) \in S,
           \A i \in Session : session_kernel_cache'[i] = k => <<"session", i>> \in S,
           \A s \in Stream : stream_kernel_cache'[s] = k => <<"stream", s>> \in S
    PROVE  ScopesOf(k)' \subseteq S
<1>1. ASSUME NEW o \in ScopesOf(k)' PROVE o \in S
  <2>1. CASE \E i \in Session : o = <<"session", i>> /\ session_kernel_cache'[i] = k
    BY <2>1
  <2>2. CASE \E s \in Stream : o = <<"stream", s>> /\ stream_kernel_cache'[s] = k
    BY <2>2
  <2>3. ASSUME NEW v \in Worker, work'[v] # Idle, work'[v].kernel = k, o = ScopeOf(v, work'[v].req)
        PROVE  o \in S
    <3>1. CASE v # w
      BY <2>3, <3>1, ScopeIn DEF Went
    <3>2. CASE v = w
      <4>1. work'[w].kernel = kernel /\ work'[w].req = work[w].req /\ work[w] # Idle
        BY DEF Went
      <4>2. CASE kernel = work[w].kernel
        BY <2>3, <3>2, <4>1, <4>2, ScopeIn
      <4> QED BY <2>3, <3>2, <4>1, <4>2
    <3> QED BY <3>1, <3>2
  <2>4. \/ \E i \in Session : o = <<"session", i>> /\ session_kernel_cache'[i] = k
        \/ \E s \in Stream : o = <<"stream", s>> /\ stream_kernel_cache'[s] = k
        \/ \E v \in Worker : work'[v] # Idle /\ work'[v].kernel = k /\ o = ScopeOf(v, work'[v].req)
    BY ScopeIn
  <2> QED BY <2>1, <2>2, <2>3, <2>4
<1> QED BY <1>1

\* What others have of a step.
LEMMA UsersKept ==
    ASSUME UsersFit, NEW w \in Worker, NEW pc, NEW kernel, NEW ctx, NEW proto,
           Went(w, pc, kernel, ctx, proto),
           \A v \in Worker : v # w /\ Has(v) =>
               work[v].ctx \in DOMAIN ctxs' /\ ctxs'[work[v].ctx] = ctxs[work[v].ctx],
           \A k, q, c : Files(k, q, c)' /\ c \in DOMAIN ctxs => Files(k, q, c),
           \A k \in DOMAIN caches : ScopesOf(k)' \subseteq ScopesOf(k),
           pc \in {"tensor", "run", "async"} => UserFits(w)'
    PROVE  UsersFit'
<1>1. /\ work'[w].pc = pc /\ \A v \in Worker : v # w => work'[v] = work[v]
  BY DEF Went
<1>2. Has(w)' => UserFits(w)'
  BY <1>1 DEF Has
<1>3. ASSUME NEW v \in Worker, v # w, Has(v) PROVE UserFits(v)'
  <2>1. UserFits(v) /\ work'[v] = work[v] /\ work[v].ctx \in DOMAIN ctxs
    BY <1>1, <1>3 DEF UsersFit, UserFits
  <2>2. Msg(v)' = Msg(v) /\ Blk(v)' = Blk(v)
    BY <2>1 DEF Msg, Blk
  <2>3. work[v].ctx \in DOMAIN ctxs' /\ ctxs'[work[v].ctx] = ctxs[work[v].ctx]
    BY <1>3
  <2>4. ASSUME NEW u \in Worker, Has(u)', u # v PROVE work'[u].ctx # work[v].ctx
    <3>1. CASE u = w
      <4>1. UserFits(w)'
        BY <1>2, <2>4, <3>1
      <4>2. Has(v)'
        BY <1>3, <2>1 DEF Has
      <4> QED BY <2>1, <2>4, <3>1, <4>1, <4>2 DEF UserFits
    <3>2. CASE u # w
      <4>1. work'[u] = work[u] /\ Has(u)
        BY <1>1, <2>4, <3>2 DEF Has
      <4> QED BY <2>1, <2>4, <4>1 DEF UserFits
    <3> QED BY <3>1, <3>2
  <2>5. ASSUME NEW k \in DOMAIN caches', NEW q \in DOMAIN caches'[k].iter,
               caches'[k].iter[q] = work[v].ctx
        PROVE  /\ Msg(v).has_sess /\ q = Msg(v).kid
               /\ ScopesOf(k)' \subseteq {ScopeOf(v, work[v].req)}
    <3>1. Files(k, q, work[v].ctx)
      <4>1. PICK c : c = work[v].ctx
        OBVIOUS
      <4>2. Files(k, q, c)'
        BY <2>5, <4>1 DEF Files
      <4> QED BY <2>1, <4>1, <4>2
    <3> QED BY <2>1, <3>1 DEF UserFits, Files
  <2> QED BY <2>1, <2>2, <2>3, <2>4, <2>5 DEF UserFits
<1>4. ASSUME NEW v \in Worker, Has(v)' PROVE UserFits(v)'
  BY <1>1, <1>2, <1>3, <1>4 DEF Has
<1> QED BY <1>4 DEF UsersFit

\* Whether a launch is parked is up to its records.
LEMMA ParkedSame == ASSUME NEW v, work'[v].req = work[v].req PROVE Parked(v)' <=> Parked(v)
  BY DEF Parked, Msg, SessionOf

\* Others keep their NodeDef.
LEMMA KeepersKept ==
    ASSUME KeepersFit, NEW w \in Worker, NEW pc, NEW kernel, NEW ctx, NEW proto,
           Went(w, pc, kernel, ctx, proto),
           \A v \in Worker : /\ v # w /\ Has(v) /\ Msg(v).has_sess /\ Small(work[v].req)
                             /\ KeptFor(v, work[v].kernel) \/ Full(work[v].kernel)
                             /\ work[v].pc # "async"
                             => KeptFor(v, work[v].kernel)' \/ Full(work[v].kernel)',
           \A v \in Worker : /\ v # w /\ Has(v) /\ Parked(v)
                             /\ KeptFor(v, stream_kernel_cache[v[1]])
                             => KeptFor(v, stream_kernel_cache[v[1]])',
           pc \in {"tensor", "run", "async"} => KeeperFits(w)'
    PROVE  KeepersFit'
<1>1. /\ work'[w].pc = pc /\ \A v \in Worker : v # w => work'[v] = work[v]
  BY DEF Went
<1>2. Has(w)' => KeeperFits(w)'
  BY <1>1 DEF Has
<1>3. ASSUME NEW v \in Worker, v # w, Has(v) PROVE KeeperFits(v)'
  <2>1. KeeperFits(v) /\ work'[v] = work[v]
    BY <1>1, <1>3 DEF KeepersFit
  <2>2. Msg(v)' = Msg(v) /\ (Parked(v)' <=> Parked(v))
    BY <2>1, ParkedSame DEF Msg
  <2>3. ASSUME work[v].pc # "async", ~work[v].proto
        PROVE  /\ Msg(v).has_sess /\ Small(work[v].req)
               /\ KeptFor(v, work[v].kernel)' \/ Full(work[v].kernel)'
    BY <1>3, <2>1, <2>3 DEF KeeperFits
  <2>4. ASSUME Parked(v) PROVE KeptFor(v, stream_kernel_cache[v[1]])'
    BY <1>3, <2>1, <2>4 DEF KeeperFits
  <2> QED BY <2>1, <2>2, <2>3, <2>4 DEF KeeperFits
<1>4. ASSUME NEW v \in Worker, Has(v)' PROVE KeeperFits(v)'
  BY <1>1, <1>2, <1>3, <1>4 DEF Has
<1> QED BY <1>4 DEF KeepersFit

\* What is filed.
LEMMA FiledIs ==
    /\ FiledFits <=> /\ \A k, q, c : Files(k, q, c) => c \in DOMAIN ctxs
                     /\ \A k, l, q, p, c : Files(k, q, c) /\ Files(l, p, c) => k = l /\ q = p
    /\ FiledFits' <=> /\ \A k, q, c : Files(k, q, c)' => c \in DOMAIN ctxs'
                      /\ \A k, l, q, p, c : Files(k, q, c)' /\ Files(l, p, c)' => k = l /\ q = p
<1>1. ASSUME FiledFits
      PROVE  /\ \A k, q, c : Files(k, q, c) => c \in DOMAIN ctxs
             /\ \A k, l, q, p, c : Files(k, q, c) /\ Files(l, p, c) => k = l /\ q = p
  BY <1>1 DEF FiledFits, Files
<1>2. ASSUME \A k, q, c : Files(k, q, c) => c \in DOMAIN ctxs,
             \A k, l, q, p, c : Files(k, q, c) /\ Files(l, p, c) => k = l /\ q = p
      PROVE  FiledFits
  <2>1. ASSUME NEW k \in DOMAIN caches, NEW q \in DOMAIN caches[k].iter
        PROVE  caches[k].iter[q] \in DOMAIN ctxs
    <3>1. PICK c : c = caches[k].iter[q]
      OBVIOUS
    <3>2. Files(k, q, c)
      BY <2>1, <3>1 DEF Files
    <3> QED BY <1>2, <3>1, <3>2
  <2>2. ASSUME NEW k \in DOMAIN caches, NEW l \in DOMAIN caches,
               NEW q \in DOMAIN caches[k].iter, NEW p \in DOMAIN caches[l].iter,
               caches[k].iter[q] = caches[l].iter[p]
        PROVE  k = l /\ q = p
    <3>1. PICK c : c = caches[k].iter[q]
      OBVIOUS
    <3>2. Files(k, q, c) /\ Files(l, p, c)
      BY <2>2, <3>1 DEF Files
    <3> QED BY <1>2, <3>2
  <2> QED BY <2>1, <2>2 DEF FiledFits
<1>3. ASSUME FiledFits'
      PROVE  /\ \A k, q, c : Files(k, q, c)' => c \in DOMAIN ctxs'
             /\ \A k, l, q, p, c : Files(k, q, c)' /\ Files(l, p, c)' => k = l /\ q = p
  BY <1>3 DEF FiledFits, Files
<1>4. ASSUME \A k, q, c : Files(k, q, c)' => c \in DOMAIN ctxs',
             \A k, l, q, p, c : Files(k, q, c)' /\ Files(l, p, c)' => k = l /\ q = p
      PROVE  FiledFits'
  <2>1. ASSUME NEW k \in DOMAIN caches', NEW q \in DOMAIN caches'[k].iter
        PROVE  caches'[k].iter[q] \in DOMAIN ctxs'
    <3>1. PICK c : c = caches'[k].iter[q]
      OBVIOUS
    <3>2. Files(k, q, c)'
      BY <2>1, <3>1 DEF Files
    <3> QED BY <1>4, <3>1, <3>2
  <2>2. ASSUME NEW k \in DOMAIN caches', NEW l \in DOMAIN caches',
               NEW q \in DOMAIN caches'[k].iter, NEW p \in DOMAIN caches'[l].iter,
               caches'[k].iter[q] = caches'[l].iter[p]
        PROVE  k = l /\ q = p
    <3>1. PICK c : c = caches'[k].iter[q]
      OBVIOUS
    <3>2. Files(k, q, c)' /\ Files(l, p, c)'
      BY <2>2, <3>1 DEF Files
    <3> QED BY <1>4, <3>2
  <2> QED BY <2>1, <2>2 DEF FiledFits
<1> QED BY <1>1, <1>2, <1>3, <1>4

\* What is claimed of contexts after a step.
LEMMA ClaimsFiled ==
    ASSUME \A k, q, c : Files(k, q, c)' =>
               \/ /\ Files(k, q, c) /\ ScopesOf(k)' \subseteq ScopesOf(k)
                  /\ ctxs'[c].node = ctxs[c].node /\ ctxs'[c].blk = ctxs[c].blk
               \/ \A o \in ScopesOf(k)' : ContextClaim(o, q, ctxs'[c]) \in Claims
    PROVE  \A a \in CacheClaims' : a \in Claims
<1>1. ASSUME NEW a \in CacheClaims' PROVE a \in Claims
  <2>1. PICK k \in DOMAIN caches' : \E o \in ScopesOf(k)', q \in DOMAIN caches'[k].iter :
             a = ContextClaim(o, q, ctxs'[caches'[k].iter[q]])
    BY ClaimIn
  <2>2. PICK o \in ScopesOf(k)', q \in DOMAIN caches'[k].iter :
             a = ContextClaim(o, q, ctxs'[caches'[k].iter[q]])
    BY <2>1
  <2>3. PICK c : c = caches'[k].iter[q]
    OBVIOUS
  <2>4. Files(k, q, c)' /\ a = ContextClaim(o, q, ctxs'[c])
    BY <2>1, <2>2, <2>3 DEF Files
  <2>5. CASE /\ Files(k, q, c) /\ ScopesOf(k)' \subseteq ScopesOf(k)
             /\ ctxs'[c].node = ctxs[c].node /\ ctxs'[c].blk = ctxs[c].blk
    <3>1. a = ContextClaim(o, q, ctxs[c])
      BY <2>4, <2>5 DEF ContextClaim
    <3>2. /\ k \in DOMAIN caches /\ o \in ScopesOf(k) /\ q \in DOMAIN caches[k].iter
          /\ c = caches[k].iter[q]
      BY <2>2, <2>5 DEF Files
    <3>3. a \in CacheClaims
      BY <3>1, <3>2, ClaimIn
    <3> QED BY <3>3 DEF Claims
  <2> QED BY <2>2, <2>4, <2>5
<1> QED BY <1>1

\* Caches of one scope stay so, and new ones are.
LEMMA ScopesStay ==
    ASSUME ScopesFit,
           \A k \in DOMAIN caches' :
               \/ /\ k \in DOMAIN caches /\ ScopesOf(k)' \subseteq ScopesOf(k)
                  /\ caches'[k].sess_flag = caches[k].sess_flag
               \/ \E o : /\ ScopesOf(k)' \subseteq {o}
                         /\ \A i \in Session : o = <<"session", i>> => caches'[k].sess_flag
    PROVE  ScopesFit'
<1>1. ASSUME NEW k \in DOMAIN caches'
      PROVE  /\ \A a, b \in ScopesOf(k)' : a = b
             /\ \A i \in Session : <<"session", i>> \in ScopesOf(k)' => caches'[k].sess_flag
  <2>1. CASE /\ k \in DOMAIN caches /\ ScopesOf(k)' \subseteq ScopesOf(k)
             /\ caches'[k].sess_flag = caches[k].sess_flag
    BY <2>1 DEF ScopesFit
  <2>2. ASSUME NEW o, ScopesOf(k)' \subseteq {o},
               \A i \in Session : o = <<"session", i>> => caches'[k].sess_flag
        PROVE  /\ \A a, b \in ScopesOf(k)' : a = b
               /\ \A i \in Session : <<"session", i>> \in ScopesOf(k)' => caches'[k].sess_flag
    BY <2>2
  <2> QED BY <2>1, <2>2
<1> QED BY <1>1 DEF ScopesFit

\* Caches that are reached are still there, and reached from one scope.
LEMMA ReachKept ==
    ASSUME ReachFits, NEW w \in Worker, NEW pc, NEW kernel, NEW ctx, NEW proto,
           Went(w, pc, kernel, ctx, proto), MapsReach', ScopesFit',
           DOMAIN caches \subseteq DOMAIN caches',
           \A s \in Stream : stream_kernel_cache[s] # NoCache =>
               stream_kernel_cache'[s] = stream_kernel_cache[s],
           Reaches(w)'
    PROVE  ReachFits'
<1>1. ASSUME NEW v \in Worker, work'[v] # Idle PROVE Reaches(v)'
  <2>1. CASE v # w
    <3>1. work'[v] = work[v] /\ Reaches(v) /\ v[1] \in Stream
      BY <1>1, <2>1, WorkerParts DEF Went, ReachFits
    <3> QED BY <3>1 DEF Reaches
  <2> QED BY <2>1
<1> QED BY <1>1 DEF ReachFits

\* Nothing about the caches changes but the order of their lists and who
\* reaches them, nor about the contexts of others.
SameCaches ==
    /\ DOMAIN caches' = DOMAIN caches
    /\ \A k \in DOMAIN caches : /\ caches'[k].iter = caches[k].iter
                                /\ caches'[k].sess_flag = caches[k].sess_flag
                                /\ Len(caches'[k].lru) = Len(caches[k].lru)
    /\ stream_kernel_cache' = stream_kernel_cache
    /\ \A i \in Session : session_kernel_cache'[i] \in {session_kernel_cache[i], NoCache}
SameContexts(w) ==
    /\ DOMAIN ctxs' = DOMAIN ctxs
    /\ \A c \in DOMAIN ctxs : ctxs'[c].node = ctxs[c].node /\ ctxs'[c].blk = ctxs[c].blk
    /\ \A v \in Worker : v # w /\ Has(v) => ctxs'[work[v].ctx] = ctxs[work[v].ctx]
Forward(pc, next) ==
    /\ pc \in CacheStages => next \in CacheStages
    /\ pc \in ContextStages => next \in ContextStages

\* A step that files nothing, and reaches no cache it did not reach.
LEMMA SameFiles == ASSUME SameCaches PROVE \A k, q, c : Files(k, q, c)' <=> Files(k, q, c)
  BY DEF SameCaches, Files

\* ... adds no scope to a cache.
LEMMA SameScopes ==
    ASSUME HostInv, Born, SameCaches, NEW w \in Worker, NEW pc, NEW kernel, NEW ctx, NEW proto,
           Went(w, pc, kernel, ctx, proto), kernel \in {work[w].kernel, NoCache},
           NEW k \in DOMAIN caches
    PROVE  ScopesOf(k)' \subseteq ScopesOf(k)
<1>1. k # NoCache
  BY NoCacheNone
<1>2. PICK S : S = ScopesOf(k)
  OBVIOUS
<1>3. \A i \in Session : session_kernel_cache'[i] = k => <<"session", i>> \in S
  BY <1>1, <1>2, ScopeIn DEF SameCaches
<1>4. \A s \in Stream : stream_kernel_cache'[s] = k => <<"stream", s>> \in S
  BY <1>1, <1>2, ScopeIn DEF SameCaches
<1> QED BY <1>1, <1>2, <1>3, <1>4, ScopesKept

\* A worker's step that files and opens nothing.
LEMMA QuietStep ==
    ASSUME HostInv, BlockInv, LaunchInv, ContextInv, UNCHANGED hostVars, NEW w \in Worker,
           NEW pc, NEW kernel, NEW ctx, NEW proto, Went(w, pc, kernel, ctx, proto),
           SameCaches, SameContexts(w), kernel \in {work[w].kernel, NoCache},
           Forward(work[w].pc, pc),
           pc \in {"lookup", "build", "tensor", "run"} => kernel # NoCache, pc # "open",
           pc \in {"tensor", "run", "async"} => UserFits(w)' /\ KeeperFits(w)'
    PROVE  LaunchInv' /\ ContextInv'
<1>1. Born /\ ReachFits /\ FiledFits /\ UsersFit /\ KeepersFit
  BY DEF ContextInv
<1>2. \A k, q, c : Files(k, q, c)' <=> Files(k, q, c)
  BY SameFiles
<1>3. \A k \in DOMAIN caches : ScopesOf(k)' \subseteq ScopesOf(k)
  BY <1>1, SameScopes
<1>4. LaunchInv'
  <2>1. \A k, q, c : Files(k, q, c)' =>
            /\ Files(k, q, c) /\ ScopesOf(k)' \subseteq ScopesOf(k)
            /\ ctxs'[c].node = ctxs[c].node /\ ctxs'[c].blk = ctxs[c].blk
    <3>1. \A k, q, c : Files(k, q, c) => k \in DOMAIN caches /\ c \in DOMAIN ctxs
      BY <1>1, FiledIs DEF Files
    <3> QED BY <1>2, <1>3, <3>1 DEF SameContexts
  <2>2. \A a \in CacheClaims' : a \in Claims
    BY <2>1, ClaimsFiled
  <2>3. queue' = queue
    BY DEF Went
  <2> QED BY <2>2, <2>3, DeviceLaunch
<1>5. Born'
  <2>1. DOMAIN caches' = DOMAIN caches /\ DOMAIN ctxs' = DOMAIN ctxs
    BY DEF SameCaches, SameContexts
  <2> QED BY <1>1, <2>1, BornKept DEF Forward
<1>6. ReachFits'
  <2>1. MapsReach'
    BY <1>1 DEF ReachFits, MapsReach, SameCaches
  <2>2. ScopesFit'
    BY <1>1, <1>3, ScopesStay DEF ReachFits, SameCaches
  <2>3. Reaches(w)'
    <3>1. /\ work'[w].pc = pc /\ work'[w].req = work[w].req /\ work'[w].kernel = kernel
          /\ Reaches(w)
      BY <1>1 DEF Went, ReachFits
    <3>2. DOMAIN caches' = DOMAIN caches /\ stream_kernel_cache' = stream_kernel_cache
      BY DEF SameCaches
    <3> QED BY <3>1, <3>2 DEF Reaches
  <2> QED BY <1>1, <2>1, <2>2, <2>3, ReachKept DEF SameCaches
<1>7. FiledFits'
  BY <1>1, <1>2, FiledIs DEF SameContexts
<1>8. UsersFit'
  <2>1. \A v \in Worker : v # w /\ Has(v) =>
            work[v].ctx \in DOMAIN ctxs' /\ ctxs'[work[v].ctx] = ctxs[work[v].ctx]
    BY <1>1 DEF UsersFit, UserFits, SameContexts
  <2> QED BY <1>1, <1>2, <1>3, <2>1, UsersKept
<1>9. KeepersFit'
  <2>1. ASSUME NEW v \in Worker, v # w
        PROVE  /\ \A k : KeptFor(v, k) <=> Files(k, Msg(v).kid, work[v].ctx)
               /\ \A k : KeptFor(v, k)' <=> Files(k, Msg(v).kid, work[v].ctx)'
               /\ Msg(v)' = Msg(v) /\ work'[v] = work[v]
    <3>1. work'[v] = work[v]
      BY <2>1 DEF Went
    <3> QED BY <3>1 DEF KeptFor, Files, Msg
  <2>2. ASSUME NEW v \in Worker, v # w, NEW k, KeptFor(v, k) PROVE KeptFor(v, k)'
    <3>1. PICK q, c : q = Msg(v).kid /\ c = work[v].ctx
      OBVIOUS
    <3>2. Files(k, q, c)
      BY <2>2, <3>1 DEF KeptFor, Files
    <3>3. Files(k, q, c)'
      BY <1>2, <3>2
    <3> QED BY <2>1, <2>2, <3>1, <3>3 DEF KeptFor, Files
  <2>3. ASSUME NEW v \in Worker, v # w, Has(v), work[v].pc # "async",
               KeptFor(v, work[v].kernel) \/ Full(work[v].kernel)
        PROVE  KeptFor(v, work[v].kernel)' \/ Full(work[v].kernel)'
    <3>1. PICK k : k = work[v].kernel
      OBVIOUS
    <3>2. k \in DOMAIN caches /\ work'[v].kernel = k
      <4>1. work[v] # Idle /\ work[v].pc \in {"tensor", "run"}
        BY <2>3 DEF Has, Idle
      <4> QED BY <1>1, <2>1, <2>3, <3>1, <4>1 DEF ReachFits, Reaches
    <3>3. CASE KeptFor(v, k)
      <4>1. KeptFor(v, k)'
        BY <2>2, <2>3, <3>3
      <4> QED BY <3>1, <3>2, <4>1 DEF KeptFor
    <3>4. CASE Full(k)
      BY <3>1, <3>2, <3>4 DEF Full, SameCaches
    <3> QED BY <2>3, <3>1, <3>3, <3>4
  <2>4. ASSUME NEW v \in Worker, v # w, KeptFor(v, stream_kernel_cache[v[1]])
        PROVE  KeptFor(v, stream_kernel_cache[v[1]])'
    <3>1. PICK k : k = stream_kernel_cache[v[1]]
      OBVIOUS
    <3>2. KeptFor(v, k)' /\ stream_kernel_cache'[v[1]] = k
      BY <2>2, <2>4, <3>1 DEF SameCaches
    <3> QED BY <3>2 DEF KeptFor
  <2> QED BY <1>1, <2>3, <2>4, KeepersKept
<1> QED BY <1>4, <1>5, <1>6, <1>7, <1>8, <1>9 DEF ContextInv

\* The forms a worker's step takes.
LEMMA Wrote ==
    ASSUME BlockInv, NEW w \in Worker, work[w] # Idle, UNCHANGED <<queue, left>>,
           NEW y, work' = [work EXCEPT ![w] = y], y.pc # "idle", y.req = work[w].req
    PROVE  Went(w, y.pc, y.kernel, y.ctx, y.proto)
<1>1. DOMAIN work = Worker
  BY DEF BlockInv, WorkInv
<1>2. y # Idle
  BY DEF Idle
<1>3. work'[w] = y /\ \A v \in Worker : v # w => work'[v] = work[v]
  BY <1>1
<1> QED BY <1>2, <1>3 DEF Went

\* The forms in which the workers' steps write.
LEMMA Shifts ==
    ASSUME BlockInv, NEW w \in Worker, NEW at, At(w, at), at # "idle", UNCHANGED <<queue, left>>,
           NEW pc, pc # "idle"
    PROVE  /\ Goto(w, pc) => Went(w, pc, work[w].kernel, work[w].ctx, work[w].proto)
           /\ \A k : work' = [work EXCEPT ![w].kernel = k, ![w].pc = pc] =>
                 Went(w, pc, k, work[w].ctx, work[w].proto)
           /\ \A c : work' = [work EXCEPT ![w].ctx = c, ![w].pc = pc] =>
                 Went(w, pc, work[w].kernel, c, work[w].proto)
           /\ \A c, p : work' = [work EXCEPT ![w].ctx = c, ![w].proto = p, ![w].pc = pc] =>
                 Went(w, pc, work[w].kernel, c, p)
           /\ \A shape : Return(w, pc, shape) => Went(w, pc, NoCache, work[w].ctx, FALSE)
<1>1. PICK x : x = work[w]
  OBVIOUS
<1>2. /\ x # Idle
      /\ x = [pc |-> x.pc, req |-> x.req, kernel |-> x.kernel, ctx |-> x.ctx,
              proto |-> x.proto, shape |-> x.shape]
  BY <1>1, WorkerFields
<1>3. PICK a, r, l, d, p0, sh : x = [pc |-> a, req |-> r, kernel |-> l, ctx |-> d,
                                     proto |-> p0, shape |-> sh]
  BY <1>2
<1>4. x.req = r /\ x.kernel = l /\ x.ctx = d /\ x.proto = p0 /\ DOMAIN work = Worker
  BY <1>3 DEF BlockInv, WorkInv
<1>5. ASSUME Goto(w, pc) PROVE Went(w, pc, work[w].kernel, work[w].ctx, work[w].proto)
  <2>1. PICK y : y = [x EXCEPT !.pc = pc]
    OBVIOUS
  <2>2. work' = [work EXCEPT ![w] = y]
    BY <1>1, <1>5, <2>1 DEF Goto
  <2>3. y = [pc |-> pc, req |-> r, kernel |-> l, ctx |-> d, proto |-> p0, shape |-> sh]
    BY <1>3, <2>1
  <2>4. y.pc = pc /\ y.req = r /\ y.kernel = l /\ y.ctx = d /\ y.proto = p0
    BY <2>3
  <2> QED BY <1>1, <1>2, <1>4, <2>2, <2>4, Wrote
<1>6. ASSUME NEW k, work' = [work EXCEPT ![w].kernel = k, ![w].pc = pc]
      PROVE  Went(w, pc, k, work[w].ctx, work[w].proto)
  <2>1. PICK z : z = [x EXCEPT !.kernel = k]
    OBVIOUS
  <2>2. z = [pc |-> a, req |-> r, kernel |-> k, ctx |-> d, proto |-> p0, shape |-> sh]
    BY <1>3, <2>1
  <2>3. PICK y : y = [z EXCEPT !.pc = pc]
    OBVIOUS
  <2>4. y = [pc |-> pc, req |-> r, kernel |-> k, ctx |-> d, proto |-> p0, shape |-> sh]
    BY <2>2, <2>3
  <2>5. work' = [work EXCEPT ![w] = y]
    BY <1>1, <1>4, <1>6, <2>1, <2>3
  <2>6. y.pc = pc /\ y.req = r /\ y.kernel = k /\ y.ctx = d /\ y.proto = p0
    BY <2>4
  <2> QED BY <1>1, <1>2, <1>4, <2>5, <2>6, Wrote
<1>7. ASSUME NEW c, work' = [work EXCEPT ![w].ctx = c, ![w].pc = pc]
      PROVE  Went(w, pc, work[w].kernel, c, work[w].proto)
  <2>1. PICK z : z = [x EXCEPT !.ctx = c]
    OBVIOUS
  <2>2. z = [pc |-> a, req |-> r, kernel |-> l, ctx |-> c, proto |-> p0, shape |-> sh]
    BY <1>3, <2>1
  <2>3. PICK y : y = [z EXCEPT !.pc = pc]
    OBVIOUS
  <2>4. y = [pc |-> pc, req |-> r, kernel |-> l, ctx |-> c, proto |-> p0, shape |-> sh]
    BY <2>2, <2>3
  <2>5. work' = [work EXCEPT ![w] = y]
    BY <1>1, <1>4, <1>7, <2>1, <2>3
  <2>6. y.pc = pc /\ y.req = r /\ y.kernel = l /\ y.ctx = c /\ y.proto = p0
    BY <2>4
  <2> QED BY <1>1, <1>2, <1>4, <2>5, <2>6, Wrote
<1>8. ASSUME NEW c, NEW p, work' = [work EXCEPT ![w].ctx = c, ![w].proto = p, ![w].pc = pc]
      PROVE  Went(w, pc, work[w].kernel, c, p)
  <2>1. PICK z : z = [x EXCEPT !.ctx = c]
    OBVIOUS
  <2>2. z = [pc |-> a, req |-> r, kernel |-> l, ctx |-> c, proto |-> p0, shape |-> sh]
    BY <1>3, <2>1
  <2>3. PICK u : u = [z EXCEPT !.proto = p]
    OBVIOUS
  <2>4. u = [pc |-> a, req |-> r, kernel |-> l, ctx |-> c, proto |-> p, shape |-> sh]
    BY <2>2, <2>3
  <2>5. PICK y : y = [u EXCEPT !.pc = pc]
    OBVIOUS
  <2>6. y = [pc |-> pc, req |-> r, kernel |-> l, ctx |-> c, proto |-> p, shape |-> sh]
    BY <2>4, <2>5
  <2>7. work' = [work EXCEPT ![w] = y]
    BY <1>1, <1>4, <1>8, <2>1, <2>3, <2>5
  <2>8. y.pc = pc /\ y.req = r /\ y.kernel = l /\ y.ctx = c /\ y.proto = p
    BY <2>6
  <2> QED BY <1>1, <1>2, <1>4, <2>7, <2>8, Wrote
<1>9. ASSUME NEW shape, Return(w, pc, shape)
      PROVE  Went(w, pc, NoCache, work[w].ctx, FALSE)
  <2>1. PICK n : n = NoCache
    OBVIOUS
  <2>2. PICK no : no = FALSE
    OBVIOUS
  <2>3. PICK z : z = [x EXCEPT !.kernel = n]
    OBVIOUS
  <2>4. z = [pc |-> a, req |-> r, kernel |-> n, ctx |-> d, proto |-> p0, shape |-> sh]
    BY <1>3, <2>3
  <2>5. PICK u : u = [z EXCEPT !.proto = no]
    OBVIOUS
  <2>6. u = [pc |-> a, req |-> r, kernel |-> n, ctx |-> d, proto |-> no, shape |-> sh]
    BY <2>4, <2>5
  <2>7. PICK v : v = [u EXCEPT !.pc = pc]
    OBVIOUS
  <2>8. v = [pc |-> pc, req |-> r, kernel |-> n, ctx |-> d, proto |-> no, shape |-> sh]
    BY <2>6, <2>7
  <2>9. PICK y : y = [v EXCEPT !.shape = shape]
    OBVIOUS
  <2>10. y = [pc |-> pc, req |-> r, kernel |-> n, ctx |-> d, proto |-> no, shape |-> shape]
    BY <2>8, <2>9
  <2>11. work' = [work EXCEPT ![w] = y]
    BY <1>1, <1>9, <2>1, <2>2, <2>3, <2>5, <2>7, <2>9, Zenon DEF Return
  <2>12. y.pc = pc /\ y.req = r /\ y.kernel = n /\ y.ctx = d /\ y.proto = no
    BY <2>10
  <2>13. Went(w, y.pc, y.kernel, y.ctx, y.proto)
    BY <1>1, <1>2, <1>4, <2>11, <2>12, Wrote
  <2> QED BY <1>1, <1>4, <2>1, <2>2, <2>12, <2>13, Zenon
<1> QED BY <1>5, <1>6, <1>7, <1>8, <1>9

-----------------------------------------------------------------------------
(* The steps of a worker                                                   *)

\* A step that leaves caches and contexts alone.
LEMMA AloneSame ==
    ASSUME UNCHANGED <<caches, stream_kernel_cache, ctxs>>, NEW w,
           \A i \in Session : session_kernel_cache'[i] \in {session_kernel_cache[i], NoCache}
    PROVE  SameCaches /\ SameContexts(w)
  BY DEF SameCaches, SameContexts

\* A worker ends its launch.
LEMMA Ended ==
    ASSUME HostInv, BlockInv, LaunchInv, ContextInv, UNCHANGED hostVars, NEW w \in Worker,
           NEW kernel, NEW ctx, NEW proto, Went(w, "done", kernel, ctx, proto),
           kernel \in {work[w].kernel, NoCache}, UNCHANGED <<caches, stream_kernel_cache, ctxs>>,
           \A i \in Session : session_kernel_cache'[i] \in {session_kernel_cache[i], NoCache}
    PROVE  LaunchInv' /\ ContextInv'
<1>1. SameCaches /\ SameContexts(w)
  BY AloneSame
<1>2. Forward(work[w].pc, "done")
  BY DEF Forward, CacheStages, ContextStages
<1>3. PICK pc : pc = "done"
  OBVIOUS
<1>4. Went(w, pc, kernel, ctx, proto) /\ Forward(work[w].pc, pc)
  BY <1>2, <1>3
<1>5. pc \notin {"lookup", "build", "tensor", "run", "open", "async"}
  BY <1>3
<1> QED BY <1>1, <1>4, <1>5, QuietStep

\* A node that does not parse ends the launch.
LEMMA BuildFailsContext ==
    ASSUME HostInv, BlockInv, LaunchInv, ContextInv, UNCHANGED hostVars, NEW w \in Worker,
           BuildFails(w)
    PROVE  LaunchInv' /\ ContextInv'
<1>1. /\ At(w, "build") /\ Goto(w, "done")
      /\ UNCHANGED <<queue, caches, session_kernel_cache, stream_kernel_cache, ctxs, left>>
  BY DEF BuildFails, hostVars
<1>2. Went(w, "done", work[w].kernel, work[w].ctx, work[w].proto)
  BY <1>1, Shifts
<1> QED BY <1>1, <1>2, Ended

\* A run that ends.
LEMMA ComputeContext ==
    ASSUME HostInv, BlockInv, LaunchInv, ContextInv, UNCHANGED hostVars, NEW w \in Worker,
           Compute(w) \/ AsyncDone(w) \/ AsyncFails(w)
    PROVE  LaunchInv' /\ ContextInv'
<1>1. /\ At(w, "run") \/ At(w, "async")
      /\ \E shape : Return(w, "done", shape)
      /\ UNCHANGED <<queue, caches, session_kernel_cache, stream_kernel_cache, ctxs, left>>
  BY DEF Compute, AsyncDone, AsyncFails, hostVars
<1>2. PICK shape : Return(w, "done", shape)
  BY <1>1
<1>3. Went(w, "done", NoCache, work[w].ctx, FALSE)
  <2>1. CASE At(w, "run")
    BY <1>1, <1>2, <2>1, Shifts
  <2>2. CASE At(w, "async")
    BY <1>1, <1>2, <2>2, Shifts
  <2> QED BY <1>1, <2>1, <2>2
<1> QED BY <1>1, <1>3, Ended

\* RunCpuKernelAsync: the kernel goes on when its run has returned; what a
\* parked one needs is kept by its stream's cache.
LEMMA ComputeAsyncContext ==
    ASSUME HostInv, BlockInv, LaunchInv, ContextInv, UNCHANGED hostVars, NEW w \in Worker,
           ComputeAsync(w)
    PROVE  LaunchInv' /\ ContextInv'
<1>1. /\ At(w, "run") /\ Msg(w).async /\ Return(w, "async", << >>)
      /\ UNCHANGED <<queue, caches, session_kernel_cache, stream_kernel_cache, ctxs, left>>
  BY DEF ComputeAsync, hostVars
<1>2. PICK pc, no : pc = "async" /\ no = FALSE
  OBVIOUS
<1>3. Went(w, pc, NoCache, work[w].ctx, no)
  <2>1. Went(w, "async", NoCache, work[w].ctx, FALSE)
    BY <1>1, Shifts
  <2> QED BY <1>2, <2>1, Zenon
<1>4. SameCaches /\ SameContexts(w)
  BY <1>1, AloneSame
<1>5. Forward(work[w].pc, pc)
  BY <1>2 DEF Forward, CacheStages, ContextStages
<1>6. /\ work'[w].req = work[w].req /\ work'[w].ctx = work[w].ctx /\ work'[w].pc = "async"
      /\ \A v \in Worker : v # w => work'[v] = work[v]
  BY <1>2, <1>3 DEF Went
<1>7. work[w].pc = "run" /\ Has(w) /\ work[w] # Idle
  BY <1>1 DEF At, Has, Idle
<1>8. UserFits(w) /\ KeeperFits(w)
  BY <1>7 DEF ContextInv, UsersFit, KeepersFit
<1>9. Msg(w)' = Msg(w) /\ Blk(w)' = Blk(w) /\ (Parked(w)' <=> Parked(w))
  BY <1>6, ParkedSame DEF Msg, Blk
<1>10. \A v \in Worker : v # w => (Has(v)' <=> Has(v)) /\ work'[v].ctx = work[v].ctx
  BY <1>6 DEF Has
<1>11. \A k \in DOMAIN caches : ScopesOf(k)' \subseteq ScopesOf(k)
  BY <1>3, <1>4, SameScopes DEF ContextInv
<1>12. UserFits(w)'
  BY <1>1, <1>6, <1>7, <1>8, <1>9, <1>10, <1>11 DEF UserFits
<1>13. KeeperFits(w)'
  BY <1>1, <1>6, <1>8, <1>9 DEF KeeperFits, KeptFor
<1> QED BY <1>2, <1>3, <1>4, <1>5, <1>12, <1>13, QuietStep

\* A hit leaves the index alone.
LEMMA GotSame ==
    ASSUME NEW c, CacheSound(c), NEW key, NEW d, d = GetCache(c, key)
    PROVE  d.iter = c.iter /\ d.sess_flag = c.sess_flag /\ Len(d.lru) = Len(c.lru)
<1>1. CASE key \in DOMAIN c.iter /\ ~c.sess_flag
  <2>1. PICK lru : lru = ToFront(c.lru, key)
    OBVIOUS
  <2>2. Len(lru) = Len(c.lru)
    BY <1>1, <2>1, ToFrontSame DEF CacheSound
  <2>3. d = [c EXCEPT !.lru = lru]
    BY <1>1, <2>1 DEF GetCache
  <2>4. d = [sess_flag |-> c.sess_flag, lru |-> lru, iter |-> c.iter]
    BY <2>3 DEF CacheSound
  <2> QED BY <2>2, <2>4
<1>2. CASE ~(key \in DOMAIN c.iter /\ ~c.sess_flag)
  BY <1>2 DEF GetCache
<1> QED BY <1>1, <1>2

\* The scope of a worker that holds a cache.
LEMMA OwnScope ==
    ASSUME BlockInv, LaunchInv, ContextInv, NEW w \in Worker, work[w] # Idle,
           NEW k, k = work[w].kernel, k \in DOMAIN caches
    PROVE  /\ ScopeOf(w, work[w].req) \in ScopesOf(k)
           /\ ScopesOf(k) \subseteq {ScopeOf(w, work[w].req)}
<1>1. ScopeOf(w, work[w].req) \in ScopesOf(k)
  BY ScopeIn
<1> QED BY <1>1 DEF ContextInv, ReachFits, ScopesFit

\* A context that is found is for the kernel of the launch, and nobody has it.
LEMMA FoundOwn ==
    ASSUME BlockInv, LaunchInv, ContextInv, NEW w \in Worker, work[w] # Idle,
           NEW k, k = work[w].kernel, Msg(w).has_sess, Small(work[w].req),
           NEW c, Files(k, Msg(w).kid, c)
    PROVE  /\ c \in DOMAIN ctxs /\ ctxs[c].node = work[w].req.node /\ ctxs[c].blk = Blk(w)
           /\ \A v \in Worker : Has(v) /\ v # w => work[v].ctx # c
           /\ \A l, q : Files(l, q, c) => l = k /\ q = Msg(w).kid
<1>1. PICK r, q : r = work[w].req /\ q = Msg(w).kid
  OBVIOUS
<1>2. k \in DOMAIN caches /\ q \in DOMAIN caches[k].iter /\ caches[k].iter[q] = c
  BY <1>1 DEF Files
<1>3. c \in DOMAIN ctxs /\ \A l, p : Files(l, p, c) => l = k /\ p = q
  BY <1>1, FiledIs DEF ContextInv
<1>4. ScopeOf(w, r) \in ScopesOf(k) /\ ScopesOf(k) \subseteq {ScopeOf(w, r)}
  BY <1>1, <1>2, OwnScope
<1>5. Sessioned(r.ext) /\ ScopeOf(w, r) = Scope(w[1], r.ext)
  BY <1>1, ScopeFacts
<1>6. ctxs[c].node = r.node /\ ctxs[c].blk = <<0, 1>>
  <2>1. PICK a, b : a = LaunchClaim(w[1], r) /\ b = ContextClaim(ScopeOf(w, r), q, ctxs[c])
    OBVIOUS
  <2>2. a \in Claims
    BY <1>1, <1>5, <2>1, AtWork, ClaimIn DEF Claims
  <2>3. b \in Claims
    BY <1>2, <1>4, <2>1, ClaimIn DEF Claims
  <2>4. a.key = <<ScopeOf(w, r), q>>
    BY <1>1, <1>5, <2>1 DEF LaunchClaim, Key, Msg
  <2>5. b.key = <<ScopeOf(w, r), q>>
    BY <2>1 DEF ContextClaim
  <2>6. a = b
    BY <2>2, <2>3, <2>4, <2>5 DEF LaunchInv, ClaimsFit
  <2>7. a.node = r.node /\ a.small = Small(r)
    BY <2>1 DEF LaunchClaim
  <2>8. b.node = ctxs[c].node /\ b.small = (ctxs[c].blk = <<0, 1>>)
    BY <2>1 DEF ContextClaim
  <2>9. ctxs[c].node = r.node
    BY <2>6, <2>7, <2>8
  <2>10. Small(r)
    BY <1>1
  <2>11. ctxs[c].blk = <<0, 1>>
    <3>1. Small(r) = (ctxs[c].blk = <<0, 1>>)
      BY <2>6, <2>7, <2>8, Zenon
    <3> QED BY <2>10, <3>1
  <2> QED BY <2>9, <2>11
<1>7. Blk(w) = <<0, 1>>
  BY DEF Blk, Small
<1>8. ASSUME NEW v \in Worker, Has(v), v # w, work[v].ctx = c PROVE FALSE
  <2>1. UserFits(v) /\ work[v] # Idle
    BY <1>8 DEF ContextInv, UsersFit, Has, Idle
  <2>2. Msg(v).has_sess /\ q = Msg(v).kid /\ ScopesOf(k) \subseteq {ScopeOf(v, work[v].req)}
    BY <1>2, <1>8, <2>1 DEF UserFits
  <2>3. ScopeOf(v, work[v].req) = ScopeOf(w, work[w].req)
    BY <1>1, <1>4, <2>2
  <2>4. v = w
    BY <1>1, <2>1, <2>2, <2>3, OneUser
  <2> QED BY <1>8, <2>4
<1> QED BY <1>1, <1>3, <1>6, <1>7, <1>8

\* The first half of GetCpuKernelContext: a context that is found is one that
\* was made for the same kernel, and nobody has it.
LEMMA LookupContext ==
    ASSUME HostInv, BlockInv, CacheInv, LaunchInv, ContextInv, UNCHANGED hostVars, NEW w \in Worker,
           Lookup(w)
    PROVE  LaunchInv' /\ ContextInv'
<1>1. /\ At(w, "lookup")
      /\ UNCHANGED <<queue, session_kernel_cache, stream_kernel_cache, ctxs, left>>
  BY DEF Lookup, hostVars
<1>2. PICK k, q : k = work[w].kernel /\ q = Msg(w).kid
  OBVIOUS
<1>3. work[w] # Idle /\ work[w].pc = "lookup" /\ ~work[w].proto
  BY <1>1, WorkerFields
<1>4. k # NoCache /\ k \in DOMAIN caches
  BY <1>2, <1>3 DEF ContextInv, ReachFits, Reaches
<1>5. CASE ~Msg(w).ok
  <2>1. Goto(w, "done") /\ caches' = caches
    BY <1>5 DEF Lookup
  <2>2. Went(w, "done", work[w].kernel, work[w].ctx, work[w].proto)
    BY <1>1, <2>1, Shifts
  <2> QED BY <1>1, <2>1, <2>2, Ended
<1>6. CASE Msg(w).ok /\ MayHit(w) /\ q \in DOMAIN caches[k].iter
  <2>1. PICK c, pc : c = caches[k].iter[q] /\ pc = "tensor"
    OBVIOUS
  <2>2. /\ caches' = [caches EXCEPT ![k] = GetCache(@, q)]
        /\ work' = [work EXCEPT ![w].ctx = c, ![w].pc = "tensor"]
    BY <1>2, <1>6, <2>1 DEF Lookup
  <2>3. Went(w, pc, k, c, work[w].proto)
    BY <1>1, <1>2, <2>1, <2>2, Shifts
  <2>4. SameCaches
    <3>1. PICK d : d = GetCache(caches[k], q)
      OBVIOUS
    <3>2. CacheSound(caches[k])
      BY <1>4 DEF CacheInv
    <3>3. d.iter = caches[k].iter /\ d.sess_flag = caches[k].sess_flag /\ Len(d.lru) = Len(caches[k].lru)
      BY <3>1, <3>2, GotSame
    <3>4. caches' = [caches EXCEPT ![k] = d]
      BY <1>4, <2>2, <3>1
    <3> QED BY <1>1, <1>4, <3>3, <3>4 DEF SameCaches
  <2>5. SameContexts(w)
    BY <1>1 DEF SameContexts
  <2>6. Forward(work[w].pc, pc)
    BY <2>1 DEF Forward, CacheStages, ContextStages
  <2>7. /\ work'[w].pc = "tensor" /\ work'[w].req = work[w].req /\ work'[w].kernel = k
        /\ work'[w].ctx = c /\ work'[w].proto = work[w].proto
        /\ \A v \in Worker : v # w => work'[v] = work[v]
    BY <2>1, <2>3 DEF Went
  <2>8. Msg(w)' = Msg(w) /\ Blk(w)' = Blk(w) /\ (Parked(w)' <=> Parked(w))
    BY <2>7, ParkedSame DEF Msg, Blk
  <2>9. Msg(w).has_sess /\ Small(work[w].req) /\ Files(k, q, c)
    BY <1>4, <1>6, <2>1 DEF MayHit, Small, Files
  <2>10. /\ c \in DOMAIN ctxs /\ ctxs[c].node = work[w].req.node /\ ctxs[c].blk = Blk(w)
         /\ \A v \in Worker : Has(v) /\ v # w => work[v].ctx # c
         /\ \A l, p : Files(l, p, c) => l = k /\ p = q
    BY <1>2, <1>3, <2>9, FoundOwn
  <2>11. ScopesOf(k)' \subseteq {ScopeOf(w, work[w].req)}
    <3>1. ScopesOf(k) \subseteq {ScopeOf(w, work[w].req)}
      BY <1>2, <1>3, <1>4, OwnScope
    <3>2. ScopesOf(k)' \subseteq ScopesOf(k)
      BY <1>2, <1>4, <2>3, <2>4, SameScopes DEF ContextInv
    <3> QED BY <3>1, <3>2
  <2>12. UserFits(w)'
    <3>1. \A v \in Worker : Has(v)' /\ v # w => work'[v].ctx # c
      BY <2>7, <2>10 DEF Has
    <3>2. ASSUME NEW l \in DOMAIN caches', NEW p \in DOMAIN caches'[l].iter, caches'[l].iter[p] = c
          PROVE  p = q /\ ScopesOf(l)' \subseteq {ScopeOf(w, work[w].req)}
      <4>1. Files(l, p, c)'
        BY <3>2 DEF Files
      <4>2. Files(l, p, c)
        BY <2>4, <4>1, SameFiles
      <4> QED BY <2>10, <2>11, <4>2
    <3> QED BY <1>1, <1>2, <2>7, <2>8, <2>9, <2>10, <3>1, <3>2 DEF UserFits
  <2>13. KeeperFits(w)'
    <3>1. Files(k, q, c)'
      BY <2>4, <2>9, SameFiles
    <3>2. KeptFor(w, k)'
      BY <1>2, <2>7, <2>8, <3>1 DEF KeptFor, Files
    <3>3. Parked(w) => stream_kernel_cache[w[1]] = k
      BY <1>2, <1>3, <1>4, ScopeFacts DEF ContextInv, ReachFits, Reaches
    <3>4. work'[w].kernel = k /\ (Parked(w) => stream_kernel_cache'[w[1]] = k)
      BY <1>1, <2>7, <3>3
    <3>5. KeptFor(w, work[w].kernel)' /\ (Parked(w) => KeptFor(w, stream_kernel_cache[w[1]])')
      BY <3>2, <3>4 DEF KeptFor
    <3> QED BY <2>7, <2>8, <2>9, <3>5 DEF KeeperFits
  <2> QED BY <1>2, <1>4, <2>1, <2>3, <2>4, <2>5, <2>6, <2>12, <2>13, QuietStep
<1>7. CASE Msg(w).ok /\ ~(MayHit(w) /\ q \in DOMAIN caches[k].iter)
  <2>1. Goto(w, "build") /\ caches' = caches
    BY <1>2, <1>7 DEF Lookup
  <2>2. PICK pc : pc = "build"
    OBVIOUS
  <2>3. Went(w, pc, k, work[w].ctx, work[w].proto)
    BY <1>1, <1>2, <2>1, <2>2, Shifts
  <2>4. SameCaches /\ SameContexts(w)
    BY <1>1, <2>1, AloneSame
  <2>5. Forward(work[w].pc, pc)
    BY <1>3, <2>2 DEF Forward, CacheStages, ContextStages
  <2>6. pc \notin {"tensor", "run", "async", "open"}
    BY <2>2
  <2> QED BY <1>2, <1>4, <2>3, <2>4, <2>5, <2>6, QuietStep
<1> QED BY <1>5, <1>6, <1>7

\* UpdateTensor writes into a context that nobody else has.
LEMMA TensorContext ==
    ASSUME HostInv, BlockInv, LaunchInv, ContextInv, UNCHANGED hostVars, NEW w \in Worker, Tensor(w)
    PROVE  LaunchInv' /\ ContextInv'
<1>1. /\ At(w, "tensor")
      /\ UNCHANGED <<queue, caches, session_kernel_cache, stream_kernel_cache, left>>
  BY Zenon DEF Tensor, hostVars
<1>2. CASE Goto(w, "done") /\ UNCHANGED ctxs
  <2>1. Went(w, "done", work[w].kernel, work[w].ctx, work[w].proto)
    BY <1>1, <1>2, Shifts
  <2> QED BY <1>1, <1>2, <2>1, Ended
<1>3. ASSUME NEW sh, Goto(w, "run"), Msg(w).unknown => sh = Dims(Msg(w).input[1]),
             ctxs' = [ctxs EXCEPT ![work[w].ctx] =
                        [@ EXCEPT !.io = work[w].req.n, !.space = Space(w), !.shape = sh]]
      PROVE  LaunchInv' /\ ContextInv'
  <2>1. work[w] # Idle /\ work[w].pc = "tensor" /\ Has(w)
    BY <1>1, WorkerFields DEF Has
  <2>2. UserFits(w) /\ KeeperFits(w) /\ Reaches(w)
    BY <2>1 DEF ContextInv, UsersFit, KeepersFit, ReachFits
  <2>3. PICK c, io, space, pc, k : /\ c = work[w].ctx /\ io = work[w].req.n /\ space = Space(w)
                                   /\ pc = "run" /\ k = work[w].kernel
    OBVIOUS
  <2>4. c \in DOMAIN ctxs /\ ctxs[c].node = work[w].req.node /\ ctxs[c].blk = Blk(w)
    BY <2>2, <2>3 DEF UserFits
  <2>5. ctxs' = [ctxs EXCEPT ![c] = [@ EXCEPT !.io = io, !.space = space, !.shape = sh]]
    BY <1>3, <2>3
  <2>6. /\ DOMAIN ctxs' = DOMAIN ctxs
        /\ \A d \in DOMAIN ctxs : d # c => ctxs'[d] = ctxs[d]
    BY <2>5
  <2>7. /\ ctxs'[c].node = ctxs[c].node /\ ctxs'[c].blk = ctxs[c].blk
        /\ ctxs'[c].io = io /\ ctxs'[c].shape = sh
    <3>1. PICK n, b, i, h, a : ctxs[c] = [node |-> n, blk |-> b, io |-> i, shape |-> h,
                                          space |-> a]
      BY <2>4 DEF BlockInv, ContextFields
    <3>2. PICK y : y = [node |-> n, blk |-> b, io |-> io, shape |-> h, space |-> a]
      OBVIOUS
    <3>3. PICK z : z = [node |-> n, blk |-> b, io |-> io, shape |-> h, space |-> space]
      OBVIOUS
    <3>4. y = [ctxs[c] EXCEPT !.io = io]
      BY <3>1, <3>2
    <3>5. z = [y EXCEPT !.space = space]
      BY <3>2, <3>3
    <3>6. ctxs'[c] = [z EXCEPT !.shape = sh]
      BY <2>4, <2>5, <3>4, <3>5
    <3>7. [z EXCEPT !.shape = sh] = [node |-> n, blk |-> b, io |-> io, shape |-> sh,
                                     space |-> space]
      BY <3>3
    <3> QED BY <3>1, <3>6, <3>7
  <2>8. Went(w, pc, k, c, work[w].proto)
    BY <1>1, <1>3, <2>3, Shifts
  <2>9. SameCaches
    BY <1>1 DEF SameCaches
  <2>10. SameContexts(w)
    <3>1. ASSUME NEW v \in Worker, v # w, Has(v) PROVE ctxs'[work[v].ctx] = ctxs[work[v].ctx]
      <4>1. work[v].ctx # c /\ work[v].ctx \in DOMAIN ctxs
        BY <2>2, <2>3, <3>1 DEF UserFits, ContextInv, UsersFit
      <4> QED BY <2>6, <4>1
    <3>2. ASSUME NEW d \in DOMAIN ctxs
          PROVE  ctxs'[d].node = ctxs[d].node /\ ctxs'[d].blk = ctxs[d].blk
      BY <2>6, <2>7
    <3> QED BY <2>6, <3>1, <3>2 DEF SameContexts
  <2>11. Forward(work[w].pc, pc)
    BY <2>3 DEF Forward, CacheStages, ContextStages
  <2>12. /\ work'[w].pc = "run" /\ work'[w].req = work[w].req /\ work'[w].kernel = k
         /\ work'[w].ctx = c /\ work'[w].proto = work[w].proto
         /\ \A v \in Worker : v # w => work'[v] = work[v]
    BY <2>3, <2>8 DEF Went
  <2>13. Msg(w)' = Msg(w) /\ Blk(w)' = Blk(w) /\ (Parked(w)' <=> Parked(w))
    BY <2>12, ParkedSame DEF Msg, Blk
  <2>14. UserFits(w)'
    <3>1. \A v \in Worker : Has(v)' /\ v # w => work'[v].ctx # c
      BY <2>2, <2>3, <2>12 DEF Has, UserFits
    <3>2. ASSUME NEW l \in DOMAIN caches', NEW p \in DOMAIN caches'[l].iter, caches'[l].iter[p] = c
          PROVE  /\ Msg(w).has_sess /\ p = Msg(w).kid
                 /\ ScopesOf(l)' \subseteq {ScopeOf(w, work[w].req)}
      <4>1. l \in DOMAIN caches /\ p \in DOMAIN caches[l].iter /\ caches[l].iter[p] = c
        BY <1>1, <3>2
      <4>2. /\ Msg(w).has_sess /\ p = Msg(w).kid
            /\ ScopesOf(l) \subseteq {ScopeOf(w, work[w].req)}
        BY <2>2, <2>3, <4>1 DEF UserFits
      <4>3. ScopesOf(l)' \subseteq ScopesOf(l)
        BY <2>3, <2>8, <2>9, <4>1, SameScopes DEF ContextInv
      <4> QED BY <4>2, <4>3
    <3> QED BY <1>3, <2>3, <2>4, <2>6, <2>7, <2>12, <2>13, <3>1, <3>2 DEF UserFits
  <2>15. KeeperFits(w)'
    <3>1. \A l : KeptFor(w, l) => KeptFor(w, l)'
      BY <1>1, <2>3, <2>12, <2>13 DEF KeptFor
    <3>2. Full(k) => Full(k)'
      BY <1>1 DEF Full
    <3>3. work'[w].kernel = k /\ stream_kernel_cache'[w[1]] = stream_kernel_cache[w[1]]
      BY <1>1, <2>12
    <3>4. /\ ~work[w].proto => /\ Msg(w).has_sess /\ Small(work[w].req)
                               /\ KeptFor(w, k)' \/ Full(k)'
          /\ Parked(w) => KeptFor(w, stream_kernel_cache[w[1]])
      BY <2>1, <2>2, <2>3, <3>1, <3>2 DEF KeeperFits
    <3>5. Parked(w) => KeptFor(w, stream_kernel_cache[w[1]])'
      <4>1. PICK l : l = stream_kernel_cache[w[1]]
        OBVIOUS
      <4> QED BY <3>1, <3>3, <3>4, <4>1 DEF KeptFor
    <3>6. KeptFor(w, k)' => KeptFor(w, work[w].kernel)'
      BY <3>3 DEF KeptFor
    <3>7. Full(k)' => Full(work[w].kernel)'
      BY <3>3 DEF Full
    <3> QED BY <2>12, <2>13, <3>4, <3>5, <3>6, <3>7 DEF KeeperFits
  <2>16. k # NoCache
    BY <2>1, <2>2, <2>3 DEF Reaches
  <2> QED BY <2>3, <2>8, <2>9, <2>10, <2>11, <2>14, <2>15, <2>16, QuietStep
<1>4. CASE ~(Goto(w, "done") /\ UNCHANGED ctxs) /\ Msg(w).unknown
  <2>1. PICK sh : sh = Dims(Msg(w).input[1])
    OBVIOUS
  <2>2. /\ Goto(w, "run")
        /\ ctxs' = [ctxs EXCEPT ![work[w].ctx] =
                         [@ EXCEPT !.io = work[w].req.n, !.space = Space(w), !.shape = sh]]
    BY <1>4, <2>1 DEF Tensor
  <2> QED BY <1>3, <2>1, <2>2
<1>5. CASE ~(Goto(w, "done") /\ UNCHANGED ctxs) /\ ~Msg(w).unknown
  <2>1. \E sh : /\ Goto(w, "run")
                /\ ctxs' = [ctxs EXCEPT ![work[w].ctx] =
                         [@ EXCEPT !.io = work[w].req.n, !.space = Space(w), !.shape = sh]]
    BY <1>5 DEF Tensor
  <2> QED BY <1>3, <1>5, <2>1
<1> QED BY <1>2, <1>4, <1>5

\* SetCache files under the key; another entry goes only when it is full.
LEMMA SetIs ==
    ASSUME NEW c, CacheSound(c), NEW key, NEW ctx, NEW d, d = SetCache(c, key, ctx)
    PROVE  /\ d.sess_flag = c.sess_flag /\ key \in DOMAIN d.iter /\ d.iter[key] = ctx
           /\ \A q \in DOMAIN d.iter : q # key => q \in DOMAIN c.iter /\ d.iter[q] = c.iter[q]
           /\ Len(c.lru) > Capacity => Len(d.lru) > Capacity
           /\ \A q \in DOMAIN c.iter : q # key => q \in DOMAIN d.iter \/ Len(d.lru) > Capacity
<1>1. /\ c.lru \in Seq(DOMAIN c.iter) /\ Range(c.lru) = DOMAIN c.iter
      /\ IsInjective(c.lru) /\ Len(c.lru) <= Capacity + 1 /\ Len(c.lru) \in Nat
      /\ c = [sess_flag |-> c.sess_flag, lru |-> c.lru, iter |-> c.iter]
  BY DEF CacheSound
<1>2. CASE key \in DOMAIN c.iter
  <2>1. PICK iter : iter = With(c.iter, key, ctx)
    OBVIOUS
  <2>2. PICK lru : lru = IF c.sess_flag THEN c.lru ELSE ToFront(c.lru, key)
    OBVIOUS
  <2>3. /\ DOMAIN iter = DOMAIN c.iter /\ iter[key] = ctx
        /\ \A q \in DOMAIN iter : q # key => iter[q] = c.iter[q]
    BY <1>2, <2>1 DEF With
  <2>4. Len(lru) = Len(c.lru)
    BY <1>1, <1>2, <2>2, ToFrontSame
  <2>5. d = [sess_flag |-> c.sess_flag, lru |-> lru, iter |-> iter]
    <3>1. d = [c EXCEPT !.iter = iter, !.lru = lru]
      BY <1>2, <2>1, <2>2 DEF SetCache
    <3> QED BY <1>1, <3>1
  <2> QED BY <1>2, <2>3, <2>4, <2>5
<1>3. CASE key \notin DOMAIN c.iter
  <2>1. PICK old : old = IF Capacity < Len(c.lru) THEN Front(c.lru) ELSE c.lru
    OBVIOUS
  <2>2. PICK rest : rest = IF Capacity < Len(c.lru) THEN Without(c.iter, Last(c.lru)) ELSE c.iter
    OBVIOUS
  <2>3. PICK iter : iter = With(rest, key, ctx)
    OBVIOUS
  <2>4. PICK lru : lru = <<key>> \o old
    OBVIOUS
  <2>5. d = [sess_flag |-> c.sess_flag, lru |-> lru, iter |-> iter]
    <3>1. d = [c EXCEPT !.lru = lru, !.iter = iter]
      BY <1>3, <2>1, <2>2, <2>3, <2>4 DEF SetCache
    <3> QED BY <1>1, <3>1
  <2>6. \A q \in DOMAIN rest : q \in DOMAIN c.iter /\ rest[q] = c.iter[q]
    BY <2>2 DEF Without
  <2>7. /\ DOMAIN iter = DOMAIN rest \cup {key} /\ iter[key] = ctx
        /\ \A q \in DOMAIN rest : q # key => iter[q] = rest[q]
    BY <2>3 DEF With
  <2>8. Capacity < Len(c.lru) => Len(lru) > Capacity
    <3>1. ASSUME Capacity < Len(c.lru) PROVE Len(lru) > Capacity
      <4>1. c.lru # << >>
        BY <1>1, <3>1, CacheAssumption
      <4>2. old \in Seq(DOMAIN c.iter) /\ Len(old) = Len(c.lru) - 1
        BY <1>1, <2>1, <3>1, <4>1, Shortened
      <4>3. PICK T : T = DOMAIN c.iter \cup {key}
        OBVIOUS
      <4>4. old \in Seq(T) /\ key \in T
        BY <4>2, <4>3
      <4>5. Len(lru) = Len(old) + 1
        BY <2>4, <4>4, Prepended
      <4> QED BY <1>1, <3>1, <4>2, <4>5, CacheAssumption
    <3> QED BY <3>1
  <2>9. ~(Capacity < Len(c.lru)) => rest = c.iter
    BY <2>2
  <2>10. Len(c.lru) > Capacity <=> Capacity < Len(c.lru)
    BY <1>1, CacheAssumption
  <2> QED BY <2>5, <2>6, <2>7, <2>8, <2>9, <2>10
<1> QED BY <1>2, <1>3

\* What Build does.
Built(w, k, q, c) ==
    /\ Went(w, "tensor", k, c, TRUE)
    /\ DOMAIN ctxs' = DOMAIN ctxs \cup {c} /\ \A d \in DOMAIN ctxs : ctxs'[d] = ctxs[d]
    /\ ctxs'[c].node = work[w].req.node /\ ctxs'[c].blk = Blk(w)
    /\ DOMAIN caches' = DOMAIN caches /\ \A l \in DOMAIN caches : l # k => caches'[l] = caches[l]
    /\ caches'[k].sess_flag = caches[k].sess_flag
    /\ Len(caches[k].lru) > Capacity => Len(caches'[k].lru) > Capacity
    /\ \A p \in DOMAIN caches[k].iter : p # q =>
          p \in DOMAIN caches'[k].iter \/ Len(caches'[k].lru) > Capacity
    /\ \A p \in DOMAIN caches'[k].iter :
          \/ p \in DOMAIN caches[k].iter /\ caches'[k].iter[p] = caches[k].iter[p]
          \/ p = q /\ caches'[k].iter[p] = c /\ Msg(w).has_sess
    /\ Msg(w).has_sess => q \in DOMAIN caches'[k].iter /\ caches'[k].iter[q] = c
    /\ ~Msg(w).has_sess => caches' = caches
    /\ UNCHANGED <<session_kernel_cache, stream_kernel_cache>>

\* Build, in the terms of Built.
LEMMA BuildIs ==
    ASSUME HostInv, BlockInv, CacheInv, LaunchInv, ContextInv, UNCHANGED hostVars, NEW w \in Worker,
           Build(w), NEW k, k = work[w].kernel, NEW q, q = Msg(w).kid, NEW c, c = Name(w)
    PROVE  /\ Built(w, k, q, c) /\ work[w] # Idle /\ work[w].pc = "build"
           /\ k \in DOMAIN caches /\ c \notin DOMAIN ctxs
<1>1. /\ At(w, "build")
      /\ UNCHANGED <<queue, session_kernel_cache, stream_kernel_cache, left>>
  BY DEF Build, hostVars
<1>2. work[w] # Idle /\ work[w].pc = "build"
  BY <1>1, WorkerFields
<1>3. k \in DOMAIN caches
  BY <1>2 DEF ContextInv, ReachFits, Reaches
<1>4. c \notin DOMAIN ctxs
  BY <1>2, NameNew DEF ContextInv
<1>5. Went(w, "tensor", k, c, TRUE)
  <2>1. PICK yes : yes = TRUE
    OBVIOUS
  <2>2. work' = [work EXCEPT ![w].ctx = c, ![w].proto = yes, ![w].pc = "tensor"]
    BY <2>1 DEF Build
  <2>3. Went(w, "tensor", k, c, yes)
    BY <1>1, <2>2, Shifts
  <2> QED BY <2>1, <2>3
<1>6. PICK new : new = [node |-> work[w].req.node, blk |-> Blk(w), io |-> 0, shape |-> << >>,
                        space |-> <<0, 0>>]
  OBVIOUS
<1>7. ctxs' = With(ctxs, c, new) /\ new.node = work[w].req.node /\ new.blk = Blk(w)
  BY <1>6 DEF Build
<1>8. /\ DOMAIN ctxs' = DOMAIN ctxs \cup {c} /\ \A d \in DOMAIN ctxs : ctxs'[d] = ctxs[d]
      /\ ctxs'[c].node = work[w].req.node /\ ctxs'[c].blk = Blk(w)
  BY <1>4, <1>7 DEF With
<1>9. CASE Msg(w).has_sess
  <2>1. PICK d : d = SetCache(caches[k], q, c)
    OBVIOUS
  <2>2. CacheSound(caches[k])
    BY <1>3 DEF CacheInv
  <2>3. /\ d.sess_flag = caches[k].sess_flag /\ q \in DOMAIN d.iter /\ d.iter[q] = c
        /\ \A p \in DOMAIN d.iter : p # q => p \in DOMAIN caches[k].iter /\ d.iter[p] = caches[k].iter[p]
        /\ Len(caches[k].lru) > Capacity => Len(d.lru) > Capacity
        /\ \A p \in DOMAIN caches[k].iter : p # q => p \in DOMAIN d.iter \/ Len(d.lru) > Capacity
    BY <2>1, <2>2, SetIs
  <2>4. caches' = [caches EXCEPT ![k] = d]
    BY <1>3, <1>9, <2>1 DEF Build, Filed
  <2>5. /\ DOMAIN caches' = DOMAIN caches /\ caches'[k] = d
        /\ \A l \in DOMAIN caches : l # k => caches'[l] = caches[l]
    BY <1>3, <2>4
  <2> QED BY <1>1, <1>2, <1>3, <1>4, <1>5, <1>8, <1>9, <2>3, <2>5 DEF Built
<1>10. CASE ~Msg(w).has_sess
  <2>1. caches' = caches
    BY <1>10 DEF Build, Filed
  <2> QED BY <1>1, <1>2, <1>3, <1>4, <1>5, <1>8, <1>10, <2>1 DEF Built
<1> QED BY <1>9, <1>10

\* A context that was built is the only one that was filed.
LEMMA BuiltFiles ==
    ASSUME NEW w \in Worker, NEW k \in DOMAIN caches, NEW q, NEW c, Built(w, k, q, c)
    PROVE  \A l, p, d : Files(l, p, d)' =>
               Files(l, p, d) \/ (l = k /\ p = q /\ d = c /\ Msg(w).has_sess)
<1>1. ASSUME NEW l, NEW p, NEW d, Files(l, p, d)'
      PROVE  Files(l, p, d) \/ (l = k /\ p = q /\ d = c /\ Msg(w).has_sess)
  <2>1. l \in DOMAIN caches /\ p \in DOMAIN caches'[l].iter /\ caches'[l].iter[p] = d
    BY <1>1 DEF Files, Built
  <2>2. CASE l # k
    BY <2>1, <2>2 DEF Files, Built
  <2>3. CASE l = k
    BY <2>1, <2>3 DEF Files, Built
  <2> QED BY <2>2, <2>3
<1> QED BY <1>1

\* Building opens no cache.
LEMMA BuiltScopes ==
    ASSUME NEW w \in Worker, NEW k, k = work[w].kernel, NEW q, NEW c, Built(w, k, q, c), NEW l
    PROVE  ScopesOf(l)' \subseteq ScopesOf(l)
<1>1. Went(w, "tensor", k, c, TRUE) /\ UNCHANGED <<session_kernel_cache, stream_kernel_cache>>
  BY DEF Built
<1>2. PICK S : S = ScopesOf(l)
  OBVIOUS
<1>3. /\ \A i \in Session : session_kernel_cache'[i] = l => <<"session", i>> \in S
      /\ \A s \in Stream : stream_kernel_cache'[s] = l => <<"stream", s>> \in S
  BY <1>1, <1>2, ScopeIn
<1>4. PICK yes : yes = TRUE
  OBVIOUS
<1>5. Went(w, "tensor", k, c, yes)
  BY <1>1, <1>4
<1> QED BY <1>2, <1>3, <1>5, ScopesKept

\* The claim of the context it files is the claim of the launch.
LEMMA BuiltClaim ==
    ASSUME BlockInv, LaunchInv, ContextInv, NEW w \in Worker, work[w] # Idle,
           NEW k \in DOMAIN caches, k = work[w].kernel, NEW q, q = Msg(w).kid,
           NEW c, Built(w, k, q, c), Msg(w).has_sess
    PROVE  \A o \in ScopesOf(k) : ContextClaim(o, q, ctxs'[c]) \in Claims
<1>1. PICK r : r = work[w].req
  OBVIOUS
<1>2. Sessioned(r.ext) /\ ScopeOf(w, r) = Scope(w[1], r.ext)
  BY <1>1, ScopeFacts
<1>3. LaunchClaim(w[1], r) \in Claims
  BY <1>1, <1>2, AtWork, ClaimIn DEF Claims
<1>4. ASSUME NEW o \in ScopesOf(k) PROVE ContextClaim(o, q, ctxs'[c]) = LaunchClaim(w[1], r)
  <2>1. o = Scope(w[1], r.ext)
    BY <1>1, <1>2, OwnScope
  <2>2. ctxs'[c].node = r.node /\ ctxs'[c].blk = Blk(w)
    BY <1>1 DEF Built
  <2>3. Key(w[1], r.ext) = <<o, q>>
    BY <1>1, <2>1 DEF Key, Msg
  <2>4. (ctxs'[c].blk = <<0, 1>>) = Small(r)
    <3>1. CASE Small(r)
      <4>1. Blk(w) = <<0, 1>>
        BY <1>1, <3>1 DEF Blk, Small
      <4>2. Small(r) = TRUE
        BY <3>1 DEF Small
      <4> QED BY <2>2, <4>1, <4>2
    <3>2. CASE ~Small(r)
      <4>1. Blk(w) = <<w[2], r.blocks>> /\ r.blocks # 1
        BY <1>1, <3>2 DEF Blk, Small
      <4>2. Blk(w) # <<0, 1>>
        BY <4>1
      <4>3. Small(r) = FALSE
        BY <3>2 DEF Small
      <4> QED BY <2>2, <4>2, <4>3
    <3> QED BY <3>1, <3>2
  <2> QED BY <2>2, <2>3, <2>4, Zenon DEF ContextClaim, LaunchClaim
<1> QED BY <1>3, <1>4

\* The others keep what holds their contexts.
LEMMA BuiltKeeps ==
    ASSUME HostInv, BlockInv, LaunchInv, ContextInv, NEW w \in Worker, work[w] # Idle,
           NEW k \in DOMAIN caches, k = work[w].kernel, NEW q, q = Msg(w).kid,
           NEW c, Built(w, k, q, c), NEW v \in Worker, v # w, Has(v)
    PROVE  /\ Msg(v).has_sess /\ Small(work[v].req) /\ work[v].pc # "async"
              /\ (KeptFor(v, work[v].kernel) \/ Full(work[v].kernel))
              => KeptFor(v, work[v].kernel)' \/ Full(work[v].kernel)'
           /\ Parked(v) /\ KeptFor(v, stream_kernel_cache[v[1]])
              => KeptFor(v, stream_kernel_cache[v[1]])'
<1>1. work'[v] = work[v] /\ stream_kernel_cache' = stream_kernel_cache
  BY DEF Built, Went
<1>2. Msg(v)' = Msg(v) /\ work[v] # Idle /\ v[1] \in Stream
  BY <1>1, WorkerParts DEF Msg, Has, Idle
<1>3. ASSUME NEW l, l # k \/ ~Msg(w).has_sess, KeptFor(v, l) PROVE KeptFor(v, l)'
  BY <1>1, <1>2, <1>3 DEF KeptFor, Built
<1>4. ASSUME Msg(v).has_sess, Small(work[v].req), work[v].pc # "async",
             KeptFor(v, work[v].kernel) \/ Full(work[v].kernel)
      PROVE  KeptFor(v, work[v].kernel)' \/ Full(work[v].kernel)'
  <2>1. PICK l : l = work[v].kernel
    OBVIOUS
  <2>2. l \in DOMAIN caches /\ work'[v].kernel = l
    <3>1. work[v].pc \in {"tensor", "run"}
      BY <1>4 DEF Has
    <3> QED BY <1>1, <1>2, <2>1, <3>1 DEF ContextInv, ReachFits, Reaches
  <2>3. KeptFor(v, l)' \/ Full(l)'
    <3>1. CASE KeptFor(v, l) /\ (l # k \/ ~Msg(w).has_sess)
      BY <1>3, <3>1
    <3>2. CASE Full(l)
      BY <2>2, <3>2 DEF Full, Built
    <3>3. CASE l = k /\ KeptFor(v, k) /\ Msg(w).has_sess
      <4>1. /\ ScopeOf(v, work[v].req) = ScopeOf(w, work[w].req)
            /\ ScopeOf(v, work[v].req) \in ScopesOf(k)
        BY <1>2, <2>1, <3>3, OwnScope
      <4>2. Sessioned(work[v].req.ext)
        BY <1>2, <1>4, ScopeFacts
      <4>3. caches[k].sess_flag
        <5>1. CASE SessionRecord(work[v].req.ext).flag
          <6>1. PICK i \in Session : ScopeOf(v, work[v].req) = <<"session", i>>
            BY <1>2, <4>2, <5>1, ScopeFacts
          <6> QED BY <4>1, <6>1 DEF ContextInv, ReachFits, ScopesFit
        <5>2. CASE ~SessionRecord(work[v].req.ext).flag
          <6>1. ScopeOf(w, work[w].req) = <<"stream", v[1]>>
            BY <1>2, <4>1, <4>2, <5>2, ScopeFacts
          <6>2. w[1] = v[1]
            BY <6>1 DEF ScopeOf, Scope
          <6>3. v = w
            BY <1>2, <1>4, <6>2, OneBlock
          <6> QED BY <6>3
        <5> QED BY <5>1, <5>2
      <4>4. Msg(v).kid # q
        <5>1. ASSUME Msg(v).kid = q PROVE v = w
          BY <1>2, <1>4, <3>3, <4>1, <5>1, OneUser
        <5> QED BY <5>1
      <4>5. PICK p : p = Msg(v).kid
        OBVIOUS
      <4>6. p \in DOMAIN caches[k].iter /\ caches[k].iter[p] = work[v].ctx /\ p # q
        BY <3>3, <4>4, <4>5 DEF KeptFor
      <4>7. p \in DOMAIN caches'[k].iter => caches'[k].iter[p] = work[v].ctx
        BY <4>6 DEF Built
      <4>8. p \in DOMAIN caches'[k].iter \/ Len(caches'[k].lru) > Capacity
        BY <4>6 DEF Built
      <4>9. k \in DOMAIN caches' /\ caches'[k].sess_flag
        BY <4>3 DEF Built
      <4> QED BY <1>1, <1>2, <3>3, <4>5, <4>7, <4>8, <4>9 DEF KeptFor, Full
    <3> QED BY <1>4, <2>1, <3>1, <3>2, <3>3
  <2> QED BY <2>1, <2>2, <2>3 DEF KeptFor, Full
<1>5. ASSUME Parked(v), KeptFor(v, stream_kernel_cache[v[1]])
      PROVE  KeptFor(v, stream_kernel_cache[v[1]])'
  <2>1. PICK l : l = stream_kernel_cache[v[1]]
    OBVIOUS
  <2>2. l # k
    <3>1. ASSUME l = k PROVE v = w
      <4>1. <<"stream", v[1]>> \in ScopesOf(k)
        BY <1>2, <2>1, <3>1, ScopeIn
      <4>2. ScopeOf(w, work[w].req) = <<"stream", v[1]>>
        BY <4>1, OwnScope
      <4>3. w[1] = v[1]
        BY <4>2 DEF ScopeOf, Scope
      <4>4. Small(work[v].req)
        BY <1>2, <1>5, ScopeFacts
      <4> QED BY <1>2, <4>3, <4>4, OneBlock
    <3> QED BY <3>1
  <2>3. KeptFor(v, l)' /\ stream_kernel_cache'[v[1]] = l
    BY <1>1, <1>3, <1>5, <2>1, <2>2
  <2> QED BY <2>3 DEF KeptFor
<1> QED BY <1>4, <1>5

\* The second half of GetCpuKernelContext: a context is built and filed.
LEMMA BuildContext ==
    ASSUME HostInv, BlockInv, CacheInv, LaunchInv, ContextInv, UNCHANGED hostVars, NEW w \in Worker,
           Build(w)
    PROVE  LaunchInv' /\ ContextInv'
<1>1. PICK k, q, c : k = work[w].kernel /\ q = Msg(w).kid /\ c = Name(w)
  OBVIOUS
<1>2. /\ Built(w, k, q, c) /\ work[w] # Idle /\ work[w].pc = "build"
      /\ k \in DOMAIN caches /\ c \notin DOMAIN ctxs
  BY <1>1, BuildIs
<1>3. PICK pc, yes : pc = "tensor" /\ yes = TRUE
  OBVIOUS
<1>4. Went(w, pc, k, c, yes)
  BY <1>2, <1>3, Zenon DEF Built
<1>5. Born /\ ReachFits /\ FiledFits /\ UsersFit /\ KeepersFit
  BY DEF ContextInv
<1>6. \A l, p, d : Files(l, p, d)' =>
          Files(l, p, d) \/ (l = k /\ p = q /\ d = c /\ Msg(w).has_sess)
  BY <1>2, BuiltFiles
<1>7. \A l : ScopesOf(l)' \subseteq ScopesOf(l)
  BY <1>1, <1>2, BuiltScopes
<1>8. \A l, p, d : Files(l, p, d) => d \in DOMAIN ctxs /\ d # c
  BY <1>2, <1>5, FiledIs
<1>9. LaunchInv'
  <2>1. ASSUME NEW l, NEW p, NEW d, Files(l, p, d)'
        PROVE  \/ /\ Files(l, p, d) /\ ScopesOf(l)' \subseteq ScopesOf(l)
                  /\ ctxs'[d].node = ctxs[d].node /\ ctxs'[d].blk = ctxs[d].blk
               \/ \A o \in ScopesOf(l)' : ContextClaim(o, p, ctxs'[d]) \in Claims
    <3>1. CASE Files(l, p, d)
      BY <1>2, <1>7, <1>8, <3>1 DEF Built
    <3>2. CASE l = k /\ p = q /\ d = c /\ Msg(w).has_sess
      <4>1. \A o \in ScopesOf(k) : ContextClaim(o, q, ctxs'[c]) \in Claims
        BY <1>1, <1>2, <3>2, BuiltClaim
      <4> QED BY <1>7, <3>2, <4>1
    <3> QED BY <1>6, <2>1, <3>1, <3>2
  <2>2. \A a \in CacheClaims' : a \in Claims
    BY <2>1, ClaimsFiled
  <2>3. queue' = queue
    BY <1>4 DEF Went
  <2> QED BY <2>2, <2>3, DeviceLaunch
<1>10. Born'
  <2>1. /\ pc \in CacheStages /\ pc \in ContextStages
    BY <1>3 DEF CacheStages, ContextStages
  <2>2. DOMAIN caches' = DOMAIN caches /\ DOMAIN ctxs' = DOMAIN ctxs \cup {c}
    BY <1>2 DEF Built
  <2> QED BY <1>1, <1>4, <1>5, <2>1, <2>2, BornKept
<1>11. /\ DOMAIN caches' = DOMAIN caches /\ UNCHANGED <<session_kernel_cache, stream_kernel_cache>>
       /\ \A l \in DOMAIN caches : caches'[l].sess_flag = caches[l].sess_flag
  BY <1>2 DEF Built
<1>12. /\ work'[w].pc = "tensor" /\ work'[w].req = work[w].req /\ work'[w].kernel = k
       /\ work'[w].ctx = c /\ work'[w].proto = TRUE
       /\ \A v \in Worker : v # w => work'[v] = work[v]
  BY <1>3, <1>4 DEF Went
<1>13. Reaches(w)
  BY <1>2, <1>5 DEF ReachFits
<1>14. ReachFits'
  <2>1. MapsReach'
    BY <1>5, <1>11 DEF ReachFits, MapsReach
  <2>2. ScopesFit'
    BY <1>5, <1>7, <1>11, ScopesStay DEF ReachFits
  <2>3. Reaches(w)'
    BY <1>1, <1>2, <1>11, <1>12, <1>13 DEF Reaches
  <2> QED BY <1>4, <1>5, <1>11, <2>1, <2>2, <2>3, ReachKept
<1>15. FiledFits'
  <2>1. \A l, p, d : Files(l, p, d)' => d \in DOMAIN ctxs'
    BY <1>2, <1>6, <1>8 DEF Built
  <2>2. \A l, m, p, o, d : Files(l, p, d)' /\ Files(m, o, d)' => l = m /\ p = o
    BY <1>5, <1>6, <1>8, FiledIs
  <2> QED BY <2>1, <2>2, FiledIs
<1>16. Msg(w)' = Msg(w) /\ Blk(w)' = Blk(w) /\ (Parked(w)' <=> Parked(w))
  BY <1>12, ParkedSame DEF Msg, Blk
<1>17. \A v \in Worker : Has(v) => work[v].ctx \in DOMAIN ctxs
  BY <1>5 DEF UsersFit, UserFits
<1>18. UserFits(w)'
  <2>1. \A v \in Worker : Has(v)' /\ v # w => work'[v].ctx # c
    BY <1>2, <1>12, <1>17 DEF Has
  <2>2. ASSUME NEW l \in DOMAIN caches', NEW p \in DOMAIN caches'[l].iter, caches'[l].iter[p] = c
        PROVE  Msg(w).has_sess /\ p = q /\ ScopesOf(l)' \subseteq {ScopeOf(w, work[w].req)}
    <3>1. Files(l, p, c)'
      BY <2>2 DEF Files
    <3>2. l = k /\ p = q /\ Msg(w).has_sess
      BY <1>6, <1>8, <3>1
    <3>3. ScopesOf(k) \subseteq {ScopeOf(w, work[w].req)}
      BY <1>1, <1>2, OwnScope
    <3> QED BY <1>7, <3>2, <3>3
  <2>3. c \in DOMAIN ctxs' /\ ctxs'[c].node = work[w].req.node /\ ctxs'[c].blk = Blk(w)
    BY <1>2 DEF Built
  <2> QED BY <1>1, <1>12, <1>16, <2>1, <2>2, <2>3 DEF UserFits
<1>19. UsersFit'
  <2>1. \A v \in Worker : v # w /\ Has(v) =>
            work[v].ctx \in DOMAIN ctxs' /\ ctxs'[work[v].ctx] = ctxs[work[v].ctx]
    BY <1>2, <1>17 DEF Built
  <2>2. \A l, p, d : Files(l, p, d)' /\ d \in DOMAIN ctxs => Files(l, p, d)
    BY <1>2, <1>6
  <2> QED BY <1>4, <1>5, <1>7, <1>18, <2>1, <2>2, UsersKept
<1>20. KeeperFits(w)'
  <2>1. ASSUME Parked(w) PROVE KeptFor(w, stream_kernel_cache[w[1]])'
    <3>1. Msg(w).has_sess /\ k = stream_kernel_cache[w[1]]
      <4>1. k # NoCache
        BY <1>2, <1>5, NoCacheNone
      <4> QED BY <1>1, <1>2, <1>13, <2>1, <4>1, ScopeFacts DEF Reaches
    <3>2. k \in DOMAIN caches' /\ q \in DOMAIN caches'[k].iter /\ caches'[k].iter[q] = c
      BY <1>2, <3>1 DEF Built
    <3>3. stream_kernel_cache'[w[1]] = k
      BY <1>11, <3>1
    <3> QED BY <1>1, <1>12, <1>16, <3>2, <3>3 DEF KeptFor
  <2> QED BY <1>12, <1>16, <2>1 DEF KeeperFits
<1>21. KeepersFit'
  <2>1. \A v \in Worker : v # w /\ Has(v) =>
          /\ Msg(v).has_sess /\ Small(work[v].req) /\ work[v].pc # "async"
              /\ (KeptFor(v, work[v].kernel) \/ Full(work[v].kernel))
              => KeptFor(v, work[v].kernel)' \/ Full(work[v].kernel)'
          /\ Parked(v) /\ KeptFor(v, stream_kernel_cache[v[1]])
              => KeptFor(v, stream_kernel_cache[v[1]])'
    BY <1>1, <1>2, BuiltKeeps
  <2> QED BY <1>4, <1>5, <1>20, <2>1, KeepersKept
<1> QED BY <1>9, <1>10, <1>14, <1>15, <1>19, <1>21 DEF ContextInv

-----------------------------------------------------------------------------
(* The start of a launch: the cache it uses                                *)

\* A worker has got kernel cache n, an old one of its scope or a new one.
Opens(w, n) ==
    /\ n # NoCache /\ UNCHANGED ctxs
    /\ DOMAIN caches' = DOMAIN caches \cup {n}
    /\ \A k \in DOMAIN caches : caches'[k] = caches[k]
    /\ n \in DOMAIN caches => ScopeOf(w, work[w].req) \in ScopesOf(n)
    /\ n \notin DOMAIN caches =>
         /\ n = Name(w) /\ DOMAIN caches'[n].iter = {}
         /\ \A i \in Session : ScopeOf(w, work[w].req) = <<"session", i>> => caches'[n].sess_flag
    /\ \A i \in Session : \/ session_kernel_cache'[i] \in {session_kernel_cache[i], NoCache}
                          \/ /\ session_kernel_cache'[i] = n
                             /\ ScopeOf(w, work[w].req) = <<"session", i>>
    /\ DOMAIN stream_kernel_cache' = Stream
    /\ \A s \in Stream : \/ stream_kernel_cache'[s] = stream_kernel_cache[s]
                         \/ /\ stream_kernel_cache[s] = NoCache /\ stream_kernel_cache'[s] = n
                            /\ ScopeOf(w, work[w].req) = <<"stream", s>>
    /\ ScopeOf(w, work[w].req) = <<"stream", w[1]>> => stream_kernel_cache'[w[1]] = n

\* Opening a cache brings no second scope to it.
LEMMA OpensScopes ==
    ASSUME HostInv, BlockInv, LaunchInv, ContextInv, NEW w \in Worker,
           NEW n, NEW ctx, NEW proto, NEW pc, Went(w, pc, n, ctx, proto), Opens(w, n)
    PROVE  /\ \A k \in DOMAIN caches : ScopesOf(k)' \subseteq ScopesOf(k)
           /\ n \notin DOMAIN caches => ScopesOf(n)' \subseteq {ScopeOf(w, work[w].req)}
<1>1. NoCache \notin DOMAIN caches /\ n # NoCache /\ MapsReach
  BY NoCacheNone DEF ContextInv, ReachFits, Opens
<1>2. ASSUME NEW k \in DOMAIN caches PROVE ScopesOf(k)' \subseteq ScopesOf(k)
  <2>1. PICK S : S = ScopesOf(k)
    OBVIOUS
  <2>2. \A i \in Session : session_kernel_cache'[i] = k => <<"session", i>> \in S
    BY <1>1, <1>2, <2>1, ScopeIn DEF Opens
  <2>3. \A s \in Stream : stream_kernel_cache'[s] = k => <<"stream", s>> \in S
    BY <1>1, <1>2, <2>1, ScopeIn DEF Opens
  <2>4. n # k \/ ScopeOf(w, work[w].req) \in S
    BY <1>2, <2>1 DEF Opens
  <2>5. \A o : o \in ScopesOf(k) => o \in S
    BY <2>1
  <2>6. ScopesOf(k)' \subseteq S
    BY <2>2, <2>3, <2>4, <2>5, ScopesKept
  <2> QED BY <2>1, <2>6
<1>3. ASSUME n \notin DOMAIN caches PROVE ScopesOf(n)' \subseteq {ScopeOf(w, work[w].req)}
  <2>1. PICK S : S = {ScopeOf(w, work[w].req)}
    OBVIOUS
  <2>2. \A i \in Session : session_kernel_cache[i] # n
    BY <1>1, <1>3 DEF MapsReach
  <2>3. \A s \in Stream : stream_kernel_cache[s] # n
    BY <1>1, <1>3 DEF MapsReach
  <2>4. \A v \in Worker : work[v] # Idle => work[v].kernel # n
    BY <1>1, <1>3 DEF ContextInv, ReachFits, Reaches
  <2>5. \A o : o \in ScopesOf(n) => o \in S
    BY <2>2, <2>3, <2>4, ScopeIn
  <2>6. \A i \in Session : session_kernel_cache'[i] = n => <<"session", i>> \in S
    BY <1>1, <2>1, <2>2 DEF Opens
  <2>7. \A s \in Stream : stream_kernel_cache'[s] = n => <<"stream", s>> \in S
    BY <1>1, <2>1, <2>3 DEF Opens
  <2>8. ScopesOf(n)' \subseteq S
    BY <2>1, <2>5, <2>6, <2>7, ScopesKept
  <2> QED BY <2>1, <2>8
<1> QED BY <1>2, <1>3

\* A worker opens its cache.
LEMMA OpensContext ==
    ASSUME HostInv, BlockInv, LaunchInv, ContextInv, UNCHANGED hostVars, NEW w \in Worker,
           At(w, "open"), NEW n, NEW ctx, NEW proto, NEW pc, pc = "lookup",
           Went(w, pc, n, ctx, proto), Opens(w, n)
    PROVE  LaunchInv' /\ ContextInv'
<1>1. Born /\ ReachFits /\ FiledFits /\ UsersFit /\ KeepersFit
  BY DEF ContextInv
<1>2. /\ \A k \in DOMAIN caches : ScopesOf(k)' \subseteq ScopesOf(k)
      /\ n \notin DOMAIN caches => ScopesOf(n)' \subseteq {ScopeOf(w, work[w].req)}
  BY OpensScopes
<1>3. \A k, q, c : Files(k, q, c)' <=> Files(k, q, c)
  <2>1. ASSUME NEW k, NEW q, NEW c, Files(k, q, c)' PROVE Files(k, q, c)
    <3>1. k \in DOMAIN caches' /\ q \in DOMAIN caches'[k].iter /\ caches'[k].iter[q] = c
      BY <2>1 DEF Files
    <3>2. k \in DOMAIN caches
      BY <3>1 DEF Opens
    <3> QED BY <3>1, <3>2 DEF Opens, Files
  <2>2. ASSUME NEW k, NEW q, NEW c, Files(k, q, c) PROVE Files(k, q, c)'
    <3>1. k \in DOMAIN caches /\ q \in DOMAIN caches[k].iter /\ caches[k].iter[q] = c
      BY <2>2 DEF Files
    <3>2. k \in DOMAIN caches' /\ caches'[k] = caches[k]
      BY <3>1 DEF Opens
    <3> QED BY <3>1, <3>2 DEF Files
  <2> QED BY <2>1, <2>2
<1>4. ctxs' = ctxs /\ DOMAIN ctxs' = DOMAIN ctxs /\ n \in DOMAIN caches' /\ n # NoCache
  BY DEF Opens
<1>5. LaunchInv'
  <2>1. \A k, q, c : Files(k, q, c)' =>
            /\ Files(k, q, c) /\ ScopesOf(k)' \subseteq ScopesOf(k)
            /\ ctxs'[c].node = ctxs[c].node /\ ctxs'[c].blk = ctxs[c].blk
    <3>1. \A k, q, c : Files(k, q, c) => k \in DOMAIN caches
      BY DEF Files
    <3> QED BY <1>2, <1>3, <1>4, <3>1
  <2>2. \A a \in CacheClaims' : a \in Claims
    BY <2>1, ClaimsFiled
  <2>3. queue' = queue
    BY DEF Went
  <2> QED BY <2>2, <2>3, DeviceLaunch
<1>6. Born'
  <2>1. /\ work[w].pc \notin CacheStages /\ work[w].pc \notin ContextStages /\ pc \in CacheStages
    BY DEF At, CacheStages, ContextStages
  <2>2. \A k \in DOMAIN caches' : k \in DOMAIN caches \/ (k = Name(w) /\ pc \in CacheStages)
    BY <2>1 DEF Opens
  <2> QED BY <1>1, <1>4, <2>1, <2>2, BornKept
<1>7. ReachFits'
  <2>1. MapsReach'
    BY <1>1, <1>4 DEF ReachFits, MapsReach, Opens
  <2>2. ScopesFit'
    <3>1. \A k \in DOMAIN caches' :
            \/ /\ k \in DOMAIN caches /\ ScopesOf(k)' \subseteq ScopesOf(k)
               /\ caches'[k].sess_flag = caches[k].sess_flag
            \/ \E o : /\ ScopesOf(k)' \subseteq {o}
                      /\ \A i \in Session : o = <<"session", i>> => caches'[k].sess_flag
      BY <1>2 DEF Opens
    <3> QED BY <1>1, <3>1, ScopesStay DEF ReachFits
  <2>3. Reaches(w)'
    <3>1. /\ work'[w].pc = pc /\ work'[w].req = work[w].req /\ work'[w].kernel = n
      BY DEF Went
    <3>2. ScopeOf(w, work[w].req) = <<"stream", w[1]>> => stream_kernel_cache'[w[1]] = n
      BY DEF Opens
    <3> QED BY <1>4, <3>1, <3>2 DEF Reaches
  <2>4. \A s \in Stream : stream_kernel_cache[s] # NoCache =>
               stream_kernel_cache'[s] = stream_kernel_cache[s]
    BY DEF Opens
  <2>5. DOMAIN caches \subseteq DOMAIN caches'
    BY DEF Opens
  <2> QED BY <1>1, <2>1, <2>2, <2>3, <2>4, <2>5, ReachKept
<1>8. FiledFits'
  BY <1>1, <1>3, <1>4, FiledIs
<1>9. UsersFit'
  <2>1. \A v \in Worker : v # w /\ Has(v) =>
            work[v].ctx \in DOMAIN ctxs' /\ ctxs'[work[v].ctx] = ctxs[work[v].ctx]
    BY <1>1, <1>4 DEF UsersFit, UserFits
  <2> QED BY <1>1, <1>2, <1>3, <2>1, UsersKept
<1>10. KeepersFit'
  <2>1. ASSUME NEW v \in Worker, v # w, NEW k, KeptFor(v, k) PROVE KeptFor(v, k)'
    <3>1. work'[v] = work[v] /\ Msg(v)' = Msg(v)
      BY <2>1 DEF Went, Msg
    <3>2. k \in DOMAIN caches /\ k \in DOMAIN caches' /\ caches'[k] = caches[k]
      BY <2>1 DEF KeptFor, Opens
    <3> QED BY <2>1, <3>1, <3>2 DEF KeptFor
  <2>2. ASSUME NEW v \in Worker, v # w, Has(v), work[v].pc # "async",
               KeptFor(v, work[v].kernel) \/ Full(work[v].kernel)
        PROVE  KeptFor(v, work[v].kernel)' \/ Full(work[v].kernel)'
    <3>1. PICK k : k = work[v].kernel
      OBVIOUS
    <3>2. k \in DOMAIN caches
      <4>1. work[v] # Idle /\ work[v].pc \in {"tensor", "run"}
        BY <2>2 DEF Has, Idle
      <4> QED BY <1>1, <2>2, <3>1, <4>1 DEF ReachFits, Reaches
    <3>3. work'[v].kernel = k /\ caches'[k] = caches[k]
      BY <2>2, <3>1, <3>2 DEF Went, Opens
    <3>4. CASE KeptFor(v, k)
      <4>1. KeptFor(v, k)'
        BY <2>1, <2>2, <3>4
      <4> QED BY <3>1, <3>3, <4>1 DEF KeptFor
    <3>5. CASE Full(k)
      BY <3>1, <3>3, <3>5 DEF Full
    <3> QED BY <2>2, <3>1, <3>4, <3>5
  <2>3. ASSUME NEW v \in Worker, v # w, KeptFor(v, stream_kernel_cache[v[1]])
        PROVE  KeptFor(v, stream_kernel_cache[v[1]])'
    <3>1. PICK k : k = stream_kernel_cache[v[1]]
      OBVIOUS
    <3>2. k # NoCache /\ v[1] \in Stream
      BY <1>1, <2>3, <3>1, NoCacheNone, WorkerParts DEF KeptFor
    <3>3. KeptFor(v, k)' /\ stream_kernel_cache'[v[1]] = k
      BY <2>1, <2>3, <3>1, <3>2 DEF Opens
    <3> QED BY <3>3 DEF KeptFor
  <2> QED BY <1>1, <2>2, <2>3, KeepersKept
<1> QED BY <1>5, <1>6, <1>7, <1>8, <1>9, <1>10 DEF ContextInv

\* A worker that opens its cache is busy and has none yet; its name is new.
LEMMA Opening ==
    ASSUME HostInv, BlockInv, LaunchInv, ContextInv, NEW w \in Worker, At(w, "open")
    PROVE  /\ work[w] # Idle /\ w[1] \in Stream /\ Name(w) # NoCache /\ Name(w) \notin DOMAIN caches
           /\ MapsReach /\ NoCache \notin DOMAIN caches
<1>1. work[w] # Idle /\ Born /\ MapsReach
  BY DEF At, Idle, ContextInv, ReachFits
<1>2. work[w].pc = "open" /\ NoCache \notin DOMAIN caches
  BY <1>1, NoCacheNone DEF At
<1> QED BY <1>1, <1>2, NameNew, WorkerParts

\* The caches with a new one.
LEMMA CacheMade ==
    ASSUME NEW n, n \notin DOMAIN caches, NEW flag, caches' = With(caches, n, NewCache(flag))
    PROVE  /\ DOMAIN caches' = DOMAIN caches \cup {n}
           /\ \A k \in DOMAIN caches : caches'[k] = caches[k]
           /\ DOMAIN caches'[n].iter = {} /\ caches'[n].sess_flag = flag
<1>1. DOMAIN caches' = DOMAIN caches \cup {n} /\ caches'[n] = NewCache(flag)
  BY DEF With
<1>2. \A k \in DOMAIN caches : caches'[k] = caches[k]
  BY DEF With
<1>3. NewCache(flag).iter = << >> /\ NewCache(flag).sess_flag = flag /\ DOMAIN << >> = {}
  BY DEF NewCache
<1> QED BY <1>1, <1>2, <1>3

\* RunCpuKernel without a session record.
LEMMA OpenDirectContext ==
    ASSUME HostInv, BlockInv, LaunchInv, ContextInv, UNCHANGED hostVars, NEW w \in Worker,
           OpenDirect(w)
    PROVE  LaunchInv' /\ ContextInv'
<1>1. PICK n, flag : n = Name(w) /\ flag = FALSE
  OBVIOUS
<1>2. /\ At(w, "open") /\ ~Sessioned(work[w].req.ext) /\ Opened(w, n)
      /\ UNCHANGED <<queue, left, session_kernel_cache, stream_kernel_cache, ctxs>>
  BY <1>1 DEF OpenDirect, Sessioned, hostVars
<1>3. caches' = With(caches, n, NewCache(flag))
  BY <1>1, Zenon DEF OpenDirect
<1>4. /\ work[w] # Idle /\ n # NoCache /\ n \notin DOMAIN caches /\ MapsReach
  BY <1>1, <1>2, Opening
<1>5. PICK pc : pc = "lookup"
  OBVIOUS
<1>6. Went(w, pc, n, work[w].ctx, work[w].proto)
  BY <1>2, <1>5, Shifts DEF Opened
<1>7. ScopeOf(w, work[w].req) = <<"own", work[w].req.n, w[2]>>
  BY <1>2 DEF ScopeOf
<1>8. /\ \A i : ScopeOf(w, work[w].req) # <<"session", i>>
      /\ \A s : ScopeOf(w, work[w].req) # <<"stream", s>>
  BY <1>7
<1>9. Opens(w, n)
  <2>1. /\ DOMAIN caches' = DOMAIN caches \cup {n}
        /\ \A k \in DOMAIN caches : caches'[k] = caches[k]
        /\ DOMAIN caches'[n].iter = {}
    BY <1>3, <1>4, CacheMade
  <2> QED BY <1>1, <1>2, <1>4, <1>8, <2>1 DEF Opens, MapsReach
<1> QED BY <1>2, <1>5, <1>6, <1>9, OpensContext

\* GetOrCreateKernelCache for a stream.
LEMMA OpenStreamContext ==
    ASSUME HostInv, BlockInv, LaunchInv, ContextInv, UNCHANGED hostVars, NEW w \in Worker,
           OpenStream(w)
    PROVE  LaunchInv' /\ ContextInv'
<1>1. /\ At(w, "open") /\ Sessioned(work[w].req.ext) /\ ~SessionRecord(work[w].req.ext).flag
      /\ UNCHANGED <<queue, left, session_kernel_cache, ctxs>>
  BY DEF OpenStream, Asks, SessionOf, Sessioned, hostVars
<1>2. /\ work[w] # Idle /\ w[1] \in Stream /\ Name(w) # NoCache /\ Name(w) \notin DOMAIN caches
      /\ MapsReach /\ NoCache \notin DOMAIN caches
  BY <1>1, Opening
<1>3. PICK pc : pc = "lookup"
  OBVIOUS
<1>4. ScopeOf(w, work[w].req) = <<"stream", w[1]>>
  BY <1>1, <1>2, ScopeFacts
<1>5. /\ \A i : ScopeOf(w, work[w].req) # <<"session", i>>
      /\ \A s : ScopeOf(w, work[w].req) = <<"stream", s>> => s = w[1]
  BY <1>4
<1>6. CASE stream_kernel_cache[w[1]] # NoCache
  <2>1. PICK n : n = stream_kernel_cache[w[1]]
    OBVIOUS
  <2>2. Opened(w, n) /\ UNCHANGED <<caches, stream_kernel_cache>>
    BY <1>6, <2>1 DEF OpenStream
  <2>3. Went(w, pc, n, work[w].ctx, work[w].proto)
    BY <1>1, <1>3, <2>2, Shifts DEF Opened
  <2>4. n \in DOMAIN caches /\ n # NoCache
    BY <1>2, <1>6, <2>1 DEF MapsReach
  <2>5. ScopeOf(w, work[w].req) \in ScopesOf(n)
    BY <1>2, <1>4, <2>1, ScopeIn
  <2>6. Opens(w, n)
    BY <1>1, <1>2, <1>5, <2>1, <2>2, <2>4, <2>5 DEF Opens, MapsReach
  <2> QED BY <1>1, <1>3, <2>3, <2>6, OpensContext
<1>7. CASE stream_kernel_cache[w[1]] = NoCache
  <2>1. PICK n, flag : n = Name(w) /\ flag = FALSE
    OBVIOUS
  <2>2. Opened(w, n) /\ stream_kernel_cache' = [stream_kernel_cache EXCEPT ![w[1]] = n]
    BY <1>7, <2>1 DEF OpenStream
  <2>3. caches' = With(caches, n, NewCache(flag))
    BY <1>7, <2>1, Zenon DEF OpenStream
  <2>4. Went(w, pc, n, work[w].ctx, work[w].proto)
    BY <1>1, <1>3, <2>2, Shifts DEF Opened
  <2>5. Opens(w, n)
    <3>1. /\ DOMAIN caches' = DOMAIN caches \cup {n}
          /\ \A k \in DOMAIN caches : caches'[k] = caches[k]
          /\ DOMAIN caches'[n].iter = {}
      BY <1>2, <2>1, <2>3, CacheMade
    <3>2. /\ DOMAIN stream_kernel_cache' = Stream /\ stream_kernel_cache'[w[1]] = n
          /\ \A s \in Stream : s # w[1] => stream_kernel_cache'[s] = stream_kernel_cache[s]
      BY <1>2, <2>2 DEF MapsReach
    <3> QED BY <1>1, <1>2, <1>4, <1>5, <1>7, <2>1, <3>1, <3>2 DEF Opens
  <2> QED BY <1>1, <1>3, <2>4, <2>5, OpensContext
<1> QED BY <1>6, <1>7

\* GetOrCreateKernelCache for a session, which may drop another session's
\* cache from the map.
LEMMA OpenSessionContext ==
    ASSUME HostInv, BlockInv, CacheInv, LaunchInv, ContextInv, UNCHANGED hostVars, NEW w \in Worker,
           OpenSession(w)
    PROVE  LaunchInv' /\ ContextInv'
<1>1. /\ At(w, "open") /\ Sessioned(work[w].req.ext) /\ SessionRecord(work[w].req.ext).flag
      /\ UNCHANGED <<queue, left, stream_kernel_cache, ctxs>>
  BY DEF OpenSession, Asks, SessionOf, Sessioned, hostVars
<1>2. /\ work[w] # Idle /\ w[1] \in Stream /\ Name(w) # NoCache /\ Name(w) \notin DOMAIN caches
      /\ MapsReach /\ NoCache \notin DOMAIN caches
  BY <1>1, Opening
<1>3. PICK pc : pc = "lookup"
  OBVIOUS
<1>4. PICK id : id = SessionOf(w).id
  OBVIOUS
<1>5. ScopeOf(w, work[w].req) = <<"session", id>> /\ id \in Session
  BY <1>1, <1>2, <1>4, ScopeFacts DEF SessionOf
<1>6. /\ \A s : ScopeOf(w, work[w].req) # <<"stream", s>>
      /\ \A i : ScopeOf(w, work[w].req) = <<"session", i>> => i = id
  BY <1>5
<1>7. /\ DOMAIN Mapped = Session
      /\ \A i \in Session : Mapped[i] \in {session_kernel_cache[i], NoCache}
  <2>1. DOMAIN session_kernel_cache = Session
    BY DEF CacheInv, SessionsListed
  <2> QED BY <2>1 DEF Mapped
<1>8. CASE /\ session_kernel_cache[id] # NoCache
           /\ Opened(w, session_kernel_cache[id])
           /\ UNCHANGED <<caches, session_kernel_cache>>
  <2>1. PICK n : n = session_kernel_cache[id]
    OBVIOUS
  <2>2. Opened(w, n)
    BY <1>8, <2>1
  <2>3. Went(w, pc, n, work[w].ctx, work[w].proto)
    BY <1>1, <1>3, <2>2, Shifts DEF Opened
  <2>4. n \in DOMAIN caches /\ n # NoCache
    BY <1>2, <1>5, <1>8, <2>1 DEF MapsReach
  <2>5. ScopeOf(w, work[w].req) \in ScopesOf(n)
    BY <1>2, <1>5, <2>1, ScopeIn
  <2>6. Opens(w, n)
    BY <1>1, <1>2, <1>6, <1>8, <2>1, <2>4, <2>5 DEF Opens, MapsReach
  <2> QED BY <1>1, <1>3, <2>3, <2>6, OpensContext
<1>9. CASE /\ caches' = With(caches, Name(w), NewCache(TRUE))
           /\ session_kernel_cache' = [Mapped EXCEPT ![id] = Name(w)]
           /\ Opened(w, Name(w))
  <2>1. PICK n, flag : n = Name(w) /\ flag = TRUE
    OBVIOUS
  <2>2. Opened(w, n) /\ session_kernel_cache' = [Mapped EXCEPT ![id] = n]
    BY <1>9, <2>1
  <2>3. caches' = With(caches, n, NewCache(flag))
    BY <1>9, <2>1, Zenon
  <2>4. Went(w, pc, n, work[w].ctx, work[w].proto)
    BY <1>1, <1>3, <2>2, Shifts DEF Opened
  <2>5. Opens(w, n)
    <3>1. /\ DOMAIN caches' = DOMAIN caches \cup {n}
          /\ \A k \in DOMAIN caches : caches'[k] = caches[k]
          /\ DOMAIN caches'[n].iter = {} /\ caches'[n].sess_flag = flag
      BY <1>2, <2>1, <2>3, CacheMade
    <3>2. \A i \in Session : \/ session_kernel_cache'[i] \in {session_kernel_cache[i], NoCache}
                             \/ i = id /\ session_kernel_cache'[i] = n
      BY <1>5, <1>7, <2>2
    <3>3. caches'[n].sess_flag
      BY <2>1, <3>1
    <3> QED BY <1>1, <1>2, <1>5, <1>6, <2>1, <3>1, <3>2, <3>3 DEF Opens, MapsReach
  <2> QED BY <1>1, <1>3, <2>4, <2>5, OpensContext
<1>10. CASE session_kernel_cache' = Mapped /\ Goto(w, "done") /\ UNCHANGED caches
  <2>1. Went(w, "done", work[w].kernel, work[w].ctx, work[w].proto)
    BY <1>1, <1>10, Shifts
  <2> QED BY <1>1, <1>7, <1>10, <2>1, Ended
<1> QED BY <1>4, <1>8, <1>9, <1>10 DEF OpenSession

-----------------------------------------------------------------------------
(* The runtime: launches start and retire                                  *)

\* Workers stop or start, and what nobody holds any more goes.
Rests ==
    /\ \A v \in Worker :
         \/ work'[v] = work[v]
         \/ work'[v] = Idle
         \/ work[v] = Idle /\ work'[v].pc = "open" /\ work'[v].kernel = NoCache
    /\ \A k \in DOMAIN caches' : k \in DOMAIN caches /\ caches'[k] = caches[k]
    /\ \A c \in DOMAIN ctxs' : c \in DOMAIN ctxs /\ ctxs'[c] = ctxs[c]
    /\ UNCHANGED <<session_kernel_cache, stream_kernel_cache>>
    /\ \A k \in DOMAIN caches :
         \/ \E i \in Session : session_kernel_cache[i] = k
         \/ \E s \in Stream : stream_kernel_cache[s] = k
         \/ \E v \in Worker : work'[v] # Idle /\ work'[v].kernel = k
         => k \in DOMAIN caches'
    /\ \A c \in DOMAIN ctxs :
         \/ \E v \in Worker : work'[v] # Idle /\ work'[v].ctx = c
         \/ \E k, q : k \in DOMAIN caches' /\ Files(k, q, c)
         => c \in DOMAIN ctxs'

\* Nobody reaches or files more than before.
LEMMA RestsScopes ==
    ASSUME HostInv, Born, Rests
    PROVE  /\ \A k \in DOMAIN caches : ScopesOf(k)' \subseteq ScopesOf(k)
           /\ \A k, q, c : Files(k, q, c)' => Files(k, q, c) /\ k \in DOMAIN caches'
           /\ \A k, q, c : Files(k, q, c) /\ k \in DOMAIN caches' => Files(k, q, c)'
           /\ \A v \in Worker : Has(v)' => Has(v) /\ work'[v] = work[v] /\ work[v] # Idle
<1>1. NoCache \notin DOMAIN caches
  BY NoCacheNone
<1>2. ASSUME NEW k \in DOMAIN caches, NEW o \in ScopesOf(k)' PROVE o \in ScopesOf(k)
  <2>1. CASE \E i \in Session : o = <<"session", i>> /\ session_kernel_cache'[i] = k
    BY <2>1, ScopeIn DEF Rests
  <2>2. CASE \E s \in Stream : o = <<"stream", s>> /\ stream_kernel_cache'[s] = k
    BY <2>2, ScopeIn DEF Rests
  <2>3. CASE \E v \in Worker : work'[v] # Idle /\ work'[v].kernel = k /\ o = ScopeOf(v, work'[v].req)
    <3>1. PICK v \in Worker : work'[v] # Idle /\ work'[v].kernel = k /\ o = ScopeOf(v, work'[v].req)
      BY <2>3
    <3>2. work'[v] = work[v]
      BY <1>1, <1>2, <3>1 DEF Rests
    <3> QED BY <3>1, <3>2, ScopeIn
  <2>4. \/ \E i \in Session : o = <<"session", i>> /\ session_kernel_cache'[i] = k
        \/ \E s \in Stream : o = <<"stream", s>> /\ stream_kernel_cache'[s] = k
        \/ \E v \in Worker : work'[v] # Idle /\ work'[v].kernel = k /\ o = ScopeOf(v, work'[v].req)
    BY <1>2, ScopeIn
  <2> QED BY <2>1, <2>2, <2>3, <2>4
<1>3. ASSUME NEW k, NEW q, NEW c, Files(k, q, c)' PROVE Files(k, q, c) /\ k \in DOMAIN caches'
  <2>1. k \in DOMAIN caches' /\ q \in DOMAIN caches'[k].iter /\ caches'[k].iter[q] = c
    BY <1>3 DEF Files
  <2> QED BY <2>1 DEF Files, Rests
<1>4. ASSUME NEW k, NEW q, NEW c, Files(k, q, c), k \in DOMAIN caches' PROVE Files(k, q, c)'
  <2>1. caches'[k] = caches[k]
    BY <1>4 DEF Rests
  <2> QED BY <1>4, <2>1 DEF Files
<1>5. ASSUME NEW v \in Worker, Has(v)' PROVE Has(v) /\ work'[v] = work[v] /\ work[v] # Idle
  BY <1>5 DEF Has, Rests, Idle
<1> QED BY <1>2, <1>3, <1>4, <1>5

\* What is left fits: caches and contexts that are reached have been kept.
LEMMA RestsContext ==
    ASSUME HostInv, CacheInv, ContextInv, Rests
    PROVE  ReachFits' /\ FiledFits' /\ UsersFit' /\ KeepersFit'
<1>1. Born /\ ReachFits /\ FiledFits /\ UsersFit /\ KeepersFit
  BY DEF ContextInv
<1>2. /\ \A k \in DOMAIN caches : ScopesOf(k)' \subseteq ScopesOf(k)
      /\ \A k, q, c : Files(k, q, c)' => Files(k, q, c) /\ k \in DOMAIN caches'
      /\ \A k, q, c : Files(k, q, c) /\ k \in DOMAIN caches' => Files(k, q, c)'
      /\ \A v \in Worker : Has(v)' => Has(v) /\ work'[v] = work[v] /\ work[v] # Idle
  BY <1>1, RestsScopes
<1>3. /\ \A k \in DOMAIN caches' : k \in DOMAIN caches /\ caches'[k] = caches[k]
      /\ \A c \in DOMAIN ctxs' : c \in DOMAIN ctxs /\ ctxs'[c] = ctxs[c]
      /\ session_kernel_cache' = session_kernel_cache /\ stream_kernel_cache' = stream_kernel_cache
  BY DEF Rests
<1>4. /\ \A i \in Session : session_kernel_cache[i] \in DOMAIN caches' \cup {NoCache}
      /\ DOMAIN stream_kernel_cache = Stream
      /\ \A s \in Stream : stream_kernel_cache[s] \in DOMAIN caches' \cup {NoCache}
  BY <1>1 DEF ReachFits, MapsReach, Rests
<1>5. ASSUME NEW v \in Worker, work'[v] = work[v], work[v] # Idle
      PROVE  /\ work[v].kernel \in DOMAIN caches' \cup {NoCache}
             /\ work[v].ctx \in DOMAIN ctxs => work[v].ctx \in DOMAIN ctxs'
  <2>1. work[v].kernel \in DOMAIN caches \cup {NoCache}
    BY <1>1, <1>5 DEF ReachFits, Reaches
  <2> QED BY <1>5, <2>1 DEF Rests
<1>6. ReachFits'
  <2>1. MapsReach'
    BY <1>3, <1>4 DEF MapsReach
  <2>2. ScopesFit'
    BY <1>1, <1>2, <1>3, ScopesStay DEF ReachFits
  <2>3. ASSUME NEW v \in Worker, work'[v] # Idle PROVE Reaches(v)'
    <3>1. CASE work'[v] = work[v]
      <4>1. Reaches(v)
        BY <1>1, <2>3, <3>1 DEF ReachFits
      <4>2. work[v].kernel \in DOMAIN caches' \cup {NoCache}
        BY <1>5, <2>3, <3>1
      <4> QED BY <1>3, <3>1, <4>1, <4>2 DEF Reaches
    <3>2. CASE work'[v].pc = "open" /\ work'[v].kernel = NoCache
      BY <3>2 DEF Reaches
    <3> QED BY <2>3, <3>1, <3>2 DEF Rests
  <2> QED BY <2>1, <2>2, <2>3 DEF ReachFits
<1>7. FiledFits'
  <2>1. ASSUME NEW k, NEW q, NEW c, Files(k, q, c)' PROVE c \in DOMAIN ctxs'
    <3>1. Files(k, q, c) /\ k \in DOMAIN caches'
      BY <1>2, <2>1
    <3>2. c \in DOMAIN ctxs
      BY <1>1, <3>1, FiledIs
    <3> QED BY <3>1, <3>2 DEF Rests
  <2>2. \A k, l, q, p, c : Files(k, q, c)' /\ Files(l, p, c)' => k = l /\ q = p
    BY <1>1, <1>2, FiledIs
  <2> QED BY <2>1, <2>2, FiledIs
<1>8. UsersFit'
  <2>1. ASSUME NEW v \in Worker, Has(v)' PROVE UserFits(v)'
    <3>1. Has(v) /\ UserFits(v) /\ work'[v] = work[v] /\ work[v] # Idle
      BY <1>1, <1>2, <2>1 DEF UsersFit
    <3>2. work[v].ctx \in DOMAIN ctxs' /\ ctxs'[work[v].ctx] = ctxs[work[v].ctx]
      BY <1>3, <1>5, <3>1 DEF UserFits
    <3>3. Msg(v)' = Msg(v) /\ Blk(v)' = Blk(v)
      BY <3>1 DEF Msg, Blk
    <3>4. \A u \in Worker : Has(u)' /\ u # v => work'[u].ctx # work[v].ctx
      BY <1>2, <3>1 DEF UserFits
    <3>5. ASSUME NEW k \in DOMAIN caches', NEW q \in DOMAIN caches'[k].iter,
                 caches'[k].iter[q] = work[v].ctx
          PROVE  /\ Msg(v).has_sess /\ q = Msg(v).kid
                 /\ ScopesOf(k)' \subseteq {ScopeOf(v, work[v].req)}
      <4>1. k \in DOMAIN caches /\ caches'[k] = caches[k]
        BY <1>3, <3>5
      <4>2. /\ Msg(v).has_sess /\ q = Msg(v).kid
            /\ ScopesOf(k) \subseteq {ScopeOf(v, work[v].req)}
        BY <3>1, <3>5, <4>1 DEF UserFits
      <4> QED BY <1>2, <4>1, <4>2
    <3> QED BY <3>1, <3>2, <3>3, <3>4, <3>5 DEF UserFits
  <2> QED BY <2>1 DEF UsersFit
<1>9. KeepersFit'
  <2>1. ASSUME NEW v \in Worker, Has(v)' PROVE KeeperFits(v)'
    <3>1. Has(v) /\ KeeperFits(v) /\ work'[v] = work[v] /\ work[v] # Idle
      BY <1>1, <1>2, <2>1 DEF KeepersFit
    <3>2. Msg(v)' = Msg(v) /\ v[1] \in Stream /\ (Parked(v)' <=> Parked(v))
      BY <3>1, WorkerParts, ParkedSame DEF Msg
    <3>3. ASSUME NEW k, KeptFor(v, k), k \in DOMAIN caches' PROVE KeptFor(v, k)'
      <4>1. caches'[k] = caches[k]
        BY <1>3, <3>3
      <4> QED BY <3>1, <3>2, <3>3, <4>1 DEF KeptFor
    <3>4. ASSUME work[v].pc # "async", ~work[v].proto
          PROVE  KeptFor(v, work[v].kernel)' \/ Full(work[v].kernel)'
      <4>1. PICK k : k = work[v].kernel
        OBVIOUS
      <4>2. k \in DOMAIN caches'
        <5>1. work[v].pc \in {"tensor", "run"}
          BY <3>1, <3>4 DEF Has
        <5> QED BY <1>1, <1>5, <3>1, <4>1, <5>1 DEF ReachFits, Reaches
      <4>3. caches'[k] = caches[k] /\ work'[v].kernel = k
        BY <1>3, <3>1, <4>1, <4>2
      <4>4. KeptFor(v, k) \/ Full(k)
        BY <3>1, <3>4, <4>1 DEF KeeperFits
      <4>5. CASE KeptFor(v, k)
        <5>1. KeptFor(v, k)'
          BY <3>3, <4>2, <4>5
        <5> QED BY <4>3, <5>1 DEF KeptFor
      <4>6. CASE Full(k)
        BY <4>3, <4>6 DEF Full
      <4> QED BY <4>4, <4>5, <4>6
    <3>5. ASSUME Parked(v) PROVE KeptFor(v, stream_kernel_cache[v[1]])'
      <4>1. PICK k : k = stream_kernel_cache[v[1]]
        OBVIOUS
      <4>2. KeptFor(v, k) /\ k \in DOMAIN caches
        BY <3>1, <3>5, <4>1 DEF KeeperFits, KeptFor
      <4>3. k \in DOMAIN caches'
        BY <3>2, <4>1, <4>2 DEF Rests
      <4>4. KeptFor(v, k)' /\ stream_kernel_cache'[v[1]] = k
        BY <1>3, <3>3, <4>1, <4>2, <4>3
      <4> QED BY <4>4 DEF KeptFor
    <3>6. work[v].pc # "async" /\ ~work[v].proto => Msg(v).has_sess /\ Small(work[v].req)
      BY <3>1 DEF KeeperFits
    <3> QED BY <3>1, <3>2, <3>4, <3>5, <3>6 DEF KeeperFits
  <2> QED BY <2>1 DEF KeepersFit
<1> QED BY <1>6, <1>7, <1>8, <1>9

\* The launches under it.
LEMMA RestsLaunch ==
    ASSUME HostInv, LaunchInv, ContextInv, Rests, UNCHANGED hostVars,
           \A s \in Stream : Range(queue'[s]) \subseteq Range(queue[s]), FiledFits'
    PROVE  LaunchInv'
<1>1. Born
  BY DEF ContextInv
<1>2. /\ \A k \in DOMAIN caches : ScopesOf(k)' \subseteq ScopesOf(k)
      /\ \A k, q, c : Files(k, q, c)' => Files(k, q, c) /\ k \in DOMAIN caches'
  BY <1>1, RestsScopes
<1>3. ASSUME NEW k, NEW q, NEW c, Files(k, q, c)'
      PROVE  /\ Files(k, q, c) /\ ScopesOf(k)' \subseteq ScopesOf(k)
             /\ ctxs'[c].node = ctxs[c].node /\ ctxs'[c].blk = ctxs[c].blk
  <2>1. Files(k, q, c) /\ k \in DOMAIN caches /\ c \in DOMAIN ctxs'
    BY <1>2, <1>3, FiledIs DEF Files
  <2> QED BY <1>2, <2>1 DEF Rests
<1>4. \A a \in CacheClaims' : a \in Claims
  BY <1>3, ClaimsFiled
<1> QED BY <1>4, DeviceLaunch

\* A launch that waits is new, or waits where it waited with its workers at
\* work, or has come up.
Keeps(s, i) ==
    \/ queue'[s][i].n = left.own + left.foreign
    \/ /\ i \in DOMAIN queue[s] /\ queue'[s][i].n = queue[s][i].n
       /\ \A v \in Worker : v[1] = s /\ work[v].pc # "idle" => work'[v].pc = work[v].pc
    \/ \E j \in DOMAIN queue[s] : j # 1 /\ queue'[s][i].n = queue[s][j].n

\* Names stay given once where no worker makes anything.
LEMMA BornStays ==
    ASSUME HostInv, HostInv', Born, left'.own + left'.foreign <= left.own + left.foreign,
           DOMAIN caches' \subseteq DOMAIN caches, DOMAIN ctxs' \subseteq DOMAIN ctxs,
           \A s \in Stream : \A i \in DOMAIN queue'[s] : Keeps(s, i)
    PROVE  Born'
<1>1. /\ left.own \in Nat /\ left.foreign \in Nat /\ left'.own \in Nat /\ left'.foreign \in Nat
  BY DEF HostInv, HostTypeOK
<1>2. ASSUME NEW names, NEW more, more \subseteq names, NEW stages, "idle" \notin stages,
             BornIn(names, stages)
      PROVE  BornIn(more, stages)'
  <2>1. ASSUME NEW k \in more
        PROVE  /\ k[1] \in Nat /\ k[1] > left'.own + left'.foreign
               /\ \A s \in Stream : \A i \in DOMAIN queue'[s] : queue'[s][i].n = k[1] =>
                     i = 1 /\ <<s, k[2]>> \in Worker /\ work'[<<s, k[2]>>].pc \in stages
    <3>1. /\ k[1] \in Nat /\ k[1] > left.own + left.foreign
          /\ \A s \in Stream : \A i \in DOMAIN queue[s] : queue[s][i].n = k[1] =>
                i = 1 /\ <<s, k[2]>> \in Worker /\ work[<<s, k[2]>>].pc \in stages
      BY <1>2, <2>1 DEF BornIn
    <3>2. k[1] > left'.own + left'.foreign /\ k[1] # left.own + left.foreign
      <4>1. PICK a, b, m : a = left.own + left.foreign /\ b = left'.own + left'.foreign /\ m = k[1]
        OBVIOUS
      <4>2. a \in Nat /\ b \in Nat /\ m \in Nat /\ m > a /\ b <= a
        BY <1>1, <3>1, <4>1
      <4>3. m > b /\ m # a
        BY <4>2
      <4> QED BY <4>1, <4>3
    <3>3. ASSUME NEW s \in Stream, NEW i \in DOMAIN queue'[s], queue'[s][i].n = k[1]
          PROVE  i = 1 /\ <<s, k[2]>> \in Worker /\ work'[<<s, k[2]>>].pc \in stages
      <4>1. Keeps(s, i)
        OBVIOUS
      <4>2. /\ i \in DOMAIN queue[s] /\ queue'[s][i].n = queue[s][i].n
            /\ \A v \in Worker : v[1] = s /\ work[v].pc # "idle" => work'[v].pc = work[v].pc
        BY <3>1, <3>2, <3>3, <4>1 DEF Keeps
      <4>3. i = 1 /\ <<s, k[2]>> \in Worker /\ work[<<s, k[2]>>].pc \in stages
        BY <3>1, <3>3, <4>2
      <4>4. PICK v : v = <<s, k[2]>>
        OBVIOUS
      <4>5. v \in Worker /\ v[1] = s /\ work[v].pc \in stages
        BY <4>3, <4>4
      <4>6. work'[v].pc = work[v].pc
        BY <1>2, <4>2, <4>5
      <4> QED BY <4>3, <4>4, <4>5, <4>6
    <3> QED BY <3>1, <3>2, <3>3
  <2> QED BY <2>1 DEF BornIn
<1>3. BornIn(DOMAIN caches, CacheStages) /\ BornIn(DOMAIN ctxs, ContextStages)
  BY DEF Born, CacheStages, ContextStages
<1>4. PICK a, b, c, d : /\ a = DOMAIN caches /\ b = DOMAIN caches'
                        /\ c = DOMAIN ctxs /\ d = DOMAIN ctxs'
  OBVIOUS
<1>5. BornIn(a, CacheStages) /\ BornIn(c, ContextStages) /\ b \subseteq a /\ d \subseteq c
  BY <1>3, <1>4
<1>6. BornIn(b, CacheStages)' /\ BornIn(d, ContextStages)'
  <2>1. PICK y, z : y = CacheStages /\ z = ContextStages
    OBVIOUS
  <2>2. "idle" \notin y /\ "idle" \notin z
    BY <2>1 DEF CacheStages, ContextStages
  <2>3. BornIn(a, y) /\ BornIn(c, z)
    BY <1>5, <2>1
  <2>4. BornIn(b, y)' /\ BornIn(d, z)'
    BY <1>2, <1>5, <2>2, <2>3
  <2> QED BY <2>1, <2>4 DEF BornIn
<1> QED BY <1>4, <1>6 DEF Born, BornIn, CacheStages, ContextStages

\* The runtime hands the head of a stream to its workers.
LEMMA StartContext ==
    ASSUME HostInv, HostInv', BlockInv, CacheInv, LaunchInv, ContextInv, UNCHANGED hostVars,
           NEW s \in Stream, Start(s)
    PROVE  LaunchInv' /\ ContextInv'
<1>1. PICK y : y = [pc |-> "open", req |-> Head(queue[s]), kernel |-> NoCache, ctx |-> NoCache,
                    proto |-> FALSE, shape |-> << >>]
  OBVIOUS
<1>2. /\ UNCHANGED <<queue, caches, session_kernel_cache, stream_kernel_cache, ctxs>> /\ ~Busy(s)
      /\ work' = [w \in Worker |-> IF w[1] = s /\ w[2] < BlockNum(Head(queue[s])) THEN y ELSE work[w]]
  BY <1>1 DEF Start
<1>3. y.pc = "open" /\ y.kernel = NoCache
  BY <1>1
<1>4. \A v \in Worker : v[1] = s => work[v] = Idle
  BY <1>2, WorkerParts DEF Busy
<1>5. \A v \in Worker : work'[v] = work[v] \/ (v[1] = s /\ work[v] = Idle /\ work'[v] = y)
  BY <1>2, <1>4
<1>6. Rests
  <2>1. \A k, q, c : Files(k, q, c) => c \in DOMAIN ctxs
    BY FiledIs DEF ContextInv
  <2> QED BY <1>2, <1>3, <1>5 DEF Rests
<1>7. ReachFits' /\ FiledFits' /\ UsersFit' /\ KeepersFit'
  BY <1>6, RestsContext
<1>8. LaunchInv'
  BY <1>2, <1>6, <1>7, RestsLaunch
<1>9. Born'
  <2>1. \A u \in Stream : \A i \in DOMAIN queue'[u] : Keeps(u, i)
    BY <1>2, <1>5 DEF Keeps, Idle
  <2>2. left' = left /\ left.own \in Nat /\ left.foreign \in Nat
    BY DEF hostVars, HostInv, HostTypeOK
  <2>3. left'.own + left'.foreign <= left.own + left.foreign
    BY <2>2
  <2> QED BY <1>2, <2>1, <2>3, BornStays DEF ContextInv
<1> QED BY <1>7, <1>8, <1>9 DEF ContextInv

\* The other launches of the stream come up.
LEMMA RetireQueue ==
    ASSUME HostInv, BlockInv, NEW s \in Stream, Retire(s)
    PROVE  /\ \A u \in Stream : Range(queue'[u]) \subseteq Range(queue[u])
           /\ \A u \in Stream : \A i \in DOMAIN queue'[u] : Keeps(u, i)
<1>1. PICK q, p : q = queue[s] /\ p = Tail(q)
  OBVIOUS
<1>2. q \in Seq(Range(q)) /\ q # << >> /\ DOMAIN queue = Stream
  <2>1. PICK b \in 0 .. Blocks - 1 : work[<<s, b>>] # Idle
    BY DEF Retire, Busy
  <2>2. <<s, b>> \in Worker /\ <<s, b>>[1] = s
    BY WorkerParts
  <2>3. q # << >>
    BY <1>1, <2>1, <2>2 DEF BlockInv, Running
  <2> QED BY <1>1, <2>3, QueueLists DEF BlockInv, Numbered
<1>3. queue'[s] = p /\ \A u \in Stream : u # s => queue'[u] = queue[u]
  BY <1>1, <1>2 DEF Retire
<1>4. Range(p) \subseteq Range(q)
  BY <1>1, <1>2, HeadTail
<1>5. ASSUME NEW i \in DOMAIN p PROVE \E j \in DOMAIN q : j # 1 /\ p[i] = q[j]
  <2>1. PICK n : n = Len(q)
    OBVIOUS
  <2>2. n \in Nat \ {0} /\ DOMAIN q = 1 .. n /\ p \in Seq(Range(q)) /\ Len(p) = n - 1
    BY <1>1, <1>2, <2>1
  <2>3. DOMAIN p = 1 .. n - 1
    BY <2>2
  <2>4. p[i] = q[i + 1]
    BY <1>1, <1>2, <2>1, <2>3
  <2>5. i + 1 \in 1 .. n /\ i + 1 # 1
    BY <2>2, <2>3
  <2> QED BY <2>2, <2>4, <2>5
<1>6. \A v \in Worker : v[1] # s => work'[v] = work[v]
  BY DEF Retire
<1>7. ASSUME NEW u \in Stream, NEW i \in DOMAIN queue'[u] PROVE Keeps(u, i)
  <2>1. CASE u = s
    <3>1. PICK j \in DOMAIN q : j # 1 /\ p[i] = q[j]
      BY <1>3, <1>5, <1>7, <2>1
    <3>2. queue'[u][i].n = queue[u][j].n /\ j \in DOMAIN queue[u]
      BY <1>1, <1>3, <2>1, <3>1
    <3> QED BY <3>1, <3>2 DEF Keeps
  <2>2. CASE u # s
    BY <1>3, <1>6, <1>7, <2>2 DEF Keeps
  <2> QED BY <2>1, <2>2
<1>8. \A u \in Stream : Range(queue'[u]) \subseteq Range(queue[u])
  BY <1>1, <1>3, <1>4
<1> QED BY <1>7, <1>8

\* The workers of a stream are done, and the last holders free what they held.
LEMMA RetireContext ==
    ASSUME HostInv, HostInv', BlockInv, CacheInv, LaunchInv, ContextInv, UNCHANGED hostVars,
           NEW s \in Stream, Retire(s)
    PROVE  LaunchInv' /\ ContextInv'
<1>1. PICK live, used : live = LiveWithout(s) /\ used = UsedWithout(s)
  OBVIOUS
<1>2. /\ caches' = Keep(caches, live) /\ ctxs' = Keep(ctxs, used)
      /\ UNCHANGED <<session_kernel_cache, stream_kernel_cache>>
      /\ \A v \in Worker : work'[v] = IF v[1] = s THEN Idle ELSE work[v]
  BY <1>1 DEF Retire
<1>3. /\ DOMAIN caches' = DOMAIN caches \cap live /\ DOMAIN ctxs' = DOMAIN ctxs \cap used
      /\ \A k \in DOMAIN caches' : caches'[k] = caches[k]
      /\ \A c \in DOMAIN ctxs' : ctxs'[c] = ctxs[c]
  BY <1>2 DEF Keep
<1>4. \A v \in Worker : work'[v] # Idle => v \in OthersOf(s) /\ work'[v] = work[v]
  BY <1>2 DEF OthersOf
<1>5. NoCache \notin DOMAIN caches /\ MapsReach /\ DOMAIN session_kernel_cache = Session
  BY NoCacheNone DEF ContextInv, ReachFits, CacheInv, SessionsListed
<1>6. /\ \A i \in Session : session_kernel_cache[i] \in live
      /\ \A u \in Stream : stream_kernel_cache[u] \in live
      /\ \A v \in OthersOf(s) : work[v].kernel \in live
  BY <1>1, <1>5 DEF LiveWithout, Range, MapsReach
<1>7. /\ \A v \in OthersOf(s) : work[v].ctx \in used
      /\ \A k \in live : k # NoCache => Range(caches[k].iter) \subseteq used
  BY <1>1 DEF UsedWithout
<1>8. Rests
  <2>1. ASSUME NEW c \in DOMAIN ctxs,
               \/ \E v \in Worker : work'[v] # Idle /\ work'[v].ctx = c
               \/ \E k, q : k \in DOMAIN caches' /\ Files(k, q, c)
        PROVE  c \in DOMAIN ctxs'
    <3>1. CASE \E v \in Worker : work'[v] # Idle /\ work'[v].ctx = c
      BY <1>3, <1>4, <1>7, <3>1
    <3>2. ASSUME NEW k, NEW q, k \in DOMAIN caches', Files(k, q, c) PROVE c \in used
      <4>1. k \in live /\ k # NoCache /\ q \in DOMAIN caches[k].iter /\ caches[k].iter[q] = c
        BY <1>3, <1>5, <3>2 DEF Files
      <4>2. c \in Range(caches[k].iter)
        BY <4>1 DEF Range
      <4> QED BY <1>7, <4>1, <4>2
    <3> QED BY <1>3, <2>1, <3>1, <3>2
  <2>2. ASSUME NEW k \in DOMAIN caches,
               \/ \E i \in Session : session_kernel_cache[i] = k
               \/ \E u \in Stream : stream_kernel_cache[u] = k
               \/ \E v \in Worker : work'[v] # Idle /\ work'[v].kernel = k
        PROVE  k \in DOMAIN caches'
    BY <1>3, <1>4, <1>6, <2>2
  <2>3. \A v \in Worker : work'[v] = work[v] \/ work'[v] = Idle
    BY <1>2
  <2> QED BY <1>2, <1>3, <2>1, <2>2, <2>3 DEF Rests
<1>9. ReachFits' /\ FiledFits' /\ UsersFit' /\ KeepersFit'
  BY <1>8, RestsContext
<1>10. LaunchInv'
  BY <1>8, <1>9, RestsLaunch, RetireQueue
<1>11. Born'
  <2>1. left' = left /\ left.own \in Nat /\ left.foreign \in Nat
    BY DEF hostVars, HostInv, HostTypeOK
  <2>2. left'.own + left'.foreign <= left.own + left.foreign
    BY <2>1
  <2>3. DOMAIN caches' \subseteq DOMAIN caches /\ DOMAIN ctxs' \subseteq DOMAIN ctxs
    BY <1>3
  <2>4. \A u \in Stream : \A i \in DOMAIN queue'[u] : Keeps(u, i)
    BY RetireQueue
  <2> QED BY <2>2, <2>3, <2>4, BornStays DEF ContextInv
<1> QED BY <1>9, <1>10, <1>11 DEF ContextInv

-----------------------------------------------------------------------------
(* The contexts' invariant                                                 *)

\* The host adds a launch at most, with the next number, and uses up a number.
LEMMA AppendKeeps ==
    ASSUME Numbered, UNCHANGED work, NEW s, NEW r, r.n = left.own + left.foreign,
           queue' = [queue EXCEPT ![s] = Append(@, r)]
    PROVE  \A u \in Stream : \A i \in DOMAIN queue'[u] : Keeps(u, i)
<1>1. ASSUME NEW u \in Stream, NEW i \in DOMAIN queue'[u], queue'[u] = queue[u] PROVE Keeps(u, i)
  BY <1>1 DEF Keeps
<1>2. ASSUME NEW u \in Stream, u = s, NEW i \in DOMAIN queue'[u] PROVE Keeps(u, i)
  <2>1. PICK q, n : q = queue[u] /\ n = Len(q)
    OBVIOUS
  <2>2. PICK S : S = Range(q) \cup {r}
    OBVIOUS
  <2>3. q \in Seq(S) /\ r \in S /\ n \in Nat /\ DOMAIN q = 1 .. n
    <3>1. q \in Seq(Range(q)) /\ DOMAIN q = 1 .. n
      BY <2>1, QueueLists
    <3>2. q \in Seq(S) /\ r \in S
      BY <2>2, <3>1
    <3> QED BY <2>1, <3>1, <3>2
  <2>4. PICK p : p = Append(q, r)
    OBVIOUS
  <2>5. queue'[u] = p
    BY <1>2, <2>1, <2>4 DEF Numbered
  <2>6. /\ p \in Seq(S) /\ Len(p) = n + 1 /\ p[n + 1] = r
        /\ \A j \in 1 .. n : p[j] = q[j]
    BY <2>1, <2>3, <2>4
  <2>7. i = n + 1 \/ i \in 1 .. n
    <3>1. DOMAIN p = 1 .. n + 1
      BY <2>3, <2>6
    <3> QED BY <1>2, <2>3, <2>5, <3>1
  <2>8. CASE i = n + 1
    BY <2>5, <2>6, <2>8 DEF Keeps
  <2>9. CASE i \in 1 .. n
    BY <2>1, <2>3, <2>5, <2>6, <2>9 DEF Keeps
  <2> QED BY <2>7, <2>8, <2>9
<1>3. \A u \in Stream : u # s => queue'[u] = queue[u]
  BY DEF Numbered
<1> QED BY <1>1, <1>2, <1>3

\* Every step of the host leaves the device alone.
LEMMA HostBorn ==
    ASSUME HostInv, HostInv', BlockInv, HostStep
    PROVE  /\ left'.own + left'.foreign <= left.own + left.foreign
           /\ \A u \in Stream : \A i \in DOMAIN queue'[u] : Keeps(u, i)
           /\ UNCHANGED <<work, caches, session_kernel_cache, stream_kernel_cache, ctxs>>
<1>1. HostTypeOK /\ HostTypeOK' /\ Numbered
  BY DEF HostInv, BlockInv
<1>2. left.own \in Nat /\ left.foreign \in Nat /\ left'.own \in Nat /\ left'.foreign \in Nat
  BY <1>1 DEF HostTypeOK
<1>3. ASSUME left' = left \/ left' = [left EXCEPT !.own = @ - 1]
                \/ left' = [left EXCEPT !.foreign = @ - 1]
      PROVE  left'.own + left'.foreign <= left.own + left.foreign
  <2>1. \/ left'.own = left.own /\ left'.foreign = left.foreign
        \/ left'.own = left.own - 1 /\ left'.foreign = left.foreign
        \/ left'.own = left.own /\ left'.foreign = left.foreign - 1
    BY <1>1, <1>3 DEF HostTypeOK
  <2> QED BY <1>2, <2>1
<1>4. UNCHANGED <<work, caches, session_kernel_cache, ctxs>>
  BY HostOnly
<1>5. ASSUME queue' = queue PROVE \A u \in Stream : \A i \in DOMAIN queue'[u] : Keeps(u, i)
  BY <1>4, <1>5 DEF Keeps
<1>6. PICK n : n = left.own + left.foreign
  OBVIOUS
<1>7. ASSUME NEW s, NEW node, NEW blocks, NEW ext,
             queue' = [queue EXCEPT ![s] = Append(@, Launch(n, node, blocks, ext))]
      PROVE  \A u \in Stream : \A i \in DOMAIN queue'[u] : Keeps(u, i)
  <2>1. PICK r : r = Launch(n, node, blocks, ext)
    OBVIOUS
  <2>2. r.n = left.own + left.foreign
    BY <1>6, <2>1 DEF Launch
  <2>3. queue' = [queue EXCEPT ![s] = Append(@, r)]
    BY <1>7, <2>1
  <2> QED BY <1>1, <1>4, <2>2, <2>3, AppendKeeps
<1>8. ASSUME NEW t \in Thread, NEW e \in Executor, NEW kind \in Kind, AddLauncher(t, e, kind)
      PROVE  UNCHANGED <<queue, left, stream_kernel_cache>>
  BY <1>8 DEF AddLauncher, devVars
<1>9. ASSUME NEW e \in Executor, Abandon(e) \/ Synchronized(e) \/ Destroy(e)
      PROVE  UNCHANGED <<queue, left, stream_kernel_cache>>
  BY <1>9 DEF Abandon, Synchronized, Destroy, devVars
<1>10. ASSUME NEW e \in Executor, NEW x, NEW shape, LaunchTask(e, x, shape)
       PROVE  /\ stream_kernel_cache' = stream_kernel_cache
              /\ left' = [left EXCEPT !.own = @ - 1]
              /\ \E s, node, blocks, ext :
                    queue' = [queue EXCEPT ![s] = Append(@, Launch(n, node, blocks, ext))]
  BY <1>6, <1>10 DEF LaunchTask
<1>11. ASSUME NEW e \in Executor, NEW x, NEW shape, NEW ran, LaunchFails(e, x, shape, ran)
       PROVE  /\ UNCHANGED <<queue, stream_kernel_cache>> /\ left' = [left EXCEPT !.own = @ - 1]
  BY <1>11 DEF LaunchFails
<1>14. ASSUME NEW e \in Executor, NEW x, NEW shape, LaunchLost(e, x, shape)
       PROVE  /\ UNCHANGED <<queue, stream_kernel_cache>> /\ left' = [left EXCEPT !.own = @ - 1]
  BY <1>14 DEF LaunchLost
<1>12. ASSUME NEW f \in Foreign, ForeignLaunch(f)
       PROVE  /\ stream_kernel_cache' = stream_kernel_cache
              /\ left' = [left EXCEPT !.foreign = @ - 1]
              /\ \E s, node, blocks, ext :
                    queue' = [queue EXCEPT ![s] = Append(@, Launch(n, node, blocks, ext))]
  BY <1>6, <1>12 DEF ForeignLaunch
<1>13. /\ stream_kernel_cache' = stream_kernel_cache
       /\ \/ left' = left \/ left' = [left EXCEPT !.own = @ - 1]
          \/ left' = [left EXCEPT !.foreign = @ - 1]
       /\ \/ queue' = queue
          \/ \E s, node, blocks, ext :
                queue' = [queue EXCEPT ![s] = Append(@, Launch(n, node, blocks, ext))]
  BY <1>8, <1>9, <1>10, <1>11, <1>12, <1>14 DEF HostStep
<1> QED BY <1>3, <1>4, <1>5, <1>7, <1>13

\* Nothing moves on the device.
LEMMA StillContext ==
    ASSUME HostInv, HostInv', CacheInv, ContextInv,
           left'.own + left'.foreign <= left.own + left.foreign,
           \A u \in Stream : \A i \in DOMAIN queue'[u] : Keeps(u, i),
           UNCHANGED <<work, caches, session_kernel_cache, stream_kernel_cache, ctxs>>
    PROVE  ContextInv'
<1>1. Rests
  BY DEF Rests
<1>2. ReachFits' /\ FiledFits' /\ UsersFit' /\ KeepersFit'
  BY <1>1, RestsContext
<1>3. Born'
  BY BornStays DEF ContextInv
<1> QED BY <1>2, <1>3 DEF ContextInv

\* Every step of a worker.
LEMMA WorkerContext ==
    ASSUME HostInv, BlockInv, CacheInv, LaunchInv, ContextInv, UNCHANGED hostVars,
           NEW w \in Worker, WorkerStep(w)
    PROVE  LaunchInv' /\ ContextInv'
<1>1. CASE OpenDirect(w)
  BY <1>1, OpenDirectContext
<1>2. CASE OpenStream(w)
  BY <1>2, OpenStreamContext
<1>3. CASE OpenSession(w)
  BY <1>3, OpenSessionContext
<1>4. CASE Lookup(w)
  BY <1>4, LookupContext
<1>5. CASE Build(w)
  BY <1>5, BuildContext
<1>6. CASE BuildFails(w)
  BY <1>6, BuildFailsContext
<1>7. CASE Tensor(w)
  BY <1>7, TensorContext
<1>8. CASE ComputeAsync(w)
  BY <1>8, ComputeAsyncContext
<1>9. CASE Compute(w) \/ AsyncDone(w) \/ AsyncFails(w)
  BY <1>9, ComputeContext
<1> QED BY <1>1, <1>2, <1>3, <1>4, <1>5, <1>6, <1>7, <1>8, <1>9 DEF WorkerStep

\* Every step.
LEMMA ContextNextInv ==
    /\ LaunchInv /\ ContextInv /\ HostInv /\ HostInv' /\ BlockInv /\ CacheInv
    /\ [Next]_vars
    => LaunchInv' /\ ContextInv'
<1> SUFFICES ASSUME LaunchInv, ContextInv, HostInv, HostInv', BlockInv, CacheInv, [Next]_vars
             PROVE  LaunchInv' /\ ContextInv'
  OBVIOUS
<1>1. CASE HostStep
  BY <1>1, HostLaunch, HostBorn, StillContext
<1>2. CASE DevStep /\ UNCHANGED hostVars
  BY <1>2, StartContext, RetireContext, WorkerContext DEF DevStep
<1>3. CASE UNCHANGED vars
  <2>1. UNCHANGED <<queue, work, caches, session_kernel_cache, stream_kernel_cache, ctxs>>
        /\ UNCHANGED hostVars
    BY <1>3 DEF vars, devVars
  <2>2. left' = left /\ left.own \in Nat /\ left.foreign \in Nat
    BY <2>1 DEF hostVars, HostInv, HostTypeOK
  <2>3. left'.own + left'.foreign <= left.own + left.foreign
    BY <2>2
  <2>4. \A u \in Stream : \A i \in DOMAIN queue'[u] : Keeps(u, i)
    BY <2>1 DEF Keeps
  <2>5. ContextInv'
    BY <2>1, <2>3, <2>4, StillContext
  <2>6. CacheClaims' = CacheClaims
    BY <2>1, SameCacheClaims
  <2>7. LaunchInv'
    BY <2>1, <2>6, DeviceLaunch DEF Claims
  <2> QED BY <2>5, <2>7
<1> QED BY <1>1, <1>2, <1>3 DEF Next

\* At the beginning there are no caches and no contexts.
LEMMA ContextInit == Init => ContextInv
<1> SUFFICES ASSUME Init PROVE ContextInv
  OBVIOUS
<1>1. /\ \A w \in Worker : work[w] = Idle
      /\ DOMAIN caches = {} /\ DOMAIN ctxs = {}
      /\ \A i \in Session : session_kernel_cache[i] = NoCache
      /\ DOMAIN stream_kernel_cache = Stream /\ \A s \in Stream : stream_kernel_cache[s] = NoCache
  BY DEF Init, DevInit
<1>2. Born
  BY <1>1 DEF Born, BornIn
<1>3. ReachFits
  BY <1>1 DEF ReachFits, MapsReach, ScopesFit
<1>4. FiledFits
  BY <1>1 DEF FiledFits
<1>5. \A w \in Worker : ~Has(w)
  BY <1>1 DEF Has, Idle
<1> QED BY <1>2, <1>3, <1>4, <1>5 DEF ContextInv, UsersFit, KeepersFit

\* What is claimed of a kernel id, and who may reach, find and keep a context,
\* holds in every behaviour: the invariant behind the two theorems below.
THEOREM ContextInvariance == Spec => [](LaunchInv /\ ContextInv)
<1>1. Init => LaunchInv /\ ContextInv
  BY LaunchInit, ContextInit
<1> QED BY <1>1, ContextNextInv, HostInvariance, BlockInvariance, KernelCacheInvariance, PTL
        DEF Spec

\* Whoever computes works on its own node, block, addresses and shapes, although
\* contexts are shared under a kernel id (GetCpuKernelContext, UpdateTensor) and
\* the host launches a task again on another stream (AicpuCCTask::Run draws a new
\* kernel id then).
THEOREM ComputesOwn == Spec => []ComputeOwn
<1>1. ASSUME ContextInv PROVE ComputeOwn
  <2>1. ASSUME NEW w \in Worker, Using(w) PROVE UserFits(w) /\ work[w].pc # "tensor"
    BY <1>1, <2>1 DEF ContextInv, UsersFit, Has, Using
  <2> QED BY <2>1 DEF ComputeOwn, UserFits
<1> QED BY <1>1, ContextInvariance, PTL

\* The NodeDef behind a context in use exists, through the eviction of whole
\* sessions and of entries of a stream's cache (KernelCache::SetCache,
\* SessionCache), for parked asynchronous kernels after their run has returned
\* too; a session's cache promises it until it is full.
THEOREM NodeDefsLive == Spec => []NodeDefAlive
<1>1. ASSUME HostInv, BlockInv, LaunchInv, ContextInv PROVE NodeDefAlive
  <2>1. Born /\ ReachFits /\ NoCache \notin DOMAIN caches
    BY <1>1, NoCacheNone DEF ContextInv
  <2>2. ASSUME NEW w \in Worker, NEW k \in LiveCaches, KeptFor(w, k)
        PROVE  \E l \in LiveCaches : work[w].ctx \in Range(caches[l].iter)
    BY <2>2 DEF KeptFor, Range
  <2>3. ASSUME NEW w \in Worker,
               At(w, "tensor") \/ At(w, "run") \/ (At(w, "async") /\ Parked(w))
        PROVE  \/ \E v \in Worker : work[v] # Idle /\ work[v].proto /\ work[v].ctx = work[w].ctx
               \/ \E k \in LiveCaches : work[w].ctx \in Range(caches[k].iter)
               \/ /\ work[w].kernel # NoCache /\ caches[work[w].kernel].sess_flag
                  /\ Len(caches[work[w].kernel].lru) > Capacity
    <3>1. Has(w) /\ work[w] # Idle /\ KeeperFits(w)
      BY <1>1, <2>3 DEF Has, At, Idle, ContextInv, KeepersFit
    <3>2. CASE work[w].proto
      BY <3>1, <3>2
    <3>3. CASE work[w].pc # "async" /\ ~work[w].proto
      <4>1. work[w].pc \in {"tensor", "run"}
        BY <3>1, <3>3 DEF Has
      <4>2. work[w].kernel # NoCache
        BY <2>1, <3>1, <4>1 DEF ReachFits, Reaches
      <4>3. work[w].kernel \in LiveCaches
        BY <3>1, <4>2 DEF LiveCaches
      <4>4. KeptFor(w, work[w].kernel) \/ Full(work[w].kernel)
        BY <3>1, <3>3 DEF KeeperFits
      <4> QED BY <2>2, <4>2, <4>3, <4>4 DEF Full
    <3>4. CASE work[w].pc = "async"
      <4>1. PICK k : k = stream_kernel_cache[w[1]]
        OBVIOUS
      <4>2. KeptFor(w, k)
        BY <2>3, <3>1, <3>4, <4>1 DEF KeeperFits, At
      <4>3. k # NoCache
        BY <2>1, <4>2 DEF KeptFor
      <4>4. k \in Range(stream_kernel_cache)
        BY <2>1, <4>1, WorkerParts DEF ReachFits, MapsReach, Range
      <4>5. k \in LiveCaches
        BY <4>3, <4>4 DEF LiveCaches
      <4> QED BY <2>2, <4>2, <4>5
    <3> QED BY <3>2, <3>3, <3>4
  <2> QED BY <2>3 DEF NodeDefAlive
<1> QED BY <1>1, ContextInvariance, HostInvariance, BlockInvariance, PTL
=============================================================================
