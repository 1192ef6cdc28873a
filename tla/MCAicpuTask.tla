----------------------------- MODULE MCAicpuTask -----------------------------
(* AicpuTask on a small instance. *)
EXTENDS AicpuTask

CONSTANTS s1, s2

MCSession == {0, 1}

\* Launches the host of this project never makes: with blocks and a workspace,
\* asynchronous (under a stream, in a session and without a session record),
\* of another session, and without a session record.  Their nodes have numbers
\* beyond those of the tasks.
Blocked == [stream |-> s2, node |-> 101, blocks |-> 2,
            ext |-> << Entry("session_info", SessionInfo(0, 2, FALSE)),
                       Entry("bitmap", 1), Entry("workspace", 3) >>]
Async == [stream |-> s2, node |-> 102, blocks |-> 0,
          ext |-> << Entry("bitmap", 1), Entry("async_wait", TRUE),
                     Entry("session_info", SessionInfo(0, 3, FALSE)) >>]
Other == [stream |-> s1, node |-> 103, blocks |-> 1,
          ext |-> << Entry("session_info", SessionInfo(1, 4, TRUE)),
                     Entry("bitmap", 1) >>]
Direct == [stream |-> s2, node |-> 104, blocks |-> 0, ext |-> << Entry("bitmap", 1) >>]
AsyncDirect == [stream |-> s1, node |-> 106, blocks |-> 0,
                ext |-> << Entry("bitmap", 1), Entry("async_wait", TRUE) >>]
AsyncSession == [stream |-> s2, node |-> 107, blocks |-> 1,
                 ext |-> << Entry("bitmap", 1), Entry("async_wait", TRUE),
                            Entry("session_info", SessionInfo(1, 5, TRUE)) >>]
Broken == [stream |-> s2, node |-> 105, blocks |-> 1, ext |-> << Entry("bad", 0) >>]

MCForeign == {Blocked, Async, Other, Direct, AsyncDirect, AsyncSession, Broken}
MCBudgets ==
    {[own |-> 3, foreign |-> 0, fails |-> 0, shapes |-> {<<2>>}],
     [own |-> 2, foreign |-> 0, fails |-> 1, shapes |-> {<<2>>}],
     [own |-> 2, foreign |-> 0, fails |-> 0, shapes |-> {<<2>>, <<1, 2>>}],
     [own |-> 1, foreign |-> 1, fails |-> 0, shapes |-> {<<2>>}],
     [own |-> 0, foreign |-> 3, fails |-> 1, shapes |-> {}]}
Symmetry == Permutations(Executor)
==============================================================================
