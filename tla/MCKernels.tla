----------------------------- MODULE MCKernels -----------------------------
(* Values of the constants of Kernels.                                     *)
EXTENDS Kernels

\* Two versions of the configuration, with the same file.
MCPath == <<[o1 |-> "p1"], [o1 |-> "p1"]>>

MCDeviceOf == [r1 |-> "d1", r2 |-> "d2"]

\* l1 is repeatable and clears outputs, l2 is static, l3's binary has no
\* workspace, l4 was given its workspace and is repeatable.
MCBinOf == [l1 |-> "b1", l2 |-> "b2", l3 |-> "b3", l4 |-> "b1"]
MCKeyOf == [l1 |-> "k1", l2 |-> "only", l3 |-> "k1", l4 |-> "k2"]

\* l1 has outputs of two types.
MCOutTypes == [l1 |-> <<"FLOAT", "BF16">>, l2 |-> <<"FLOAT">>, l3 |-> <<>>, l4 |-> <<"FLOAT">>]

Play(r, l, n) == [runners |-> r, launchers |-> l, failures |-> n]
MCCast == { Play({}, {}, 0),
            Play({"r1", "r2"}, {"l1", "l2"}, 0),
            Play({"r1", "r2"}, {"l1"}, 2),
            Play({"r1"}, {"l1", "l2"}, 2),
            Play({"r1"}, {"l1", "l3"}, 1),
            Play({"r1", "r2"}, {"l4"}, 1),
            Play({"r1"}, {"l1", "l4"}, 0) }

Asks(kind, d) == [kind |-> kind, dim |-> d]
MCAsked == << {Asks("composite", 5), Asks("mixAiCore", 2)},
              {Asks("mixAiv", 5)},
              {Asks("composite", 2)} >>
=============================================================================
