------------------------------- MODULE MCLog -------------------------------
(***************************************************************************)
(* Two programs that may be started for different types, constraints and   *)
(* models, with layers of successive generation stages.  The names of some *)
(* of their temporary files are the same.                                  *)
(***************************************************************************)
EXTENDS LogProperties

Setting(pim_type, pc_on, lengths, dhead, k) ==
  [pim_type |-> pim_type, power_constraint |-> pc_on, fast_mode |-> FALSE,
   numOp |-> 6, lengths |-> lengths, dhead |-> dhead, k |-> k]

\* Of the layer of length 2 with the constraint the files are shared; that of
\* length 3 may fail.  The last settings are of a model whose layers have not
\* the head dimension described.
TwoPrograms ==
  [a |-> {Setting("bank", TRUE, <<1, 2>>, 1, 1), Setting("bg", TRUE, <<3>>, 1, 1)},
   b |-> {Setting("buffer", TRUE, <<2>>, 1, 1), Setting("bank", FALSE, <<2>>, 1, 1),
          Setting("bg", TRUE, <<1>>, 2, 1), Setting("bank", TRUE, <<1>>, 2, 1)}]

OneProgram == [a |-> {Setting("bank", TRUE, <<1, 2>>, 1, 1)}]
=============================================================================
