---------------------------- MODULE MCScheduler ----------------------------
(***************************************************************************)
(* The scheduler on two banks, one of them open: a hit, a conflict, a      *)
(* closed bank and a barrier.                                              *)
(***************************************************************************)
EXTENDS PIMSchedulerLoop

OneOpen == [b \in Bank |-> IF b[4] = 0 THEN {1} ELSE {}]

HitConflictClosedBarrier ==
  {[cmd |-> "RD", bank |-> <<0, 0, 0, 0>>, row |-> 1],
   [cmd |-> "RD", bank |-> <<0, 0, 0, 0>>, row |-> 2],
   [cmd |-> "RD", bank |-> <<0, 0, 0, 1>>, row |-> 1],
   [cmd |-> "BARRIER", bank |-> <<0, 0, 0, 0>>, row |-> 1]}
=============================================================================
