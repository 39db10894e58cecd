---------------------------- MODULE BarrierQueue ----------------------------
(***************************************************************************)
(* What the PIM buffer promises to a trace: requests may leave it in any   *)
(* order, but none passes a barrier, neither forwards nor backwards.  A    *)
(* request is its number and whether it is a barrier.                      *)
(***************************************************************************)
EXTENDS Integers

VARIABLES waiting,  \* the requests in the buffer
          last      \* the last number given out

vars == <<waiting, last>>

Precedes(y, d) == y.id < d.id /\ (y.barrier \/ d.barrier)

Init == waiting = {} /\ last = 0

Submit(barrier) ==
  /\ last' = last + 1
  /\ waiting' = waiting \cup {[id |-> last + 1, barrier |-> barrier]}

\* The number goes to a request of another buffer.
Skip == last' = last + 1 /\ UNCHANGED waiting

\* The requests of D leave together; what a barrier orders before one of
\* them has left or leaves with it.
Retire(D) ==
  /\ \A d \in D, y \in waiting : Precedes(y, d) => y \in D
  /\ waiting' = waiting \ D
  /\ UNCHANGED last

Next ==
  \/ \E barrier \in BOOLEAN : Submit(barrier)
  \/ Skip
  \/ \E D \in SUBSET waiting : Retire(D)

Spec == Init /\ [][Next]_vars
=============================================================================
