-------------------------- MODULE PIMSchedulerLoop --------------------------
(***************************************************************************)
(* The loop of the PIM scheduler as the code runs it, compare by compare,  *)
(* against the declarative choice that module PIMScheduler states.  The    *)
(* buffer is filled one request at a time in front of a fixed bank state.  *)
(***************************************************************************)
EXTENDS PIMScheduler

CONSTANTS Templates,   \* requests without an arrival time
          MaxArrive,   \* arrival times
          MaxLen,      \* bound: requests in the buffer
          Open         \* the bank state

VARIABLES q,      \* the buffer
          ready   \* the pairs <<command, bank>> that are ready

vars == <<q, ready>>

\* Wrong: of two that arrived together the later one.
compare_Strict(b, req1, req2) ==
  LET ready1 == check_ready(Open, ready, b[req1])
      ready2 == check_ready(Open, ready, b[req2])
      guarded == ~ IsHit(Open, b[req2]) /\ b[req2].bank \in rowhit_list(Open, b)
  IN IF ready1 # ready2
     THEN IF ready1 \/ guarded THEN req1 ELSE req2
     ELSE IF b[req1].arrive < b[req2].arrive THEN req1 ELSE req2

\* compare(req1, req2) on indices of the buffer b.
compare(b, req1, req2) ==
  LET ready1 == check_ready(Open, ready, b[req1])
      ready2 == check_ready(Open, ready, b[req2])
      guarded == ~ IsHit(Open, b[req2]) /\ b[req2].bank \in rowhit_list(Open, b)
  IN IF ready1 # ready2
     THEN IF ready1 \/ guarded THEN req1 ELSE req2
     ELSE IF b[req1].arrive <= b[req2].arrive THEN req1 ELSE req2

\* The candidate after the loop has seen the first n requests of b.
candidate(b) ==
  LET after[n \in 1 .. Len(b)] ==
        IF n = 1 THEN 1
        ELSE LET barrier == \E k \in 2 .. n : b[k].cmd = "BARRIER"
                 moves == get_preq_command(Open, b[n]) \in Opening \cup Closing
             IN IF ~ barrier \/ moves THEN compare(b, after[n - 1], n) ELSE after[n - 1]
  IN after[Len(b)]

Asked == {<<get_preq_command(Open, t), t.bank>> : t \in {x \in Templates : x.cmd # "BARRIER"}}

Init == q = <<>> /\ ready \in SUBSET Asked

Enqueue(t, time) ==
  /\ Len(q) < MaxLen
  /\ q' = Append(q, [cmd |-> t.cmd, bank |-> t.bank, row |-> t.row, arrive |-> time])
  /\ UNCHANGED ready

Next == \E t \in Templates, time \in 0 .. MaxArrive : Enqueue(t, time)

Spec == Init /\ [][Next]_vars

\* The loop returns exactly the request that the declarative choice names,
\* whatever the order of arrivals, hits, conflicts and barriers in the buffer.
LoopAgrees ==
  LET b == DropBarrier(q) IN
  get_best_request(Open, ready, b) = IF b = <<>> THEN {} ELSE {candidate(b)}
=============================================================================
