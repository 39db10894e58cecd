---------------------------- MODULE PIMScheduler ----------------------------
(***************************************************************************)
(* The PIM scheduler: which request of a buffer get_best_request returns.  *)
(*                                                                         *)
(* open is the bank state (module HBM3PIM).  ready is the set of pairs     *)
(* <<command, bank>> that check_ready accepts this cycle: the timing       *)
(* constraints are abstracted to that set, which may be any.  A request    *)
(* also has the field arrive, the cycle it entered the controller.         *)
(***************************************************************************)
EXTENDS HBM3PIM, Sequences, SequencesExt

\* BARRIER appears in no timing constraint: it is ready in every cycle.
check_ready(open, ready, r) ==
  \/ r.cmd = "BARRIER"
  \/ <<get_preq_command(open, r), r.bank>> \in ready

IsHit(open, r) == check_rowbuffer_hit(get_preq_command(open, r))

\* Wrong: the open rows of the buffer are not looked up.
rowhit_list_None(open, q) == {}

\* The banks of the requests that hit an open row of the buffer.
rowhit_list(open, q) == {q[j].bank : j \in {k \in DOMAIN q : IsHit(open, q[k])}}

\* Wrong: the front request is removed whatever it is.
DropBarrier_Any(q) == IF q # <<>> THEN Tail(q) ELSE q

\* A barrier at the front of the buffer is removed before the search.
DropBarrier(q) ==
  IF q # <<>> /\ Head(q).cmd = "BARRIER" THEN Tail(q) ELSE q

\* Wrong: barriers are not looked for; or one is noticed one request too late.
Compared_All(open, q) == DOMAIN q
Compared_Late(open, q) ==
  {i \in DOMAIN q :
     \/ i = 1
     \/ \A k \in 2 .. i - 1 : q[k].cmd # "BARRIER"
     \/ get_preq_command(open, q[i]) \in Opening \cup Closing}

\* The front request is always a candidate.  A later one is compared when no
\* barrier lies between, or when it needs to open or close a row.
Compared(open, q) ==
  {i \in DOMAIN q :
     \/ i = 1
     \/ \A k \in 2 .. i : q[k].cmd # "BARRIER"
     \/ get_preq_command(open, q[i]) \in Opening \cup Closing}

\* A ready request takes over from one that is not, unless it would disturb
\* a bank whose open row some request of the buffer still hits.
TakesOver(open, ready, q) ==
  LET hits == rowhit_list(open, q) IN
  {i \in Compared(open, q) :
     /\ check_ready(open, ready, q[i])
     /\ i = 1 \/ IsHit(open, q[i]) \/ q[i].bank \notin hits}

\* Once a ready request has taken over only ready ones compete, before that
\* only the others do.
Competing(open, ready, q) ==
  LET takes == TakesOver(open, ready, q) IN
  {i \in Compared(open, q) :
     IF takes = {} THEN ~ check_ready(open, ready, q[i])
     ELSE check_ready(open, ready, q[i]) /\ \E t \in takes : t <= i}

\* Of two that compete the one that arrived first wins (compare), and the one
\* further to the front if they arrived together.
Wins(q, i, j) == q[i].arrive < q[j].arrive \/ (q[i].arrive = q[j].arrive /\ i <= j)

\* The index that get_best_request returns for a buffer q whose front barrier
\* has been dropped: a set of one index, empty for an empty buffer.
get_best_request(open, ready, q) ==
  LET C == Competing(open, ready, q) IN {i \in C : \A j \in C : Wins(q, i, j)}
=============================================================================
