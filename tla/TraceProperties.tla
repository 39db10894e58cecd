-------------------------- MODULE TraceProperties --------------------------
(***************************************************************************)
(* What the traces are relied upon for.  The controller keeps no order     *)
(* between commands of one channel but that of the barriers: a command     *)
(* that uses the result of another must be separated from it by one.       *)
(***************************************************************************)
EXTENDS AttentionTrace, FiniteSets

TypeOK ==
  /\ level \in Generators /\ L \in Lengths /\ dhead \in Dheads /\ n_head_per_hbm \in Heads
  /\ stage \in {"query", "score0", "score1", "context0", "context1", "single_query",
                "single_score", "single_softmax", "single_context", "done"}
  /\ i \in 0 .. num_itr
  /\ j \in Nat
  /\ total_cmd \in Seq((Kinds \cup {"barrier", "dummy_mac"}) \X (0 .. num_itr) \X Nat)

\* The positions of the commands of a kind and an iteration.
At(kind, h) == {p \in DOMAIN total_cmd : total_cmd[p][1] = kind /\ total_cmd[p][2] = h}
Number(p) == total_cmd[p][3]

\* A barrier lies between positions p and q.
Separated(p, q) == \E b \in p + 1 .. q - 1 : total_cmd[b] = Barrier[1]

Iterations == 0 .. num_itr - 1

\* A score is computed from the vector of its own head only: every WR_GB of
\* the head comes before its MACs, although the two are emitted in loops that
\* overlap with those of the other head.
ScoreAfterQuery ==
  \A h \in Iterations : \A p \in At("score_wrgb", h), q \in At("score_mac", h) : Separated(p, q)

\* Results are moved out only after the MACs that produce them, and every
\* group of MACs waits for the moves of the last but one group (the softmax
\* buffer takes the results of two groups).
MoveAfterMac ==
  /\ \A h \in Iterations : \A p \in At("score_mac", h), q \in At("score_mvsb", h) :
       Number(p) \div n_group = Number(q) => Separated(p, q)
  /\ \A h \in Iterations : \A q \in At("context_mvsb", h) :
       \E p \in At("context_mac", h) : Number(p) = Number(q) /\ Separated(p, q)
  /\ \A h \in Iterations : \A p \in At("score_mac", h), q \in At("score_mvsb", h) :
       Number(p) \div n_group >= Number(q) + 2 => Separated(q, p)

\* From the scores of a head to its context, among the commands of the other
\* head: the softmax takes all scores (their MACs and the moves of every group
\* lie behind a barrier, but for the moves of the last group, which share its
\* epoch), and the context waits for the softmax and for all probabilities.
ContextInOrder ==
  \A h \in Iterations :
    /\ \A f \in At("sfm", h) :
         /\ \A p \in At("score_mac", h) : Separated(p, f)
         /\ \A p \in At("score_mvsb", h) :
              Number(p) + 1 < Listed("score_mvsb", h) => Separated(p, f)
    /\ \A p \in At("sfm", h) \cup At("context_mvgb", h), q \in At("context_mac", h) :
         Separated(p, q)

\* The commands of a list that have been emitted, and whether any was twice.
Emitted(kind, h) == {Number(p) : p \in At(kind, h)}
Once(kind, h) == Cardinality(At(kind, h)) = Cardinality(Emitted(kind, h))

\* At the end every head has been scored: no step, move or softmax is left
\* out or repeated, and of the vectors spread over the loops less than one
\* command per iteration of the loop is missing (the stride is rounded down).
ScoresComplete ==
  stage = "done" => \A h \in Iterations :
    /\ \A kind \in {"score_mac", "score_mvsb", "sfm"} :
         Emitted(kind, h) = 0 .. Listed(kind, h) - 1 /\ Once(kind, h)
    /\ Once("score_wrgb", h) /\ Once("context_mvgb", h)
    /\ Listed("score_wrgb", h) - Cardinality(Emitted("score_wrgb", h)) < score_length
    /\ Listed("context_mvgb", h) - Cardinality(Emitted("context_mvgb", h))
         < half(score_length) + half(Sizes.context)

-----------------------------------------------------------------------------
\* "# Head1: Context" (gen_trace_attacc_bank.py:299): at the end the context of
\* every head has been computed.
EveryContext ==
  stage = "done" => \A h \in Iterations :
    Emitted("context_mac", h) = 0 .. Listed("context_mac", h) - 1
=============================================================================
