--------------------------- MODULE AttentionTrace ---------------------------
(***************************************************************************)
(* The trace generators: the order in which run_attention emits the        *)
(* commands of the attention layer.  A channel works on one head at a time *)
(* and an iteration covers one head of every channel; iterations are       *)
(* emitted in pairs (Head0, Head1) whose stages overlap.  PIM_BARRIERs     *)
(* separate what may not be reordered.                                     *)
(*                                                                         *)
(* The three generators differ in how many commands of each kind a head    *)
(* has (Sizes); their overlap of the stages is the same.  A step of the    *)
(* specification is an iteration of one of the loops over j.  A command is *)
(* its iteration, its kind and its number; the commands of a group of MACs *)
(* or moves (all steps, ranks, channels) stay together and count as one.   *)
(***************************************************************************)
EXTENDS Naturals, Sequences, SequencesExt, Functions

CONSTANTS Generators,  \* which of "bank", "bg", "buffer"
          Lengths,     \* sequence lengths L
          Dheads,      \* dimensions of a head
          Heads,       \* numbers of heads per HBM
          n_channel, n_pch, n_rank, n_bg, n_bank, n_mac,
          n_group      \* MAC steps whose results one group of moves takes: 16

ASSUME TraceAssumption ==
  /\ Generators \subseteq {"bank", "bg", "buffer"}
  /\ Lengths \cup Dheads \cup Heads \subseteq Nat \ {0}
  /\ {n_channel, n_pch, n_rank, n_bg, n_bank, n_mac, n_group} \subseteq Nat \ {0}

VARIABLES
  level, L, dhead, n_head_per_hbm,  \* the arguments of the generator
  stage,      \* the loop that runs: its name
  i,          \* the iteration that is Head0 of the pair
  j,          \* the index of the loop
  total_cmd   \* what has been emitted

args == <<level, L, dhead, n_head_per_hbm>>
vars == <<args, stage, i, j, total_cmd>>

ceil(a, b) == (a + b - 1) \div b

-----------------------------------------------------------------------------
(* The commands of an iteration.                                           *)

num_itr == ceil(n_head_per_hbm, n_channel)

\* The last iteration has fewer heads than there are channels.
valid_channels(h) ==
  IF n_head_per_hbm < (h + 1) * n_channel THEN n_head_per_hbm % n_channel ELSE n_channel

\* Steps of the score and of the context, and vectors per channel written to
\* and moved to the GEMV buffers, where every bank has a processing unit,
BankSizes ==
  [score   |-> ceil(L, n_pch * n_rank * n_bg),
   context |-> ceil(dhead, n_bank * n_mac),
   wrgb    |-> n_bank * ceil(dhead, n_bank * n_mac),
   mvgb    |-> n_rank * n_bg * ceil(L, n_pch * n_rank * n_bg * n_mac)]

\* where every bank group has one,
BgSizes ==
  [score   |-> ceil(L, n_pch * n_rank * n_bg),
   context |-> ceil(dhead, n_mac),
   wrgb    |-> ceil(dhead, n_mac),
   mvgb    |-> n_rank * n_bg * ceil(L, n_pch * n_rank * n_bg * n_mac)]

\* and where the buffer die has one per pseudochannel.
BufferSizes ==
  [score   |-> ceil(L, n_pch),
   context |-> ceil(dhead, n_mac),
   wrgb    |-> ceil(dhead, n_mac),
   mvgb    |-> ceil(L, n_pch * n_mac)]

Sizes == CASE level = "bank"   -> BankSizes
           [] level = "bg"     -> BgSizes
           [] level = "buffer" -> BufferSizes

\* How many commands (or groups of them) of a kind the lists of iteration h have.
Listed(kind, h) ==
  CASE kind = "score_wrgb"   -> Sizes.wrgb * valid_channels(h)
    [] kind = "score_mac"    -> Sizes.score
    [] kind = "score_mvsb"   -> ceil(Sizes.score, n_group)
    [] kind = "sfm"          -> 1
    [] kind = "context_mvgb" -> Sizes.mvgb * valid_channels(h)
    [] kind = "context_mac"  -> Sizes.context
    [] kind = "context_mvsb" -> Sizes.context

Kinds == {"score_wrgb", "score_mac", "score_mvsb", "sfm",
          "context_mvgb", "context_mac", "context_mvsb"}

\* Up to count commands of a list, from number first (from 0) on.
Cmds(kind, h, first, count) ==
  LET left == IF first < Listed(kind, h) THEN Listed(kind, h) - first ELSE 0
  IN [k \in 1 .. (IF count < left THEN count ELSE left) |-> <<kind, h, first + k - 1>>]

All(kind, h) == Cmds(kind, h, 0, Listed(kind, h))

Barrier == <<<<"barrier", 0, 0>>>>

-----------------------------------------------------------------------------
(* What one iteration of the loops emits, by the comments of the code.     *)

score_length == ceil(Sizes.score, n_group)
half(n) == ceil(n, 2)

\* ## MAC, in groups of n_group steps
ScoreMacs(h) == Cmds("score_mac", h, j * n_group, n_group)

\* Wrong: the moves of the group whose MACs are emitted in the same iteration.
Moves_Early(kind, h) == Cmds(kind, h, j, 1)

\* ## MVSB, one iteration behind the MACs
Moves(kind, h) == IF j = 0 THEN <<>> ELSE Cmds(kind, h, j - 1, 1)

\* Wrong: one iteration less than the loop has.
WriteAhead_Short(h) ==
  LET stride == Listed("score_wrgb", h) \div score_length
  IN IF j + 1 < score_length THEN Cmds("score_wrgb", h, j * stride, stride) ELSE <<>>

\* Wrong: one iteration late, so that the last one has no barrier behind it.
WriteAhead_Late(h) ==
  LET stride == Listed("score_wrgb", h) \div score_length
  IN IF j > 0 THEN Cmds("score_wrgb", h, (j - 1) * stride, stride) ELSE <<>>

\* ## WRGB (Head1), spread over the iterations of the score of Head0
WriteAhead(h) ==
  LET stride == Listed("score_wrgb", h) \div score_length
  IN IF j < score_length THEN Cmds("score_wrgb", h, j * stride, stride) ELSE <<>>

\* Wrong: spread over all iterations, the last one (without barrier) too.
MoveAhead_Late(h, length) ==
  LET stride == Listed("context_mvgb", h) \div half(length)
      from   == length \div 2 + 1
  IN IF j >= from THEN Cmds("context_mvgb", h, (j - from) * stride, stride) ELSE <<>>

\* ## MVGB, spread over the second half of the iterations
MoveAhead(h, length) ==
  LET stride == Listed("context_mvgb", h) \div half(length)
  IN IF j < length /\ j >= length \div 2
     THEN Cmds("context_mvgb", h, (j - length \div 2) * stride, stride) ELSE <<>>

\* Wrong: with the last moves, where no barrier follows.
Softmax_Late(h) == IF j = score_length THEN All("sfm", h) ELSE <<>>

\* ## SFM, in the first iteration
Softmax(h) == IF j = 0 THEN All("sfm", h) ELSE <<>>

\* ## BARRIER, but for the last iteration
Barriers(length) == IF j < length THEN Barrier ELSE <<>>

\* An iteration of a loop over j in 0 .. length that emits cmds.
Loop(name, length, cmds, next) ==
  /\ stage = name
  /\ total_cmd' = total_cmd \o cmds \o Barriers(length)
  /\ IF j < length
     THEN j' = j + 1 /\ UNCHANGED <<stage, i>>
     ELSE j' = 0 /\ next
  /\ UNCHANGED args

GoTo(name) == stage' = name /\ UNCHANGED i

\* Wrong: an odd number of iterations is filled up to a pair.
Continue_FillsPair(n) ==
  /\ i' = n
  /\ stage' = IF n < num_itr THEN "query" ELSE "done"

\* The pair or the single iteration that comes after iteration n - 1.
Continue(n) ==
  /\ i' = n
  /\ stage' = IF n + 1 < num_itr THEN "query"
              ELSE IF n < num_itr THEN "single_query" ELSE "done"

-----------------------------------------------------------------------------
Init ==
  /\ level \in Generators
  /\ L \in Lengths
  /\ dhead \in Dheads
  /\ n_head_per_hbm \in Heads
  /\ i = 0
  /\ stage = IF 1 < num_itr THEN "query" ELSE "single_query"
  /\ j = 0
  /\ total_cmd = <<>>

\* Head0: the vector of the query; the first pair starts with a dummy MAC.
Query ==
  /\ stage = "query"
  /\ total_cmd' = total_cmd \o All("score_wrgb", i)
                  \o (IF i = 0 THEN <<<<"dummy_mac", 0, 0>>>> ELSE <<>>) \o Barrier
  /\ GoTo("score0")
  /\ UNCHANGED <<args, j>>

\* Head0: Score
Score0 ==
  Loop("score0", score_length,
       ScoreMacs(i) \o Moves("score_mvsb", i) \o WriteAhead(i + 1),
       GoTo("score1"))

\* Head0: SoftMax, Head1: Score
Score1 ==
  Loop("score1", score_length,
       ScoreMacs(i + 1) \o Moves("score_mvsb", i + 1) \o Softmax(i) \o MoveAhead(i, score_length),
       GoTo("context0"))

\* Head0: Context, Head1: SoftMax
Context0 ==
  Loop("context0", Sizes.context,
       Cmds("context_mac", i, j, 1) \o Moves("context_mvsb", i) \o Softmax(i + 1)
         \o MoveAhead(i + 1, Sizes.context),
       GoTo("context1"))

\* "Head1: Context": the commands emitted are those of Head0.
Context1 ==
  Loop("context1", Sizes.context,
       Cmds("context_mac", i, j, 1) \o Moves("context_mvsb", i),
       Continue(i + 2))

\* An iteration without partner: its stages follow one another.
SingleQuery ==
  /\ stage = "single_query"
  /\ total_cmd' = total_cmd \o All("score_wrgb", i) \o Barrier
  /\ GoTo("single_score")
  /\ UNCHANGED <<args, j>>

SingleScore ==
  Loop("single_score", score_length, ScoreMacs(i) \o Moves("score_mvsb", i), GoTo("single_softmax"))

SingleSoftmax ==
  /\ stage = "single_softmax"
  /\ total_cmd' = total_cmd \o All("sfm", i) \o All("context_mvgb", i) \o Barrier
  /\ GoTo("single_context")
  /\ UNCHANGED <<args, j>>

SingleContext ==
  Loop("single_context", Sizes.context,
       Cmds("context_mac", i, j, 1) \o Moves("context_mvsb", i),
       Continue(i + 1))

Next ==
  \/ Query \/ Score0 \/ Score1 \/ Context0 \/ Context1
  \/ SingleQuery \/ SingleScore \/ SingleSoftmax \/ SingleContext

Spec == Init /\ [][Next]_vars
=============================================================================
