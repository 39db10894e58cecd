----------------------------- MODULE TraceProofs -----------------------------
(***************************************************************************)
(* Proofs about the traces, for every sequence length, dimension and       *)
(* number of heads and every organization of the memory.                   *)
(***************************************************************************)
EXTENDS TraceProperties, SequenceTheorems, FiniteSetTheorems, TLAPS

Command == (Kinds \cup {"barrier", "dummy_mac"}) \X (0 .. num_itr) \X Nat

-----------------------------------------------------------------------------
(* Arithmetic. *)

\* Division that rounds up.
LEMMA CeilProperties ==
  ASSUME NEW a \in Nat, NEW b \in Nat \ {0}
  PROVE  /\ ceil(a, b) \in Nat
         /\ a <= ceil(a, b) * b
         /\ a > 0 => ceil(a, b) > 0
<1>1. /\ (a + b - 1) \div b \in Nat
      /\ a <= ((a + b - 1) \div b) * b
      /\ a > 0 => (a + b - 1) \div b > 0
  OBVIOUS
<1> QED BY <1>1 DEF ceil

\* The numbers of a group of MACs.
LEMMA GroupOf ==
  ASSUME NEW m \in Nat \ {0}, NEW g \in Nat, NEW n \in Nat, g * m <= n, n < g * m + m
  PROVE  n \div m = g
<1>1. PICK k \in Nat : k = n - g * m
  OBVIOUS
<1>2. k < m /\ n = g * m + k
  BY <1>1
<1>3. (g * m + k) \div m = g
  BY <1>2
<1> QED BY <1>2, <1>3

LEMMA Quotient ==
  ASSUME NEW a \in Nat, NEW b \in Nat \ {0}
  PROVE  a \div b \in Nat
OBVIOUS

-----------------------------------------------------------------------------
(* Sequences of commands. *)

LEMMA ToSetByIndex ==
  ASSUME NEW S, NEW s \in Seq(S)
  PROVE  ToSet(s) = {s[p] : p \in 1 .. Len(s)} /\ Len(s) \in Nat
BY LenProperties DEF ToSet

LEMMA ToSetConcat ==
  ASSUME NEW S, NEW s \in Seq(S), NEW t \in Seq(S)
  PROVE  /\ s \o t \in Seq(S)
         /\ ToSet(s \o t) = ToSet(s) \cup ToSet(t)
<1>1. /\ s \o t \in Seq(S)
      /\ Len(s) \in Nat /\ Len(t) \in Nat
      /\ Len(s \o t) = Len(s) + Len(t)
      /\ \A p \in 1 .. Len(s) + Len(t) : (s \o t)[p] = IF p <= Len(s) THEN s[p] ELSE t[p - Len(s)]
  BY ConcatProperties, LenProperties
<1>2. ToSet(s \o t) = {(s \o t)[p] : p \in 1 .. Len(s) + Len(t)}
  BY <1>1, ToSetByIndex
<1>3. ASSUME NEW x \in ToSet(s \o t) PROVE x \in ToSet(s) \cup ToSet(t)
  <2>1. PICK p \in 1 .. Len(s) + Len(t) : x = (s \o t)[p]
    BY <1>2
  <2>2. CASE p <= Len(s)
    BY <1>1, <2>1, <2>2, ToSetByIndex
  <2>3. CASE ~ (p <= Len(s))
    <3>1. p - Len(s) \in 1 .. Len(t) /\ x = t[p - Len(s)]
      BY <1>1, <2>1, <2>3
    <3> QED BY <3>1, ToSetByIndex
  <2> QED BY <2>2, <2>3
<1>4. ASSUME NEW x \in ToSet(s) PROVE x \in ToSet(s \o t)
  <2>1. PICK p \in 1 .. Len(s) : x = s[p]
    BY ToSetByIndex
  <2>2. p \in 1 .. Len(s) + Len(t) /\ (s \o t)[p] = x
    BY <1>1, <2>1
  <2> QED BY <1>2, <2>2
<1>5. ASSUME NEW x \in ToSet(t) PROVE x \in ToSet(s \o t)
  <2>1. PICK p \in 1 .. Len(t) : x = t[p]
    BY ToSetByIndex
  <2>2. /\ p + Len(s) \in 1 .. Len(s) + Len(t)
        /\ ~ (p + Len(s) <= Len(s))
        /\ p + Len(s) - Len(s) = p
    BY <1>1
  <2>3. (s \o t)[p + Len(s)] = x
    BY <1>1, <2>1, <2>2
  <2> QED BY <1>2, <2>2, <2>3
<1> QED BY <1>1, <1>3, <1>4, <1>5

-----------------------------------------------------------------------------
(* The order of a trace.                                                   *)

\* Command y uses what command x of the same head leaves, or its place.
Depends(y, x) ==
  /\ x[2] = y[2]
  /\ \/ x[1] = "score_wrgb" /\ y[1] = "score_mac"
     \/ x[1] = "score_mac" /\ y[1] = "score_mvsb" /\ x[3] \div n_group = y[3]
     \/ x[1] = "score_mvsb" /\ y[1] = "score_mac" /\ y[3] \div n_group >= x[3] + 2
     \/ x[1] = "context_mvgb" /\ y[1] = "context_mac"
     \/ x[1] = "score_mac" /\ y[1] = "sfm"
     \/ x[1] = "score_mvsb" /\ y[1] = "sfm" /\ x[3] + 1 < score_length
     \/ x[1] = "sfm" /\ y[1] = "context_mac"

\* A barrier lies behind position p of s.
Behind(s, p) == \E b \in p + 1 .. Len(s) : s[b] = Barrier[1]

Respected(s) ==
  \A p, q \in 1 .. Len(s) :
    Depends(s[q], s[p]) => \E b \in p + 1 .. q - 1 : s[b] = Barrier[1]

\* The commands that have a barrier behind them in the iteration they belong to.
NeedsBarrier(x) ==
  \/ x[1] \in {"score_wrgb", "score_mac", "sfm", "context_mvgb"}
  \/ x[1] = "score_mvsb" /\ x[3] + 1 < score_length

Fenced(s) == \A p \in 1 .. Len(s) : NeedsBarrier(s[p]) => Behind(s, p)

\* Commands t are emitted.
LEMMA RespectedConcat ==
  ASSUME NEW S, NEW s \in Seq(S), NEW t \in Seq(S), Respected(s), Fenced(s),
         \A x \in ToSet(t), y \in ToSet(s) \cup ToSet(t) : ~ Depends(y, x),
         \A x \in ToSet(s), y \in ToSet(t) : Depends(y, x) => NeedsBarrier(x)
  PROVE  Respected(s \o t)
<1> DEFINE u == s \o t
<1>1. /\ Len(s) \in Nat /\ Len(t) \in Nat
      /\ Len(u) = Len(s) + Len(t)
      /\ \A p \in 1 .. Len(s) : u[p] = s[p]
      /\ \A p \in Len(s) + 1 .. Len(u) : p - Len(s) \in 1 .. Len(t) /\ u[p] = t[p - Len(s)]
  BY ConcatProperties, LenProperties
<1> HIDE DEF u
<1>2. /\ \A p \in 1 .. Len(s) : u[p] \in ToSet(s)
      /\ \A p \in Len(s) + 1 .. Len(u) : u[p] \in ToSet(t)
  BY <1>1, ToSetByIndex
<1> SUFFICES ASSUME NEW p \in 1 .. Len(u), NEW q \in 1 .. Len(u), Depends(u[q], u[p])
             PROVE  \E b \in p + 1 .. q - 1 : u[b] = Barrier[1]
  BY DEF Respected, u
<1>3. p \in 1 .. Len(s)
  <2>1. CASE p \in Len(s) + 1 .. Len(u)
    <3>1. u[p] \in ToSet(t) /\ u[q] \in ToSet(s) \cup ToSet(t)
      BY <1>1, <1>2, <2>1
    <3> QED BY <3>1
  <2> QED BY <1>1, <2>1
<1>4. CASE q \in 1 .. Len(s)
  <2>1. PICK b \in p + 1 .. q - 1 : s[b] = Barrier[1]
    BY <1>1, <1>3, <1>4 DEF Respected
  <2>2. b \in 1 .. Len(s)
    BY <1>1, <1>3, <1>4
  <2> QED BY <1>1, <2>1, <2>2
<1>5. CASE q \in Len(s) + 1 .. Len(u)
  <2>1. NeedsBarrier(u[p])
    BY <1>2, <1>3, <1>5
  <2>2. PICK b \in p + 1 .. Len(s) : s[b] = Barrier[1]
    BY <1>1, <1>3, <2>1 DEF Fenced, Behind
  <2>3. b \in 1 .. Len(s) /\ b \in p + 1 .. q - 1
    BY <1>1, <1>3, <1>5
  <2> QED BY <1>1, <2>2, <2>3
<1> QED BY <1>1, <1>4, <1>5

\* They end with a barrier, or need none.
LEMMA FencedConcat ==
  ASSUME NEW S, NEW s \in Seq(S), NEW t \in Seq(S), Fenced(s),
         \/ \A x \in ToSet(t) : ~ NeedsBarrier(x)
         \/ t # <<>> /\ t[Len(t)] = Barrier[1]
  PROVE  /\ Fenced(s \o t)
         /\ \A p \in 1 .. Len(s) : Behind(s, p) => Behind(s \o t, p)
<1> DEFINE u == s \o t
<1>1. /\ Len(s) \in Nat /\ Len(t) \in Nat
      /\ Len(u) = Len(s) + Len(t)
      /\ \A p \in 1 .. Len(s) : u[p] = s[p]
      /\ \A p \in Len(s) + 1 .. Len(u) : p - Len(s) \in 1 .. Len(t) /\ u[p] = t[p - Len(s)]
  BY ConcatProperties, LenProperties
<1> HIDE DEF u
<1>2. ASSUME NEW p \in 1 .. Len(s), Behind(s, p) PROVE Behind(u, p)
  <2>1. PICK b \in p + 1 .. Len(s) : s[b] = Barrier[1]
    BY <1>2 DEF Behind
  <2>2. b \in 1 .. Len(s) /\ b \in p + 1 .. Len(u)
    BY <1>1
  <2> QED BY <1>1, <2>1, <2>2 DEF Behind
<1>3. ASSUME NEW p \in 1 .. Len(u), NeedsBarrier(u[p]) PROVE Behind(u, p)
  <2>1. CASE p \in 1 .. Len(s)
    BY <1>1, <1>2, <1>3, <2>1 DEF Fenced
  <2>2. CASE p \in Len(s) + 1 .. Len(u) /\ \A x \in ToSet(t) : ~ NeedsBarrier(x)
    BY <1>1, <1>3, <2>2, ToSetByIndex
  <2>3. CASE p \in Len(s) + 1 .. Len(u) /\ t # <<>> /\ t[Len(t)] = Barrier[1]
    <3>1. Len(u) \in Len(s) + 1 .. Len(u) /\ Len(u) - Len(s) = Len(t)
      BY <1>1, <2>3
    <3>2. u[Len(u)] = Barrier[1]
      BY <1>1, <2>3, <3>1
    <3>3. u[p] # Barrier[1]
      BY <1>3 DEF NeedsBarrier, Barrier
    <3>4. p # Len(u)
      BY <3>2, <3>3
    <3>5. Len(u) \in p + 1 .. Len(u)
      BY <1>1, <3>4
    <3> QED BY <3>2, <3>5 DEF Behind
  <2> QED BY <1>1, <2>1, <2>2, <2>3
<1> QED BY <1>2, <1>3 DEF Fenced, u

-----------------------------------------------------------------------------
(* How far each head has got.                                              *)

Stages == {"query", "score0", "score1", "context0", "context1", "single_query",
           "single_score", "single_softmax", "single_context", "done"}
ContextStages == {"context0", "context1", "single_context"}

\* Head h is being scored, or has been.
Scoring(st, k, h) ==
  \/ h = k /\ st \in {"score0", "single_score"}
  \/ h = k + 1 /\ st = "score1"
Scored(st, k, h) ==
  \/ h < k
  \/ h = k /\ st \in {"score1", "single_softmax"} \cup ContextStages
  \/ h = k + 1 /\ st \in {"context0", "context1"}

\* Groups of MACs and of moves that its score has emitted.
Groups(st, k, l, h) ==
  IF Scored(st, k, h) THEN score_length ELSE IF Scoring(st, k, h) THEN l ELSE 0
Moved(st, k, l, h) ==
  IF Scored(st, k, h) THEN score_length
  ELSE IF Scoring(st, k, h) /\ l > 0 THEN l - 1 ELSE 0

\* Its context has begun.
Begun(st, k, h) == h < k \/ (h = k /\ st \in ContextStages)

\* What a trace s may hold when stage st of iteration k has reached index l.
Reached(st, k, l, x) ==
  /\ x[1] = "score_mac" => x[3] \div n_group < Groups(st, k, l, x[2])
  /\ x[1] = "score_mvsb" => x[3] < Moved(st, k, l, x[2])
  /\ x[1] = "sfm" => Scored(st, k, x[2])
  /\ x[1] = "context_mac" => Begun(st, k, x[2])

\* A move of the context has the MAC it follows behind a barrier.
FollowsMac(s) ==
  \A q \in 1 .. Len(s) : s[q][1] = "context_mvsb" =>
    \E p \in 1 .. Len(s) :
      /\ s[p] = <<"context_mac", s[q][2], s[q][3]>>
      /\ \E b \in p + 1 .. q - 1 : s[b] = Barrier[1]

Control(st, k, l) ==
  /\ st \in Stages
  /\ k \in 0 .. num_itr
  /\ st # "done" => k < num_itr
  /\ st \in {"query", "score0", "score1", "context0", "context1"} => k + 1 < num_itr
  /\ l \in Nat
  /\ st \in {"query", "single_query", "single_softmax", "done"} => l = 0
  /\ st \in {"score0", "score1", "single_score"} => l <= score_length
  /\ st \in ContextStages => l <= Sizes.context

Holds(s, st, k, l) ==
  /\ Control(st, k, l)
  /\ s \in Seq(Command)
  /\ \A x \in ToSet(s) : Reached(st, k, l, x)
  /\ Respected(s)
  /\ Fenced(s)
  /\ FollowsMac(s)
  /\ st \in ContextStages /\ l > 0 =>
       \E p \in 1 .. Len(s) : s[p] = <<"context_mac", k, l - 1>> /\ Behind(s, p)

ArgsTyped == level \in Generators /\ L \in Lengths /\ dhead \in Dheads /\ n_head_per_hbm \in Heads

\* The inductive invariant.
TraceInv == ArgsTyped /\ Holds(total_cmd, stage, i, j)

-----------------------------------------------------------------------------
(* The lists of commands. *)

LEMMA NumItr ==
  ASSUME ArgsTyped
  PROVE  num_itr \in Nat \ {0}
<1>1. n_head_per_hbm \in Nat \ {0} /\ n_channel \in Nat \ {0}
  BY TraceAssumption DEF TraceAssumption, ArgsTyped
<1> QED BY <1>1, CeilProperties DEF num_itr

LEMMA SizesType ==
  ASSUME ArgsTyped
  PROVE  /\ Sizes.score \in Nat \ {0} /\ Sizes.context \in Nat \ {0}
         /\ Sizes.wrgb \in Nat /\ Sizes.mvgb \in Nat
<1>1. /\ L \in Nat \ {0} /\ dhead \in Nat \ {0}
      /\ n_pch \in Nat \ {0} /\ n_rank \in Nat \ {0} /\ n_bg \in Nat \ {0}
      /\ n_bank \in Nat \ {0} /\ n_mac \in Nat \ {0}
      /\ level \in {"bank", "bg", "buffer"}
  BY TraceAssumption DEF TraceAssumption, ArgsTyped
<1>2. \A a, b \in Nat \ {0} : a * b \in Nat \ {0}
  OBVIOUS
<1>3. \A a, b \in Nat \ {0} : ceil(a, b) \in Nat \ {0}
  BY CeilProperties
<1>4. \A a, b \in Nat : a * b \in Nat
  OBVIOUS
<1> DEFINE pr == n_pch * n_rank
           prg == n_pch * n_rank * n_bg
           prgm == n_pch * n_rank * n_bg * n_mac
           bm == n_bank * n_mac
           rg == n_rank * n_bg
           pm == n_pch * n_mac
<1>5. pr \in Nat \ {0} /\ prg \in Nat \ {0} /\ prgm \in Nat \ {0} /\ bm \in Nat \ {0}
      /\ rg \in Nat \ {0} /\ pm \in Nat \ {0}
  <2>1. pr \in Nat \ {0} /\ bm \in Nat \ {0} /\ rg \in Nat \ {0} /\ pm \in Nat \ {0}
    BY <1>1, <1>2
  <2>2. prg = pr * n_bg /\ prgm = prg * n_mac
    OBVIOUS
  <2> HIDE DEF pr, prg, prgm
  <2> QED BY <1>1, <1>2, <2>1, <2>2
<1>6. BankSizes.score = ceil(L, prg) /\ BankSizes.context = ceil(dhead, bm)
      /\ BankSizes.wrgb = n_bank * ceil(dhead, bm) /\ BankSizes.mvgb = rg * ceil(L, prgm)
  BY DEF BankSizes
<1>7. BgSizes.score = ceil(L, prg) /\ BgSizes.context = ceil(dhead, n_mac)
      /\ BgSizes.wrgb = ceil(dhead, n_mac) /\ BgSizes.mvgb = rg * ceil(L, prgm)
  BY DEF BgSizes
<1>8. BufferSizes.score = ceil(L, n_pch) /\ BufferSizes.context = ceil(dhead, n_mac)
      /\ BufferSizes.wrgb = ceil(dhead, n_mac) /\ BufferSizes.mvgb = ceil(L, pm)
  BY DEF BufferSizes
<1> HIDE DEF pr, prg, prgm, bm, rg, pm
<1>9. ceil(L, prg) \in Nat \ {0} /\ ceil(dhead, bm) \in Nat \ {0} /\ ceil(L, prgm) \in Nat \ {0}
      /\ ceil(dhead, n_mac) \in Nat \ {0} /\ ceil(L, n_pch) \in Nat \ {0} /\ ceil(L, pm) \in Nat \ {0}
  BY <1>1, <1>3, <1>5
<1>10. n_bank * ceil(dhead, bm) \in Nat /\ rg * ceil(L, prgm) \in Nat
  BY <1>1, <1>4, <1>5, <1>9
<1>11. CASE level = "bank"
  BY <1>6, <1>9, <1>10, <1>11 DEF Sizes
<1>12. CASE level = "bg"
  BY <1>7, <1>9, <1>10, <1>12 DEF Sizes
<1>13. CASE level = "buffer"
  BY <1>8, <1>9, <1>13 DEF Sizes
<1> QED BY <1>1, <1>11, <1>12, <1>13

LEMMA ScoreLength ==
  ASSUME ArgsTyped
  PROVE  /\ score_length \in Nat \ {0}
         /\ n_group \in Nat \ {0}
         /\ Sizes.score <= score_length * n_group
<1>1. n_group \in Nat \ {0}
  BY TraceAssumption DEF TraceAssumption
<1> QED BY <1>1, SizesType, CeilProperties DEF score_length

LEMMA ListedType ==
  ASSUME ArgsTyped, NEW kind \in Kinds, NEW h \in Nat
  PROVE  Listed(kind, h) \in Nat
<1>1. n_head_per_hbm \in Nat /\ n_channel \in Nat \ {0}
  BY TraceAssumption DEF TraceAssumption, ArgsTyped
<1>2. valid_channels(h) \in Nat
  BY <1>1 DEF valid_channels
<1>3. Sizes.score \in Nat /\ Sizes.context \in Nat /\ Sizes.wrgb \in Nat /\ Sizes.mvgb \in Nat
  BY SizesType
<1>4. Sizes.wrgb * valid_channels(h) \in Nat /\ Sizes.mvgb * valid_channels(h) \in Nat
  BY <1>2, <1>3
<1>5. ceil(Sizes.score, n_group) \in Nat
  BY ScoreLength DEF score_length
<1> QED BY <1>3, <1>4, <1>5 DEF Listed, Kinds

\* What a part of a list holds.
Part(kind, h, first, count) ==
  {<<kind, h, n>> : n \in {m \in Nat : first <= m /\ m < first + count /\ m < Listed(kind, h)}}

LEMMA CmdsProperties ==
  ASSUME ArgsTyped, NEW kind \in Kinds, NEW h \in 0 .. num_itr,
         NEW first \in Nat, NEW count \in Nat
  PROVE  /\ Cmds(kind, h, first, count) \in Seq(Command)
         /\ ToSet(Cmds(kind, h, first, count)) = Part(kind, h, first, count)
         /\ \A p, q \in 1 .. Len(Cmds(kind, h, first, count)) :
              Cmds(kind, h, first, count)[p] = Cmds(kind, h, first, count)[q] => p = q
<1> DEFINE s == Cmds(kind, h, first, count)
           size == Listed(kind, h)
           left == IF first < size THEN size - first ELSE 0
           len == IF count < left THEN count ELSE left
<1>1. size \in Nat
  <2>1. h \in Nat
    BY NumItr
  <2> QED BY <2>1, ListedType
<1>2. left \in Nat /\ len \in Nat
  BY <1>1
<1>3. s = [k \in 1 .. len |-> <<kind, h, first + k - 1>>]
  BY DEF Cmds
<1> HIDE DEF s, size
<1>4. \A k \in 1 .. len : first + k - 1 \in Nat /\ <<kind, h, first + k - 1>> \in Command
  BY <1>2 DEF Command
<1>5. s \in Seq(Command) /\ Len(s) = len
  BY <1>2, <1>3, <1>4, IsASeq, LenProperties
<1>6. ToSet(s) = {<<kind, h, first + k - 1>> : k \in 1 .. len}
  <2>1. ToSet(s) = {s[k] : k \in 1 .. len}
    BY <1>5, ToSetByIndex
  <2>2. \A k \in 1 .. len : s[k] = <<kind, h, first + k - 1>>
    BY <1>3
  <2> HIDE DEF len
  <2> QED BY <2>1, <2>2
<1>7. \A k \in 1 .. len : first + k - 1 >= first /\ first + k - 1 < first + count /\ first + k - 1 < size
  BY <1>1, <1>2
<1>8. \A m \in Nat : first <= m /\ m < first + count /\ m < size =>
                       m - first + 1 \in 1 .. len /\ first + (m - first + 1) - 1 = m
  BY <1>1, <1>2
<1> HIDE DEF len, left
<1>9. ToSet(s) = Part(kind, h, first, count)
  <2>1. ASSUME NEW x \in ToSet(s) PROVE x \in Part(kind, h, first, count)
    BY <1>4, <1>6, <1>7, <2>1 DEF Part, size
  <2>2. ASSUME NEW x \in Part(kind, h, first, count) PROVE x \in ToSet(s)
    <3>1. PICK m \in Nat : first <= m /\ m < first + count /\ m < size /\ x = <<kind, h, m>>
      BY <2>2 DEF Part, size
    <3> QED BY <1>6, <1>8, <3>1
  <2> QED BY <2>1, <2>2
<1>10. \A p, q \in 1 .. Len(s) : s[p] = s[q] => p = q
  <2> SUFFICES ASSUME NEW p \in 1 .. len, NEW q \in 1 .. len, s[p] = s[q] PROVE p = q
    BY <1>5
  <2>1. first + p - 1 = first + q - 1
    BY <1>3
  <2> QED BY <1>2, <2>1
<1> QED BY <1>5, <1>9, <1>10 DEF s

-----------------------------------------------------------------------------
(* A step emits commands t and goes on to index l of stage st of iteration *)
(* k.                                                                      *)

Legal(st, k, l, x) ==
  /\ x[1] = "score_wrgb" => Groups(st, k, l, x[2]) = 0
  /\ x[1] = "score_mac" =>
       /\ Moved(st, k, l, x[2]) <= x[3] \div n_group
       /\ x[3] \div n_group < Groups(st, k, l, x[2])
  /\ x[1] = "score_mvsb" =>
       /\ x[3] < Moved(st, k, l, x[2])
       /\ Groups(st, k, l, x[2]) <= x[3] + 2
       /\ Scored(st, k, x[2]) => x[3] + 1 = score_length
  /\ x[1] = "sfm" => Scored(stage, i, x[2]) /\ ~ Begun(stage, i, x[2])
  /\ x[1] = "context_mvgb" => ~ Begun(stage, i, x[2])
  /\ x[1] = "context_mac" => x[2] = i /\ stage \in ContextStages

\* No head falls back.
Onward(st, k, l) ==
  \A h \in 0 .. num_itr :
    /\ Groups(stage, i, j, h) <= Groups(st, k, l, h)
    /\ Moved(stage, i, j, h) <= Moved(st, k, l, h)
    /\ Scored(stage, i, h) => Scored(st, k, h)
    /\ Begun(stage, i, h) => Begun(st, k, h)

LEMMA ProgressType ==
  ASSUME ArgsTyped, NEW st, NEW k \in Nat, NEW l \in Nat, NEW h \in Nat,
         Scoring(st, k, h) => l <= score_length
  PROVE  /\ Groups(st, k, l, h) \in 0 .. score_length
         /\ Moved(st, k, l, h) \in 0 .. score_length
BY ScoreLength DEF Groups, Moved

LEMMA Progress ==
  ASSUME NEW st, NEW k, NEW l, NEW h
  PROVE  /\ Scored(st, k, h) =>
              Groups(st, k, l, h) = score_length /\ Moved(st, k, l, h) = score_length
         /\ ~ Scored(st, k, h) /\ Scoring(st, k, h) =>
              Groups(st, k, l, h) = l /\ Moved(st, k, l, h) = IF l > 0 THEN l - 1 ELSE 0
         /\ ~ Scored(st, k, h) /\ ~ Scoring(st, k, h) =>
              Groups(st, k, l, h) = 0 /\ Moved(st, k, l, h) = 0
BY DEF Groups, Moved

\* A head that is being scored gets on, or has been scored.
LEMMA OnwardByHead ==
  ASSUME ArgsTyped, j \in Nat, j <= score_length \/ stage \notin {"score0", "score1", "single_score"},
         NEW st, NEW k, NEW l \in Nat,
         \A h \in 0 .. num_itr :
           /\ Scored(stage, i, h) => Scored(st, k, h)
           /\ Scoring(stage, i, h) => Scored(st, k, h) \/ (Scoring(st, k, h) /\ ~ Scored(st, k, h) /\ j <= l)
           /\ Begun(stage, i, h) => Begun(st, k, h),
         \A h \in 0 .. num_itr : Scoring(st, k, h) => l <= score_length
  PROVE  Onward(st, k, l)
<1> SUFFICES ASSUME NEW h \in 0 .. num_itr
             PROVE  /\ Groups(stage, i, j, h) <= Groups(st, k, l, h)
                    /\ Moved(stage, i, j, h) <= Moved(st, k, l, h)
  BY DEF Onward
<1>1. score_length \in Nat
  BY ScoreLength
<1>2. CASE Scored(stage, i, h)
  <2>1. Scored(st, k, h)
    BY <1>2
  <2> QED BY <1>1, <1>2, <2>1, Progress
<1>3. CASE ~ Scored(stage, i, h) /\ Scoring(stage, i, h)
  <2>1. j <= score_length
    BY <1>3 DEF Scoring
  <2>2. /\ Groups(stage, i, j, h) = j
        /\ Moved(stage, i, j, h) = IF j > 0 THEN j - 1 ELSE 0
    BY <1>3, Progress
  <2>3. CASE Scored(st, k, h)
    <3>1. Groups(st, k, l, h) = score_length /\ Moved(st, k, l, h) = score_length
      BY <2>3, Progress
    <3> QED BY <1>1, <2>1, <2>2, <3>1
  <2>4. CASE Scoring(st, k, h) /\ ~ Scored(st, k, h) /\ j <= l
    <3>1. /\ Groups(st, k, l, h) = l
          /\ Moved(st, k, l, h) = IF l > 0 THEN l - 1 ELSE 0
      BY <2>4, Progress
    <3> QED BY <2>2, <2>4, <3>1
  <2> QED BY <1>3, <2>3, <2>4
<1>4. CASE ~ Scored(stage, i, h) /\ ~ Scoring(stage, i, h)
  <2>1. Groups(stage, i, j, h) = 0 /\ Moved(stage, i, j, h) = 0
    BY <1>4, Progress
  <2>2. Groups(st, k, l, h) \in Nat /\ Moved(st, k, l, h) \in Nat
    BY <1>1 DEF Groups, Moved
  <2> QED BY <2>1, <2>2
<1> QED BY <1>2, <1>3, <1>4

LEMMA CommandParts ==
  ASSUME NEW x \in Command
  PROVE  /\ x[1] \in Kinds \cup {"barrier", "dummy_mac"}
         /\ x[2] \in 0 .. num_itr
         /\ x[3] \in Nat
         /\ x = <<x[1], x[2], x[3]>>
BY DEF Command

LEMMA Emission ==
  ASSUME TraceInv, NEW t \in Seq(Command), NEW st, NEW k, NEW l,
         Control(st, k, l), Onward(st, k, l),
         \A x \in ToSet(t) : Legal(st, k, l, x),
         \/ \A x \in ToSet(t) : ~ NeedsBarrier(x)
         \/ t # <<>> /\ t[Len(t)] = Barrier[1],
         \A x \in ToSet(t) : x[1] = "context_mvsb" =>
           stage \in ContextStages /\ j > 0 /\ x = <<"context_mvsb", i, j - 1>>,
         st \in ContextStages /\ l > 0 =>
           /\ t # <<>> /\ t[Len(t)] = Barrier[1]
           /\ <<"context_mac", k, l - 1>> \in ToSet(t)
  PROVE  Holds(total_cmd \o t, st, k, l)
<1> DEFINE s == total_cmd
           u == s \o t
<1>1. /\ ArgsTyped /\ Control(stage, i, j)
      /\ s \in Seq(Command) /\ Respected(s) /\ Fenced(s) /\ FollowsMac(s)
      /\ \A x \in ToSet(s) : Reached(stage, i, j, x)
  BY DEF TraceInv, Holds
<1>2. u \in Seq(Command) /\ ToSet(u) = ToSet(s) \cup ToSet(t)
  BY <1>1, ToSetConcat
<1>3. \A x \in ToSet(s) \cup ToSet(t) : x \in Command
  <2> HIDE DEF s, u
  <2>1. \A r \in Seq(Command) : \A x \in ToSet(r) : x \in Command
    <3> SUFFICES ASSUME NEW r \in Seq(Command), NEW x \in ToSet(r) PROVE x \in Command
      OBVIOUS
    <3>1. PICK p \in 1 .. Len(r) : x = r[p]
      BY ToSetByIndex
    <3> QED BY <3>1, ElementOfSeq
  <2> QED BY <1>1, <2>1
<1>4. \A x \in ToSet(s) \cup ToSet(t) :
        /\ x[2] \in 0 .. num_itr /\ x[2] \in Nat
        /\ x[3] \in Nat
        /\ x[3] \div n_group \in Nat
        /\ Groups(stage, i, j, x[2]) \in 0 .. score_length
        /\ Moved(stage, i, j, x[2]) \in 0 .. score_length
        /\ Groups(st, k, l, x[2]) \in 0 .. score_length
        /\ Moved(st, k, l, x[2]) \in 0 .. score_length
  <2> SUFFICES ASSUME NEW x \in Command
               PROVE  /\ x[2] \in 0 .. num_itr /\ x[2] \in Nat
                      /\ x[3] \in Nat
                      /\ x[3] \div n_group \in Nat
                      /\ Groups(stage, i, j, x[2]) \in 0 .. score_length
                      /\ Moved(stage, i, j, x[2]) \in 0 .. score_length
                      /\ Groups(st, k, l, x[2]) \in 0 .. score_length
                      /\ Moved(st, k, l, x[2]) \in 0 .. score_length
    BY <1>3
  <2>1. x[2] \in 0 .. num_itr /\ x[2] \in Nat /\ x[3] \in Nat
    BY <1>1, NumItr, CommandParts
  <2>2. x[3] \div n_group \in Nat
    BY <1>1, <2>1, ScoreLength, Quotient
  <2>3. \A a, b, c : Control(a, b, c) =>
          b \in Nat /\ c \in Nat /\ (Scoring(a, b, x[2]) => c <= score_length)
    BY <1>1, NumItr DEF Control, Scoring
  <2> QED BY <1>1, <2>1, <2>2, <2>3, ProgressType
<1>5. \A x \in ToSet(u) : Reached(st, k, l, x)
  <2>1. ASSUME NEW x \in ToSet(s) PROVE Reached(st, k, l, x)
    <3>1. Reached(stage, i, j, x)
      BY <1>1, <2>1
    <3>2. /\ Groups(stage, i, j, x[2]) <= Groups(st, k, l, x[2])
          /\ Moved(stage, i, j, x[2]) <= Moved(st, k, l, x[2])
          /\ Scored(stage, i, x[2]) => Scored(st, k, x[2])
          /\ Begun(stage, i, x[2]) => Begun(st, k, x[2])
      BY <1>4, <2>1 DEF Onward
    <3>3. /\ Groups(stage, i, j, x[2]) \in Int /\ Groups(st, k, l, x[2]) \in Int
          /\ Moved(stage, i, j, x[2]) \in Int /\ Moved(st, k, l, x[2]) \in Int
          /\ x[3] \in Int /\ x[3] \div n_group \in Int
      <4>1. /\ Groups(stage, i, j, x[2]) \in 0 .. score_length
            /\ Groups(st, k, l, x[2]) \in 0 .. score_length
            /\ Moved(stage, i, j, x[2]) \in 0 .. score_length
            /\ Moved(st, k, l, x[2]) \in 0 .. score_length
            /\ x[3] \in Nat /\ x[3] \div n_group \in Nat
        BY <1>4, <2>1
      <4>2. \A n \in 0 .. score_length : n \in Int
        OBVIOUS
      <4> QED BY <4>1, <4>2
    <3> QED BY <3>1, <3>2, <3>3 DEF Reached
  <2>2. ASSUME NEW x \in ToSet(t) PROVE Reached(st, k, l, x)
    <3>1. x[1] = "context_mac" => Begun(st, k, x[2])
      BY <1>4, <2>2 DEF Legal, Onward, Begun
    <3>2. x[1] = "sfm" => Scored(st, k, x[2])
      BY <1>4, <2>2 DEF Legal, Onward
    <3> QED BY <2>2, <3>1, <3>2 DEF Reached, Legal
  <2> QED BY <1>2, <2>1, <2>2
<1>6. Respected(u)
  <2>1. ASSUME NEW x \in ToSet(t), NEW y \in ToSet(s) \cup ToSet(t), Depends(y, x) PROVE FALSE
    <3>1. Legal(st, k, l, x) /\ Reached(st, k, l, y)
      BY <1>2, <1>5
    <3>2. y \in ToSet(s) => Reached(stage, i, j, y)
      BY <1>1
    <3>3. y \in ToSet(t) => Legal(st, k, l, y)
      OBVIOUS
    <3>4. CASE x[1] = "score_wrgb" /\ y[1] = "score_mac" /\ x[2] = y[2]
      BY <1>4, <3>1, <3>4 DEF Legal, Reached
    <3>5. CASE x[1] = "score_mac" /\ y[1] = "score_mvsb" /\ x[2] = y[2] /\ x[3] \div n_group = y[3]
      BY <1>4, <3>1, <3>5 DEF Legal, Reached
    <3>6. CASE x[1] = "score_mvsb" /\ y[1] = "score_mac" /\ x[2] = y[2] /\ y[3] \div n_group >= x[3] + 2
      BY <1>4, <3>1, <3>6 DEF Legal, Reached
    <3>7. CASE x[1] = "context_mvgb" /\ y[1] = "context_mac" /\ x[2] = y[2]
      BY <3>1, <3>2, <3>3, <3>7 DEF Legal, Reached, Begun
    <3>8. ASSUME Scored(st, k, y[2])
          PROVE  Groups(st, k, l, y[2]) = score_length /\ Moved(st, k, l, y[2]) = score_length
      BY <3>8, Progress
    <3>9. CASE x[1] = "score_mac" /\ y[1] = "sfm" /\ x[2] = y[2]
      BY <1>4, <3>1, <3>8, <3>9 DEF Legal, Reached
    <3>10. CASE x[1] = "score_mvsb" /\ y[1] = "sfm" /\ x[2] = y[2] /\ x[3] + 1 < score_length
      BY <1>4, <3>1, <3>10 DEF Legal, Reached
    <3>11. CASE x[1] = "sfm" /\ y[1] = "context_mac" /\ x[2] = y[2]
      BY <3>1, <3>2, <3>3, <3>11 DEF Legal, Reached, Begun
    <3> QED BY <2>1, <3>4, <3>5, <3>6, <3>7, <3>9, <3>10, <3>11 DEF Depends
  <2>2. ASSUME NEW x \in ToSet(s), NEW y \in ToSet(t), Depends(y, x) PROVE NeedsBarrier(x)
    <3>1. Legal(st, k, l, y)
      OBVIOUS
    <3>2. CASE x[1] = "score_mvsb" /\ y[1] # "sfm"
      <4>1. y[1] = "score_mac" /\ y[3] \div n_group >= x[3] + 2
        BY <2>2, <3>2 DEF Depends
      <4>2. /\ y[3] \div n_group < Groups(st, k, l, y[2])
            /\ Groups(st, k, l, y[2]) \in 0 .. score_length
        <5>1. y[2] \in 0 .. num_itr
          BY <1>4
        <5> QED BY <1>4, <3>1, <4>1, <5>1 DEF Legal
      <4>3. x[3] \in Nat /\ y[3] \div n_group \in Nat /\ score_length \in Nat
        BY <1>1, <1>4, ScoreLength
      <4>4. x[3] + 1 < score_length
        BY <4>1, <4>2, <4>3
      <4> QED BY <3>2, <4>4 DEF NeedsBarrier
    <3>3. CASE x[1] = "score_mvsb" /\ y[1] = "sfm"
      BY <2>2, <3>3 DEF Depends, NeedsBarrier
    <3> QED BY <2>2, <3>2, <3>3 DEF Depends, NeedsBarrier
  <2> QED BY <1>1, <2>1, <2>2, RespectedConcat
<1>7. Fenced(u) /\ \A p \in 1 .. Len(s) : Behind(s, p) => Behind(u, p)
  BY <1>1, FencedConcat
<1>8. /\ Len(s) \in Nat /\ Len(t) \in Nat
      /\ Len(u) = Len(s) + Len(t)
      /\ \A p \in 1 .. Len(s) : u[p] = s[p]
      /\ \A p \in 1 .. Len(t) : u[p + Len(s)] = t[p]
      /\ \A p \in Len(s) + 1 .. Len(u) : p - Len(s) \in 1 .. Len(t) /\ u[p] = t[p - Len(s)]
  <2>1. /\ Len(s) \in Nat /\ Len(t) \in Nat
        /\ Len(u) = Len(s) + Len(t)
        /\ \A p \in 1 .. Len(s) + Len(t) : u[p] = IF p <= Len(s) THEN s[p] ELSE t[p - Len(s)]
    BY <1>1, ConcatProperties, LenProperties
  <2> HIDE DEF u, s
  <2>2. \A p \in 1 .. Len(t) : u[p + Len(s)] = t[p]
    <3> SUFFICES ASSUME NEW p \in 1 .. Len(t) PROVE u[p + Len(s)] = t[p]
      OBVIOUS
    <3>1. p + Len(s) \in 1 .. Len(s) + Len(t) /\ ~ (p + Len(s) <= Len(s)) /\ p + Len(s) - Len(s) = p
      BY <2>1
    <3> QED BY <2>1, <3>1
  <2> QED BY <2>1, <2>2
<1>9. FollowsMac(u)
  <2> HIDE DEF u
  <2> SUFFICES ASSUME NEW q \in 1 .. Len(u), u[q][1] = "context_mvsb"
               PROVE  \E p \in 1 .. Len(u) :
                        /\ u[p] = <<"context_mac", u[q][2], u[q][3]>>
                        /\ \E b \in p + 1 .. q - 1 : u[b] = Barrier[1]
    BY DEF FollowsMac
  <2>1. CASE q \in 1 .. Len(s)
    <3>1. PICK p \in 1 .. Len(s) :
            /\ s[p] = <<"context_mac", s[q][2], s[q][3]>>
            /\ \E b \in p + 1 .. q - 1 : s[b] = Barrier[1]
      BY <1>1, <1>8, <2>1 DEF FollowsMac
    <3>2. \A b \in p + 1 .. q - 1 : b \in 1 .. Len(s)
      BY <1>8, <2>1
    <3>3. p \in 1 .. Len(u)
      BY <1>8
    <3> QED BY <1>8, <2>1, <3>1, <3>2, <3>3
  <2>2. CASE q \in Len(s) + 1 .. Len(u)
    <3>1. u[q] \in ToSet(t)
      BY <1>8, <2>2, ToSetByIndex
    <3>2. stage \in ContextStages /\ j > 0 /\ u[q] = <<"context_mvsb", i, j - 1>>
      BY <3>1
    <3>3. PICK p \in 1 .. Len(s) : s[p] = <<"context_mac", i, j - 1>> /\ Behind(s, p)
      BY <3>2 DEF TraceInv, Holds
    <3>4. PICK b \in p + 1 .. Len(s) : s[b] = Barrier[1]
      BY <3>3 DEF Behind
    <3>5. b \in 1 .. Len(s) /\ b \in p + 1 .. q - 1 /\ p \in 1 .. Len(u)
      BY <1>8, <2>2
    <3>6. u[p] = <<"context_mac", u[q][2], u[q][3]>>
      BY <1>8, <3>2, <3>3
    <3> QED BY <1>8, <3>4, <3>5, <3>6
  <2>3. q \in 1 .. Len(s) \/ q \in Len(s) + 1 .. Len(u)
    BY <1>8
  <2> QED BY <2>1, <2>2, <2>3
<1>10. ASSUME st \in ContextStages, l > 0
       PROVE  \E p \in 1 .. Len(u) : u[p] = <<"context_mac", k, l - 1>> /\ Behind(u, p)
  <2> HIDE DEF u
  <2>1. PICK p \in 1 .. Len(t) : t[p] = <<"context_mac", k, l - 1>>
    BY <1>10, ToSetByIndex
  <2>2. t # <<>> /\ t[Len(t)] = Barrier[1]
    BY <1>10
  <2>3. p # Len(t)
    BY <2>1, <2>2 DEF Barrier
  <2>4. p + Len(s) \in 1 .. Len(u) /\ Len(u) \in p + Len(s) + 1 .. Len(u)
    BY <1>8, <2>3
  <2>5. Len(u) = Len(t) + Len(s) /\ Len(t) \in 1 .. Len(t)
    BY <1>8, <2>3
  <2>6. u[Len(u)] = Barrier[1] /\ u[p + Len(s)] = <<"context_mac", k, l - 1>>
    BY <1>8, <2>1, <2>2, <2>5
  <2> QED BY <2>4, <2>6 DEF Behind
<1> QED BY <1>2, <1>5, <1>6, <1>7, <1>9, <1>10 DEF Holds

-----------------------------------------------------------------------------
(* What the parts of an iteration emit. *)

\* Commands of one kind for head h.
Are(c, kind, h) == c \in Seq(Command) /\ \A x \in ToSet(c) : x[1] = kind /\ x[2] = h

LEMMA CmdsAre ==
  ASSUME ArgsTyped, NEW kind \in Kinds, NEW h \in 0 .. num_itr,
         NEW first \in Nat, NEW count \in Nat
  PROVE  Are(Cmds(kind, h, first, count), kind, h)
BY CmdsProperties DEF Are, Part

LEMMA EmptyAre ==
  ASSUME NEW kind, NEW h
  PROVE  Are(<<>>, kind, h) /\ ToSet(<<>>) = {}
BY DEF Are, ToSet

LEMMA ScoreMacsAre ==
  ASSUME ArgsTyped, NEW h \in 0 .. num_itr, j \in Nat
  PROVE  /\ Are(ScoreMacs(h), "score_mac", h)
         /\ \A x \in ToSet(ScoreMacs(h)) : x[3] \div n_group = j /\ j < score_length
<1>1. /\ n_group \in Nat \ {0} /\ score_length \in Nat
      /\ Sizes.score \in Nat /\ Sizes.score <= score_length * n_group
      /\ "score_mac" \in Kinds /\ Listed("score_mac", h) = Sizes.score
  BY ScoreLength, SizesType DEF Listed, Kinds
<1>2. j * n_group \in Nat
  BY <1>1
<1>3. ToSet(ScoreMacs(h)) = Part("score_mac", h, j * n_group, n_group)
  BY <1>1, <1>2, CmdsProperties DEF ScoreMacs
<1>4. ASSUME NEW m \in Nat, j * n_group <= m, m < j * n_group + n_group, m < Sizes.score
      PROVE  m \div n_group = j /\ j < score_length
  <2>1. m \div n_group = j
    BY <1>1, <1>4, GroupOf
  <2>2. j * n_group < score_length * n_group
    BY <1>1, <1>2, <1>4
  <2>3. j >= score_length => j * n_group >= score_length * n_group
    BY <1>1
  <2> QED BY <1>1, <1>2, <2>1, <2>2, <2>3
<1> QED BY <1>1, <1>2, <1>3, <1>4, CmdsAre DEF Part, ScoreMacs

LEMMA MovesAre ==
  ASSUME ArgsTyped, NEW kind \in Kinds, NEW h \in 0 .. num_itr, j \in Nat
  PROVE  /\ Are(Moves(kind, h), kind, h)
         /\ \A x \in ToSet(Moves(kind, h)) : j > 0 /\ x = <<kind, h, j - 1>>
<1>1. CASE j = 0
  BY <1>1, EmptyAre DEF Moves
<1>2. CASE j # 0
  <2>1. j - 1 \in Nat /\ Moves(kind, h) = Cmds(kind, h, j - 1, 1)
    BY <1>2 DEF Moves
  <2>2. ToSet(Moves(kind, h)) = Part(kind, h, j - 1, 1)
    BY <2>1, CmdsProperties
  <2>3. \A m \in Nat : j - 1 <= m /\ m < j - 1 + 1 => m = j - 1
    BY <2>1
  <2> QED BY <1>2, <2>1, <2>2, <2>3, CmdsAre DEF Part
<1> QED BY <1>1, <1>2

LEMMA WriteAheadAre ==
  ASSUME ArgsTyped, NEW h \in 0 .. num_itr, j \in Nat
  PROVE  /\ Are(WriteAhead(h), "score_wrgb", h)
         /\ \A x \in ToSet(WriteAhead(h)) : j < score_length
<1> DEFINE stride == Listed("score_wrgb", h) \div score_length
<1>1. CASE j < score_length
  <2>1. "score_wrgb" \in Kinds /\ h \in Nat
    BY NumItr DEF Kinds
  <2>2. stride \in Nat
    BY <2>1, ListedType, ScoreLength, Quotient
  <2>3. WriteAhead(h) = Cmds("score_wrgb", h, j * stride, stride)
    BY <1>1 DEF WriteAhead
  <2> HIDE DEF stride
  <2>4. j * stride \in Nat
    BY <2>2
  <2> QED BY <1>1, <2>1, <2>2, <2>3, <2>4, CmdsAre
<1>2. CASE ~ (j < score_length)
  BY <1>2, EmptyAre DEF WriteAhead
<1> QED BY <1>1, <1>2

LEMMA MoveAheadAre ==
  ASSUME ArgsTyped, NEW h \in 0 .. num_itr, NEW length \in Nat, j \in Nat
  PROVE  /\ Are(MoveAhead(h, length), "context_mvgb", h)
         /\ \A x \in ToSet(MoveAhead(h, length)) : j < length
<1> DEFINE stride == Listed("context_mvgb", h) \div half(length)
           from == length \div 2
<1>1. CASE j < length /\ j >= from
  <2>1. "context_mvgb" \in Kinds /\ h \in Nat
    BY NumItr DEF Kinds
  <2>2. half(length) \in Nat \ {0}
    <3>1. length > 0
      BY <1>1
    <3> QED BY <3>1, CeilProperties DEF half
  <2>3. stride \in Nat /\ from \in Nat
    BY <2>1, <2>2, ListedType, Quotient
  <2>4. MoveAhead(h, length) = Cmds("context_mvgb", h, (j - from) * stride, stride)
    BY <1>1 DEF MoveAhead
  <2> HIDE DEF stride, from
  <2>5. (j - from) * stride \in Nat
    <3>1. j - from \in Nat
      BY <1>1, <2>3
    <3> QED BY <2>3, <3>1
  <2> QED BY <1>1, <2>1, <2>3, <2>4, <2>5, CmdsAre
<1>2. CASE ~ (j < length /\ j >= from)
  BY <1>2, EmptyAre DEF MoveAhead
<1> QED BY <1>1, <1>2

LEMMA AllAre ==
  ASSUME ArgsTyped, NEW kind \in Kinds, NEW h \in 0 .. num_itr
  PROVE  Are(All(kind, h), kind, h)
<1>1. h \in Nat
  BY NumItr
<1> QED BY <1>1, ListedType, CmdsAre DEF All

LEMMA SoftmaxAre ==
  ASSUME ArgsTyped, NEW h \in 0 .. num_itr
  PROVE  Are(Softmax(h), "sfm", h) /\ \A x \in ToSet(Softmax(h)) : j = 0
BY AllAre, EmptyAre DEF Softmax, Kinds

\* What is emitted with a barrier at its end.
LEMMA WithBarrier ==
  ASSUME ArgsTyped, NEW s \in Seq(Command), NEW c \in Seq(Command)
  PROVE  LET t == c \o Barrier IN
         /\ t \in Seq(Command)
         /\ (s \o c) \o Barrier = s \o t
         /\ ToSet(t) = ToSet(c) \cup {<<"barrier", 0, 0>>}
         /\ t # <<>> /\ t[Len(t)] = Barrier[1]
<1> DEFINE t == c \o Barrier
<1>1. /\ <<"barrier", 0, 0>> \in Command
      /\ Barrier \in Seq(Command) /\ Len(Barrier) = 1
      /\ Barrier[1] = <<"barrier", 0, 0>> /\ ToSet(Barrier) = {<<"barrier", 0, 0>>}
  <2>1. <<"barrier", 0, 0>> \in Command
    BY NumItr DEF Command
  <2>2. /\ Len(Barrier) = 1 /\ DOMAIN Barrier = 1 .. 1 /\ Barrier[1] = <<"barrier", 0, 0>>
        /\ Barrier \in Seq(Command)
    BY <2>1 DEF Barrier
  <2>3. ToSet(Barrier) = {Barrier[1]}
    <3>1. ToSet(Barrier) = {Barrier[p] : p \in 1 .. Len(Barrier)}
      BY <2>2, ToSetByIndex
    <3>2. \A p : p \in 1 .. Len(Barrier) <=> p = 1
      BY <2>2
    <3> QED BY <3>1, <3>2
  <2> QED BY <2>1, <2>2, <2>3
<1>2. t \in Seq(Command) /\ ToSet(t) = ToSet(c) \cup {<<"barrier", 0, 0>>}
  <2> DEFINE b == Barrier
  <2>1. b \in Seq(Command) /\ ToSet(b) = {<<"barrier", 0, 0>>}
    BY <1>1
  <2> HIDE DEF b
  <2>2. c \o b \in Seq(Command) /\ ToSet(c \o b) = ToSet(c) \cup ToSet(b)
    BY <2>1, ToSetConcat
  <2> QED BY <2>1, <2>2 DEF b
<1>3. (s \o c) \o Barrier = s \o t
  <2> DEFINE b == Barrier
  <2>1. b \in Seq(Command)
    BY <1>1
  <2> HIDE DEF b
  <2>2. (s \o c) \o b = s \o (c \o b)
    BY <2>1, ConcatAssociative
  <2> QED BY <2>2 DEF b
<1>4. /\ Len(c) \in Nat /\ Len(t) = Len(c) + 1
      /\ t[Len(c) + 1] = Barrier[1]
  <2>1. /\ Len(c) \in Nat /\ Len(t) = Len(c) + Len(Barrier)
        /\ \A p \in 1 .. Len(c) + Len(Barrier) : t[p] = IF p <= Len(c) THEN c[p] ELSE Barrier[p - Len(c)]
    <3>1. Barrier \in Seq(Command)
      BY <1>1
    <3> QED BY <3>1, ConcatProperties, LenProperties
  <2> HIDE DEF t
  <2>2. /\ Len(c) + 1 \in 1 .. Len(c) + Len(Barrier)
        /\ ~ (Len(c) + 1 <= Len(c)) /\ Len(c) + 1 - Len(c) = 1
    BY <1>1, <2>1
  <2> QED BY <1>1, <2>1, <2>2
<1>5. t # <<>>
  <2>1. Len(<<>>) = 0
    OBVIOUS
  <2> HIDE DEF t
  <2> QED BY <1>4, <2>1
<1> QED BY <1>2, <1>3, <1>4, <1>5

\* What an iteration of a loop emits: t ends with a barrier but in the last one.
LEMMA LoopEmits ==
  ASSUME TraceInv, NEW length, NEW c \in Seq(Command),
         total_cmd' = total_cmd \o c \o Barriers(length)
  PROVE  \E t \in Seq(Command) :
           /\ total_cmd' = total_cmd \o t
           /\ ToSet(c) \subseteq ToSet(t)
           /\ ToSet(t) \subseteq ToSet(c) \cup {<<"barrier", 0, 0>>}
           /\ j < length => t # <<>> /\ t[Len(t)] = Barrier[1]
<1>1. ArgsTyped /\ total_cmd \in Seq(Command)
  BY DEF TraceInv, Holds
<1>2. CASE j < length
  <2>1. Barriers(length) = Barrier
    BY <1>2 DEF Barriers
  <2>2. PICK t : t = c \o Barrier
    OBVIOUS
  <2>3. /\ t \in Seq(Command)
        /\ (total_cmd \o c) \o Barrier = total_cmd \o t
        /\ ToSet(t) = ToSet(c) \cup {<<"barrier", 0, 0>>}
        /\ t # <<>> /\ t[Len(t)] = Barrier[1]
    BY <1>1, <2>2, WithBarrier
  <2> QED BY <2>1, <2>3
<1>3. CASE ~ (j < length)
  <2>1. Barriers(length) = <<>>
    BY <1>3 DEF Barriers
  <2>2. total_cmd' = total_cmd \o c
    <3>1. total_cmd \o c \in Seq(Command)
      BY <1>1, ConcatProperties
    <3> QED BY <2>1, <3>1, ConcatEmptySeq
  <2> QED BY <1>3, <2>2
<1> QED BY <1>2, <1>3

-----------------------------------------------------------------------------
(* The actions. *)

LEMMA ControlType ==
  ASSUME TraceInv
  PROVE  /\ ArgsTyped /\ Control(stage, i, j)
         /\ i \in Nat /\ j \in Nat /\ i \in 0 .. num_itr /\ num_itr \in Nat
         /\ i + 1 < num_itr => i + 1 \in 0 .. num_itr
         /\ score_length \in Nat /\ Sizes.context \in Nat
         /\ total_cmd \in Seq(Command)
BY NumItr, ScoreLength, SizesType DEF TraceInv, Holds, Control

\* Traces are concatenated in either order.
LEMMA Associative ==
  ASSUME NEW s \in Seq(Command), NEW a \in Seq(Command), NEW b \in Seq(Command)
  PROVE  s \o (a \o b) = (s \o a) \o b
BY ConcatAssociative

\* Commands of three kinds in a row.
LEMMA ThreeAre ==
  ASSUME ArgsTyped, NEW a \in Seq(Command), NEW b \in Seq(Command), NEW c \in Seq(Command)
  PROVE  /\ a \o b \o c \in Seq(Command)
         /\ ToSet(a \o b \o c) = ToSet(a) \cup ToSet(b) \cup ToSet(c)
<1> DEFINE d == a \o b
<1>1. d \in Seq(Command) /\ ToSet(d) = ToSet(a) \cup ToSet(b)
  BY ToSetConcat
<1> HIDE DEF d
<1>2. d \o c \in Seq(Command) /\ ToSet(d \o c) = ToSet(d) \cup ToSet(c)
  BY <1>1, ToSetConcat
<1> QED BY <1>1, <1>2 DEF d

\* An iteration of a loop that scores head h and emits rest besides.
LEMMA ScoreStep ==
  ASSUME TraceInv, NEW h \in 0 .. num_itr, Scoring(stage, i, h), ~ Scored(stage, i, h),
         j <= score_length, NEW rest \in Seq(Command),
         total_cmd' = total_cmd \o (ScoreMacs(h) \o Moves("score_mvsb", h) \o rest)
                        \o Barriers(score_length),
         \/ j < score_length /\ stage' = stage /\ i' = i /\ j' = j + 1
         \/ j = score_length /\ Scored(stage', i', h) /\ j' = 0,
         Control(stage', i', j'), Onward(stage', i', j'),
         \A x \in ToSet(rest) :
           /\ x[1] \in {"score_wrgb", "context_mvgb", "sfm"}
           /\ Legal(stage', i', j', x)
           /\ j < score_length
  PROVE  Holds(total_cmd', stage', i', j')
<1> DEFINE a == ScoreMacs(h)
           b == Moves("score_mvsb", h)
           c == a \o b \o rest
<1>1. /\ ArgsTyped /\ j \in Nat /\ score_length \in Nat /\ total_cmd \in Seq(Command)
  BY ControlType
<1>2. /\ Are(a, "score_mac", h) /\ Are(b, "score_mvsb", h)
      /\ \A x \in ToSet(a) : x[3] \div n_group = j /\ j < score_length
      /\ \A x \in ToSet(b) : j > 0 /\ x = <<"score_mvsb", h, j - 1>>
  BY <1>1, ScoreMacsAre, MovesAre DEF Kinds
<1> HIDE DEF a, b
<1>3. c \in Seq(Command) /\ ToSet(c) = ToSet(a) \cup ToSet(b) \cup ToSet(rest)
  BY <1>1, <1>2, ThreeAre DEF Are
<1>4. total_cmd' = total_cmd \o c \o Barriers(score_length)
  BY DEF a, b
<1> HIDE DEF c
<1>5. PICK t \in Seq(Command) :
        /\ total_cmd' = total_cmd \o t
        /\ ToSet(t) \subseteq ToSet(c) \cup {<<"barrier", 0, 0>>}
        /\ j < score_length => t # <<>> /\ t[Len(t)] = Barrier[1]
  BY <1>3, <1>4, LoopEmits
<1>6. \A x \in ToSet(t) :
        x \in ToSet(a) \/ x \in ToSet(b) \/ x \in ToSet(rest) \/ x = <<"barrier", 0, 0>>
  BY <1>3, <1>5
<1>7. /\ Groups(stage', i', j', h) <= j + 1
      /\ j < score_length => Groups(stage', i', j', h) = j + 1
      /\ Moved(stage', i', j', h) = j
  <2>1. CASE j < score_length
    <3>1. ~ Scored(stage', i', h) /\ Scoring(stage', i', h) /\ j' = j + 1
      BY <1>1, <2>1
    <3>2. /\ Groups(stage', i', j', h) = j'
          /\ Moved(stage', i', j', h) = IF j' > 0 THEN j' - 1 ELSE 0
      BY <3>1, Progress
    <3> QED BY <1>1, <3>1, <3>2
  <2>2. CASE j = score_length
    <3>1. Scored(stage', i', h)
      BY <1>1, <2>2
    <3>2. Groups(stage', i', j', h) = score_length /\ Moved(stage', i', j', h) = score_length
      BY <3>1, Progress
    <3> QED BY <1>1, <2>2, <3>2
  <2> QED BY <1>1, <2>1, <2>2
<1>8. \A x \in ToSet(t) : Legal(stage', i', j', x)
  <2> SUFFICES ASSUME NEW x \in ToSet(t) PROVE Legal(stage', i', j', x)
    OBVIOUS
  <2>1. CASE x \in ToSet(a)
    <3>1. x[1] = "score_mac" /\ x[2] = h /\ x[3] \div n_group = j /\ j < score_length
      BY <1>2, <2>1 DEF Are
    <3> QED BY <1>1, <1>7, <3>1 DEF Legal
  <2>2. CASE x \in ToSet(b)
    <3>1. x[1] = "score_mvsb" /\ x[2] = h /\ x[3] = j - 1 /\ j > 0
      BY <1>2, <2>2
    <3> QED BY <1>1, <1>7, <3>1 DEF Legal
  <2>3. CASE x \in ToSet(rest)
    BY <2>3
  <2>4. CASE x = <<"barrier", 0, 0>>
    BY <2>4 DEF Legal
  <2> QED BY <1>6, <2>1, <2>2, <2>3, <2>4
<1>9. (\A x \in ToSet(t) : ~ NeedsBarrier(x)) \/ (t # <<>> /\ t[Len(t)] = Barrier[1])
  <2>1. CASE j = score_length
    <3>1. ASSUME NEW x \in ToSet(t) PROVE ~ NeedsBarrier(x)
      <4>1. x \in ToSet(b) \/ x \in ToSet(rest) \/ x = <<"barrier", 0, 0>>
        BY <1>1, <1>2, <1>6, <2>1
      <4>2. CASE x \in ToSet(b)
        BY <1>1, <1>2, <2>1, <4>2 DEF NeedsBarrier
      <4>3. CASE x \in ToSet(rest)
        BY <1>1, <2>1, <4>3 DEF NeedsBarrier
      <4>4. CASE x = <<"barrier", 0, 0>>
        BY <4>4 DEF NeedsBarrier
      <4> QED BY <4>1, <4>2, <4>3, <4>4
    <3> QED BY <3>1
  <2> QED BY <1>1, <1>5, <2>1
<1>10. ASSUME NEW x \in ToSet(t) PROVE x[1] # "context_mvsb"
  <2>1. x \in ToSet(rest) => x[1] \in {"score_wrgb", "context_mvgb", "sfm"}
    OBVIOUS
  <2>2. x \in ToSet(a) => x[1] = "score_mac"
    BY <1>2 DEF Are
  <2>3. x \in ToSet(b) => x[1] = "score_mvsb"
    BY <1>2 DEF Are
  <2>4. x = <<"barrier", 0, 0>> => x[1] = "barrier"
    OBVIOUS
  <2> QED BY <1>6, <2>1, <2>2, <2>3, <2>4
<1>11. ~ (stage' \in ContextStages /\ j' > 0)
  BY DEF Scoring, ContextStages
<1>12. Holds(total_cmd \o t, stage', i', j')
  BY <1>5, <1>8, <1>9, <1>10, <1>11, Emission
<1> QED BY <1>5, <1>12

LEMMA Score0Holds ==
  ASSUME TraceInv, Score0
  PROVE  Holds(total_cmd', stage', i', j')
<1> DEFINE w == WriteAhead(i + 1)
<1>1. /\ ArgsTyped /\ i \in Nat /\ j \in Nat /\ i \in 0 .. num_itr /\ num_itr \in Nat
      /\ i + 1 < num_itr /\ i + 1 \in 0 .. num_itr
      /\ score_length \in Nat /\ j <= score_length
      /\ stage = "score0"
  BY ControlType DEF Control, Score0, Loop
<1>2. /\ total_cmd' = total_cmd \o (ScoreMacs(i) \o Moves("score_mvsb", i) \o w)
                        \o Barriers(score_length)
      /\ \/ j < score_length /\ stage' = "score0" /\ i' = i /\ j' = j + 1
         \/ j = score_length /\ stage' = "score1" /\ i' = i /\ j' = 0
  BY <1>1 DEF Score0, Loop, GoTo
<1>3. Are(w, "score_wrgb", i + 1) /\ \A x \in ToSet(w) : j < score_length
  BY <1>1, WriteAheadAre
<1> HIDE DEF w
<1>4. Scoring("score0", i, i) /\ ~ Scored("score0", i, i) /\ Scored("score1", i, i)
  BY <1>1 DEF Scored, Scoring, ContextStages
<1>5. Control(stage', i', j')
  BY <1>1, <1>2 DEF Control, Stages, ContextStages
<1>6. Onward(stage', i', j')
  <2>1. CASE j < score_length
    BY <1>1, <1>2, <2>1, OnwardByHead DEF Scored, Scoring, Begun, ContextStages
  <2>2. CASE j = score_length
    BY <1>1, <1>2, <2>2, OnwardByHead DEF Scored, Scoring, Begun, ContextStages
  <2> QED BY <1>1, <2>1, <2>2
<1>7. ASSUME NEW x \in ToSet(w)
      PROVE  x[1] = "score_wrgb" /\ j < score_length /\ Legal(stage', i', j', x)
  <2>1. /\ x[1] = "score_wrgb" /\ x[2] = i + 1 /\ j < score_length
        /\ stage' = "score0" /\ i' = i
    BY <1>1, <1>2, <1>3 DEF Are
  <2>2. ~ Scored("score0", i, i + 1) /\ ~ Scoring("score0", i, i + 1)
    BY <1>1 DEF Scored, Scoring, ContextStages
  <2>3. Groups("score0", i, j', i + 1) = 0
    BY <2>2, Progress
  <2> QED BY <2>1, <2>3 DEF Legal
<1>8. w \in Seq(Command)
  BY <1>3 DEF Are
<1>9. \A x \in ToSet(w) :
        /\ x[1] \in {"score_wrgb", "context_mvgb", "sfm"}
        /\ Legal(stage', i', j', x)
        /\ j < score_length
  BY <1>7
<1>10. \/ j < score_length /\ stage' = stage /\ i' = i /\ j' = j + 1
       \/ j = score_length /\ Scored(stage', i', i) /\ j' = 0
  BY <1>1, <1>2, <1>4
<1> QED BY <1>1, <1>2, <1>4, <1>5, <1>6, <1>8, <1>9, <1>10, ScoreStep

LEMMA Score1Holds ==
  ASSUME TraceInv, Score1
  PROVE  Holds(total_cmd', stage', i', j')
<1> DEFINE f == Softmax(i)
           m == MoveAhead(i, score_length)
           a == ScoreMacs(i + 1)
           b == Moves("score_mvsb", i + 1)
           rest == f \o m
<1>1. /\ ArgsTyped /\ i \in Nat /\ j \in Nat /\ i \in 0 .. num_itr /\ num_itr \in Nat
      /\ i + 1 < num_itr /\ i + 1 \in 0 .. num_itr
      /\ score_length \in Nat /\ j <= score_length /\ Sizes.context \in Nat
      /\ stage = "score1"
  BY ControlType DEF Control, Score1, Loop
<1>2. /\ total_cmd' = total_cmd \o (a \o b \o f \o m) \o Barriers(score_length)
      /\ \/ j < score_length /\ stage' = "score1" /\ i' = i /\ j' = j + 1
         \/ j = score_length /\ stage' = "context0" /\ i' = i /\ j' = 0
  BY <1>1 DEF Score1, Loop, GoTo
<1>3. /\ Are(f, "sfm", i) /\ \A x \in ToSet(f) : j = 0
      /\ Are(m, "context_mvgb", i) /\ \A x \in ToSet(m) : j < score_length
      /\ Are(a, "score_mac", i + 1) /\ Are(b, "score_mvsb", i + 1)
  BY <1>1, SoftmaxAre, MoveAheadAre, ScoreMacsAre, MovesAre DEF Kinds
<1>4. /\ a \o b \o f \o m = a \o b \o rest
      /\ rest \in Seq(Command)
      /\ ToSet(rest) = ToSet(f) \cup ToSet(m)
  <2> HIDE DEF a, b, f, m
  <2>1. a \in Seq(Command) /\ b \in Seq(Command) /\ f \in Seq(Command) /\ m \in Seq(Command)
    BY <1>3 DEF Are
  <2>2. a \o b \o f \o m = a \o b \o (f \o m)
    <3> DEFINE e == a \o b
    <3>1. e \in Seq(Command)
      BY <2>1, ConcatProperties
    <3> HIDE DEF e
    <3>2. f \in Seq(Command) /\ m \in Seq(Command)
      BY <2>1
    <3>3. e \o (f \o m) = (e \o f) \o m
      BY <3>1, <3>2, Associative
    <3> QED BY <3>3 DEF e
  <2> QED BY <2>1, <2>2, ToSetConcat
<1> HIDE DEF f, m, rest
<1>5. Scoring("score1", i, i + 1) /\ ~ Scored("score1", i, i + 1) /\ Scored("context0", i, i + 1)
  BY <1>1 DEF Scored, Scoring, ContextStages
<1>6. Control(stage', i', j')
  BY <1>1, <1>2 DEF Control, Stages, ContextStages
<1>7. Onward(stage', i', j')
  <2>1. CASE j < score_length
    BY <1>1, <1>2, <2>1, OnwardByHead DEF Scored, Scoring, Begun, ContextStages
  <2>2. CASE j = score_length
    BY <1>1, <1>2, <2>2, OnwardByHead DEF Scored, Scoring, Begun, ContextStages
  <2> QED BY <1>1, <2>1, <2>2
<1>8. \A x \in ToSet(rest) :
        /\ x[1] \in {"score_wrgb", "context_mvgb", "sfm"}
        /\ Legal(stage', i', j', x)
        /\ j < score_length
  <2>1. ~ Begun(stage, i, i) /\ Scored(stage, i, i)
    BY <1>1 DEF Begun, Scored, ContextStages
  <2>2. ASSUME NEW x \in ToSet(rest)
        PROVE  x[1] \in {"sfm", "context_mvgb"} /\ j < score_length /\ x[2] = i
    <3>1. 0 < score_length
      BY <1>1, ScoreLength
    <3> QED BY <1>3, <1>4, <3>1 DEF Are
  <2> QED BY <2>1, <2>2 DEF Legal
<1>9. total_cmd' = total_cmd \o (a \o b \o rest) \o Barriers(score_length)
  BY <1>2, <1>4
<1>10. \/ j < score_length /\ stage' = stage /\ i' = i /\ j' = j + 1
       \/ j = score_length /\ Scored(stage', i', i + 1) /\ j' = 0
  BY <1>1, <1>2, <1>5
<1> QED BY <1>1, <1>4, <1>5, <1>6, <1>7, <1>8, <1>9, <1>10, ScoreStep

LEMMA SingleScoreHolds ==
  ASSUME TraceInv, SingleScore
  PROVE  Holds(total_cmd', stage', i', j')
<1> DEFINE c == ScoreMacs(i) \o Moves("score_mvsb", i)
<1>1. /\ ArgsTyped /\ i \in Nat /\ j \in Nat /\ i \in 0 .. num_itr /\ num_itr \in Nat
      /\ i < num_itr
      /\ score_length \in Nat /\ j <= score_length
      /\ stage = "single_score"
  BY ControlType DEF Control, SingleScore, Loop
<1>2. /\ total_cmd' = total_cmd \o c \o Barriers(score_length)
      /\ \/ j < score_length /\ stage' = "single_score" /\ i' = i /\ j' = j + 1
         \/ j = score_length /\ stage' = "single_softmax" /\ i' = i /\ j' = 0
  BY <1>1 DEF SingleScore, Loop, GoTo
<1>3. c \o <<>> = c
  <2>1. ScoreMacs(i) \in Seq(Command) /\ Moves("score_mvsb", i) \in Seq(Command)
    BY <1>1, ScoreMacsAre, MovesAre DEF Are, Kinds
  <2>2. c \in Seq(Command)
    BY <2>1, ConcatProperties
  <2> QED BY <2>2, ConcatEmptySeq
<1>4. total_cmd' = total_cmd \o (c \o <<>>) \o Barriers(score_length)
  BY <1>2, <1>3
<1>5. Scoring("single_score", i, i) /\ ~ Scored("single_score", i, i) /\ Scored("single_softmax", i, i)
  BY <1>1 DEF Scored, Scoring, ContextStages
<1>6. Control(stage', i', j')
  BY <1>1, <1>2 DEF Control, Stages, ContextStages
<1>7. Onward(stage', i', j')
  <2>1. CASE j < score_length
    BY <1>1, <1>2, <2>1, OnwardByHead DEF Scored, Scoring, Begun, ContextStages
  <2>2. CASE j = score_length
    BY <1>1, <1>2, <2>2, OnwardByHead DEF Scored, Scoring, Begun, ContextStages
  <2> QED BY <1>1, <2>1, <2>2
<1>8. <<>> \in Seq(Command) /\ ToSet(<<>>) = {}
  BY EmptyAre
<1>9. \/ j < score_length /\ stage' = stage /\ i' = i /\ j' = j + 1
      \/ j = score_length /\ Scored(stage', i', i) /\ j' = 0
  BY <1>1, <1>2, <1>5
<1> QED BY <1>1, <1>4, <1>5, <1>6, <1>7, <1>8, <1>9, ScoreStep

\* An iteration of a loop that computes the context of Head0 and emits rest besides.
LEMMA ContextStep ==
  ASSUME TraceInv, stage \in ContextStages, NEW rest \in Seq(Command),
         total_cmd' = total_cmd \o (Cmds("context_mac", i, j, 1) \o Moves("context_mvsb", i) \o rest)
                        \o Barriers(Sizes.context),
         \/ j < Sizes.context /\ stage' = stage /\ i' = i /\ j' = j + 1
         \/ j = Sizes.context /\ j' = 0,
         Control(stage', i', j'), Onward(stage', i', j'),
         \A x \in ToSet(rest) :
           /\ x[1] \in {"context_mvgb", "sfm"}
           /\ Legal(stage', i', j', x)
           /\ j < Sizes.context
  PROVE  Holds(total_cmd', stage', i', j')
<1> DEFINE a == Cmds("context_mac", i, j, 1)
           b == Moves("context_mvsb", i)
           c == a \o b \o rest
<1>1. /\ ArgsTyped /\ i \in Nat /\ j \in Nat /\ i \in 0 .. num_itr
      /\ Sizes.context \in Nat /\ total_cmd \in Seq(Command)
  BY ControlType
<1>2. /\ Are(a, "context_mac", i) /\ Are(b, "context_mvsb", i)
      /\ ToSet(a) = Part("context_mac", i, j, 1)
      /\ \A x \in ToSet(b) : j > 0 /\ x = <<"context_mvsb", i, j - 1>>
  <2>1. /\ "context_mac" \in Kinds /\ "context_mvsb" \in Kinds
        /\ 1 \in Nat
    BY DEF Kinds
  <2>2. Are(a, "context_mac", i) /\ ToSet(a) = Part("context_mac", i, j, 1)
    BY <1>1, <2>1, CmdsAre, CmdsProperties
  <2> QED BY <1>1, <2>1, <2>2, MovesAre
<1>3. /\ \A x \in ToSet(a) : j < Sizes.context
      /\ j < Sizes.context => <<"context_mac", i, j>> \in ToSet(a)
  <2>1. Listed("context_mac", i) = Sizes.context
    BY DEF Listed
  <2>2. \A n \in Nat : j <= n /\ n < j + 1 => n = j
    BY <1>1
  <2>3. ASSUME NEW x \in ToSet(a) PROVE j < Sizes.context
    BY <1>2, <2>1, <2>2 DEF Part
  <2>4. j < Sizes.context => <<"context_mac", i, j>> \in Part("context_mac", i, j, 1)
    <3>1. j <= j /\ j < j + 1
      BY <1>1
    <3> QED BY <1>1, <2>1, <3>1 DEF Part
  <2> QED BY <1>2, <2>3, <2>4
<1> HIDE DEF a, b
<1>4. c \in Seq(Command) /\ ToSet(c) = ToSet(a) \cup ToSet(b) \cup ToSet(rest)
  BY <1>1, <1>2, ThreeAre DEF Are
<1>5. total_cmd' = total_cmd \o c \o Barriers(Sizes.context)
  BY DEF a, b
<1> HIDE DEF c
<1>6. PICK t \in Seq(Command) :
        /\ total_cmd' = total_cmd \o t
        /\ ToSet(c) \subseteq ToSet(t)
        /\ ToSet(t) \subseteq ToSet(c) \cup {<<"barrier", 0, 0>>}
        /\ j < Sizes.context => t # <<>> /\ t[Len(t)] = Barrier[1]
  BY <1>4, <1>5, LoopEmits
<1>7. \A x \in ToSet(t) :
        \/ x \in ToSet(a) /\ x[1] = "context_mac" /\ x[2] = i /\ j < Sizes.context
        \/ x \in ToSet(b) /\ x[1] = "context_mvsb" /\ j > 0 /\ x = <<"context_mvsb", i, j - 1>>
        \/ x \in ToSet(rest) /\ x[1] \in {"context_mvgb", "sfm"}
        \/ x = <<"barrier", 0, 0>>
  BY <1>2, <1>3, <1>4, <1>6 DEF Are
<1>8. \A x \in ToSet(t) : Legal(stage', i', j', x)
  <2> SUFFICES ASSUME NEW x \in ToSet(t) PROVE Legal(stage', i', j', x)
    OBVIOUS
  <2>1. CASE x[1] = "context_mac" /\ x[2] = i
    BY <2>1 DEF Legal
  <2>2. CASE x[1] = "context_mvsb"
    BY <2>2 DEF Legal
  <2>3. CASE x \in ToSet(rest)
    BY <2>3
  <2>4. CASE x = <<"barrier", 0, 0>>
    BY <2>4 DEF Legal
  <2> QED BY <1>7, <2>1, <2>2, <2>3, <2>4
<1>9. (\A x \in ToSet(t) : ~ NeedsBarrier(x)) \/ (t # <<>> /\ t[Len(t)] = Barrier[1])
  <2>1. CASE j = Sizes.context
    <3>1. ASSUME NEW x \in ToSet(t) PROVE ~ NeedsBarrier(x)
      <4>1. x[1] \in {"context_mvsb", "barrier"}
        <5>1. ~ (j < Sizes.context)
          BY <1>1, <2>1
        <5>2. x \notin ToSet(rest)
          BY <5>1
        <5>3. x = <<"barrier", 0, 0>> => x[1] = "barrier"
          OBVIOUS
        <5> QED BY <1>7, <5>1, <5>2, <5>3
      <4> QED BY <4>1 DEF NeedsBarrier
    <3> QED BY <3>1
  <2> QED BY <1>1, <1>6, <2>1
<1>10. ASSUME NEW x \in ToSet(t), x[1] = "context_mvsb"
       PROVE  stage \in ContextStages /\ j > 0 /\ x = <<"context_mvsb", i, j - 1>>
  <2>1. x # <<"barrier", 0, 0>> /\ x[1] \notin {"context_mac", "context_mvgb", "sfm"}
    BY <1>10
  <2> QED BY <1>7, <2>1
<1>11. ASSUME stage' \in ContextStages, j' > 0
       PROVE  /\ t # <<>> /\ t[Len(t)] = Barrier[1]
              /\ <<"context_mac", i', j' - 1>> \in ToSet(t)
  <2>1. j < Sizes.context /\ i' = i /\ j' = j + 1
    BY <1>11
  <2>2. j' - 1 = j
    BY <1>1, <2>1
  <2> QED BY <1>3, <1>4, <1>6, <2>1, <2>2
<1>12. Holds(total_cmd \o t, stage', i', j')
  BY <1>6, <1>8, <1>9, <1>10, <1>11, Emission
<1> QED BY <1>6, <1>12

LEMMA Context0Holds ==
  ASSUME TraceInv, Context0
  PROVE  Holds(total_cmd', stage', i', j')
<1> DEFINE f == Softmax(i + 1)
           m == MoveAhead(i + 1, Sizes.context)
           a == Cmds("context_mac", i, j, 1)
           b == Moves("context_mvsb", i)
           rest == f \o m
<1>1. /\ ArgsTyped /\ i \in Nat /\ j \in Nat /\ i \in 0 .. num_itr /\ num_itr \in Nat
      /\ i + 1 < num_itr /\ i + 1 \in 0 .. num_itr
      /\ Sizes.context \in Nat /\ j <= Sizes.context
      /\ stage = "context0"
  BY ControlType DEF Control, ContextStages, Context0, Loop
<1>2. /\ total_cmd' = total_cmd \o (a \o b \o f \o m) \o Barriers(Sizes.context)
      /\ \/ j < Sizes.context /\ stage' = "context0" /\ i' = i /\ j' = j + 1
         \/ j = Sizes.context /\ stage' = "context1" /\ i' = i /\ j' = 0
  BY <1>1 DEF Context0, Loop, GoTo
<1>3. /\ Are(f, "sfm", i + 1) /\ \A x \in ToSet(f) : j = 0
      /\ Are(m, "context_mvgb", i + 1) /\ \A x \in ToSet(m) : j < Sizes.context
      /\ Are(a, "context_mac", i) /\ Are(b, "context_mvsb", i)
  BY <1>1, SoftmaxAre, MoveAheadAre, CmdsAre, MovesAre DEF Kinds
<1>4. /\ a \o b \o f \o m = a \o b \o rest
      /\ rest \in Seq(Command)
      /\ ToSet(rest) = ToSet(f) \cup ToSet(m)
  <2> HIDE DEF a, b, f, m
  <2>1. a \in Seq(Command) /\ b \in Seq(Command) /\ f \in Seq(Command) /\ m \in Seq(Command)
    BY <1>3 DEF Are
  <2>2. a \o b \o f \o m = a \o b \o (f \o m)
    <3> DEFINE e == a \o b
    <3>1. e \in Seq(Command)
      BY <2>1, ConcatProperties
    <3> HIDE DEF e
    <3>2. f \in Seq(Command) /\ m \in Seq(Command)
      BY <2>1
    <3>3. e \o (f \o m) = (e \o f) \o m
      BY <3>1, <3>2, Associative
    <3> QED BY <3>3 DEF e
  <2> QED BY <2>1, <2>2, ToSetConcat
<1> HIDE DEF f, m, rest
<1>5. Control(stage', i', j')
  BY <1>1, <1>2 DEF Control, Stages, ContextStages
<1>6. Onward(stage', i', j')
  <2>1. /\ j' \in Nat
        /\ \A h \in 0 .. num_itr : ~ Scoring(stage, i, h) /\ ~ Scoring(stage', i', h)
    BY <1>1, <1>2 DEF Scoring
  <2>2. ASSUME NEW h \in 0 .. num_itr, Scored(stage, i, h) PROVE Scored(stage', i', h)
    BY <1>1, <1>2, <2>2 DEF Scored, ContextStages
  <2>3. ASSUME NEW h \in 0 .. num_itr, Begun(stage, i, h) PROVE Begun(stage', i', h)
    BY <1>1, <1>2, <2>3 DEF Begun, ContextStages
  <2>4. stage \notin {"score0", "score1", "single_score"}
    BY <1>1
  <2> QED BY <1>1, <2>1, <2>2, <2>3, <2>4, OnwardByHead
<1>7. \A x \in ToSet(rest) :
        /\ x[1] \in {"context_mvgb", "sfm"}
        /\ Legal(stage', i', j', x)
        /\ j < Sizes.context
  <2>1. ~ Begun(stage, i, i + 1) /\ Scored(stage, i, i + 1)
    BY <1>1 DEF Begun, Scored, ContextStages
  <2>2. ASSUME NEW x \in ToSet(rest)
        PROVE  x[1] \in {"sfm", "context_mvgb"} /\ j < Sizes.context /\ x[2] = i + 1
    <3>1. 0 < Sizes.context
      BY <1>1, SizesType
    <3> QED BY <1>3, <1>4, <3>1 DEF Are
  <2> QED BY <2>1, <2>2 DEF Legal
<1>8. total_cmd' = total_cmd \o (a \o b \o rest) \o Barriers(Sizes.context)
  BY <1>2, <1>4
<1>9. stage \in ContextStages
  BY <1>1 DEF ContextStages
<1> QED BY <1>1, <1>2, <1>4, <1>5, <1>6, <1>7, <1>8, <1>9, ContextStep

\* A loop that computes the context only, and goes on to iteration n.
LEMMA ContextOnly ==
  ASSUME TraceInv, NEW name, NEW n,
         \/ name = "context1" /\ n = i + 2
         \/ name = "single_context" /\ n = i + 1,
         Loop(name, Sizes.context,
              Cmds("context_mac", i, j, 1) \o Moves("context_mvsb", i), Continue(n))
  PROVE  Holds(total_cmd', stage', i', j')
<1> DEFINE c == Cmds("context_mac", i, j, 1) \o Moves("context_mvsb", i)
<1>1. /\ ArgsTyped /\ i \in Nat /\ j \in Nat /\ i \in 0 .. num_itr /\ num_itr \in Nat
      /\ stage = "context1" \/ stage = "single_context"
      /\ stage = name
      /\ n \in Nat /\ n <= num_itr
      /\ stage = "context1" => i + 1 < num_itr /\ n = i + 2
      /\ stage = "single_context" => i < num_itr /\ n = i + 1
      /\ Sizes.context \in Nat /\ j <= Sizes.context
  BY ControlType DEF Control, ContextStages, Loop
<1>2. /\ total_cmd' = total_cmd \o c \o Barriers(Sizes.context)
      /\ \/ j < Sizes.context /\ stage' = stage /\ i' = i /\ j' = j + 1
         \/ /\ j = Sizes.context /\ i' = n /\ j' = 0
            /\ \/ stage' = "query" /\ n + 1 < num_itr
               \/ stage' = "single_query" /\ n < num_itr
               \/ stage' = "done"
  BY <1>1 DEF Loop, Continue
<1>3. c \o <<>> = c
  <2>1. Cmds("context_mac", i, j, 1) \in Seq(Command) /\ Moves("context_mvsb", i) \in Seq(Command)
    BY <1>1, CmdsAre, MovesAre DEF Are, Kinds
  <2>2. c \in Seq(Command)
    BY <2>1, ConcatProperties
  <2> QED BY <2>2, ConcatEmptySeq
<1>4. total_cmd' = total_cmd \o (c \o <<>>) \o Barriers(Sizes.context)
  BY <1>2, <1>3
<1>5. Control(stage', i', j')
  BY <1>1, <1>2 DEF Control, Stages, ContextStages
<1>6. Onward(stage', i', j')
  <2>1. /\ j' \in Nat
        /\ \A h \in 0 .. num_itr : ~ Scoring(stage, i, h) /\ ~ Scoring(stage', i', h)
    BY <1>1, <1>2 DEF Scoring
  <2>2. ASSUME NEW h \in 0 .. num_itr, Scored(stage, i, h) PROVE Scored(stage', i', h)
    BY <1>1, <1>2, <2>2 DEF Scored, ContextStages
  <2>3. ASSUME NEW h \in 0 .. num_itr, Begun(stage, i, h) PROVE Begun(stage', i', h)
    BY <1>1, <1>2, <2>3 DEF Begun, ContextStages
  <2>4. stage \notin {"score0", "score1", "single_score"}
    BY <1>1
  <2> QED BY <1>1, <2>1, <2>2, <2>3, <2>4, OnwardByHead
<1>7. <<>> \in Seq(Command) /\ ToSet(<<>>) = {}
  BY EmptyAre
<1>8. stage \in ContextStages
  BY <1>1 DEF ContextStages
<1> QED BY <1>1, <1>2, <1>4, <1>5, <1>6, <1>7, <1>8, ContextStep

\* A step that is no loop emits commands and a barrier.
LEMMA StepEmits ==
  ASSUME TraceInv, NEW c \in Seq(Command),
         total_cmd' = total_cmd \o c \o Barrier, j' = 0,
         Control(stage', i', j'), Onward(stage', i', j'),
         \A x \in ToSet(c) : x[1] # "context_mvsb" /\ Legal(stage', i', j', x)
  PROVE  Holds(total_cmd', stage', i', j')
<1>1. ArgsTyped /\ total_cmd \in Seq(Command)
  BY ControlType
<1>2. PICK t : t = c \o Barrier
  OBVIOUS
<1>3. /\ t \in Seq(Command)
      /\ (total_cmd \o c) \o Barrier = total_cmd \o t
      /\ ToSet(t) = ToSet(c) \cup {<<"barrier", 0, 0>>}
      /\ t # <<>> /\ t[Len(t)] = Barrier[1]
  BY <1>1, <1>2, WithBarrier
<1>4. \A x \in ToSet(t) : x[1] # "context_mvsb" /\ Legal(stage', i', j', x)
  <2>1. \A x : x = <<"barrier", 0, 0>> => x[1] # "context_mvsb" /\ Legal(stage', i', j', x)
    BY DEF Legal
  <2> QED BY <1>3, <2>1
<1>5. ~ (j' > 0)
  OBVIOUS
<1>6. Holds(total_cmd \o t, stage', i', j')
  BY <1>3, <1>4, <1>5, Emission
<1> QED BY <1>3, <1>6

\* The vector of Head0 is written before any of its MACs.
LEMMA QueryEmits ==
  ASSUME TraceInv, NEW d \in Seq(Command), \A x \in ToSet(d) : x[1] = "dummy_mac",
         total_cmd' = total_cmd \o (All("score_wrgb", i) \o d) \o Barrier,
         \/ stage = "query" /\ stage' = "score0"
         \/ stage = "single_query" /\ stage' = "single_score",
         i' = i, j' = j
  PROVE  Holds(total_cmd', stage', i', j')
<1> DEFINE w == All("score_wrgb", i)
           c == w \o d
<1>1. /\ ArgsTyped /\ i \in Nat /\ j = 0 /\ j' = 0 /\ i \in 0 .. num_itr
      /\ i < num_itr /\ (stage = "query" => i + 1 < num_itr)
      /\ score_length \in Nat /\ 0 <= score_length
  BY ControlType DEF Control
<1>2. Are(w, "score_wrgb", i)
  BY <1>1, AllAre DEF Kinds
<1> HIDE DEF w
<1>3. c \in Seq(Command) /\ ToSet(c) = ToSet(w) \cup ToSet(d)
  BY <1>2, ToSetConcat DEF Are
<1>4. total_cmd' = total_cmd \o c \o Barrier
  BY DEF w
<1> HIDE DEF c
<1>5. Control(stage', i', j')
  BY <1>1, ControlType DEF Control, Stages, ContextStages
<1>6. Scoring(stage', i, i) /\ ~ Scored(stage', i, i)
  BY <1>1 DEF Scoring, Scored, ContextStages
<1>7. Onward(stage', i', j')
  <2>1. /\ \A h \in 0 .. num_itr : ~ Scoring(stage, i, h)
        /\ j \in Nat /\ j' \in Nat /\ j' <= score_length
    BY <1>1 DEF Scoring
  <2>2. ASSUME NEW h \in 0 .. num_itr
        PROVE  /\ Scored(stage, i, h) => Scored(stage', i', h)
               /\ Begun(stage, i, h) => Begun(stage', i', h)
    BY <1>1 DEF Scored, Begun, ContextStages
  <2>3. stage \notin {"score0", "score1", "single_score"}
    OBVIOUS
  <2> QED BY <1>1, <2>1, <2>2, <2>3, OnwardByHead
<1>8. Groups(stage', i', j', i) = 0
  BY <1>1, <1>6, Progress
<1>9. \A x \in ToSet(c) : x[1] # "context_mvsb" /\ Legal(stage', i', j', x)
  <2>1. ASSUME NEW x \in ToSet(c)
        PROVE  x[1] = "dummy_mac" \/ (x[1] = "score_wrgb" /\ x[2] = i)
    BY <1>2, <1>3 DEF Are
  <2> QED BY <1>8, <2>1 DEF Legal
<1> QED BY <1>1, <1>3, <1>4, <1>5, <1>7, <1>9, StepEmits

LEMMA QueryHolds ==
  ASSUME TraceInv, Query
  PROVE  Holds(total_cmd', stage', i', j')
<1> DEFINE w == All("score_wrgb", i)
           d == IF i = 0 THEN <<<<"dummy_mac", 0, 0>>>> ELSE <<>>
<1>1. d \in Seq(Command) /\ \A x \in ToSet(d) : x[1] = "dummy_mac"
  <2>1. <<"dummy_mac", 0, 0>> \in Command
    BY ControlType DEF Command
  <2> DEFINE e == <<<<"dummy_mac", 0, 0>>>>
  <2>2. /\ e \in Seq(Command) /\ Len(e) = 1 /\ e[1] = <<"dummy_mac", 0, 0>>
    BY <2>1
  <2> HIDE DEF e
  <2>3. ToSet(e) = {e[p] : p \in 1 .. Len(e)}
    BY <2>2, ToSetByIndex
  <2>4. \A p \in 1 .. Len(e) : p = 1
    BY <2>2
  <2>5. \A x \in ToSet(e) : x[1] = "dummy_mac"
    BY <2>2, <2>3, <2>4
  <2>6. d = e \/ d = <<>>
    BY DEF e
  <2> QED BY <2>2, <2>5, <2>6, EmptyAre
<1> HIDE DEF d
<1>2. /\ total_cmd' = total_cmd \o w \o d \o Barrier
      /\ stage = "query" /\ stage' = "score0" /\ i' = i /\ j' = j
  BY DEF Query, GoTo, d
<1>3. (total_cmd \o w) \o d = total_cmd \o (w \o d)
  <2>1. w \in Seq(Command)
    BY ControlType, AllAre DEF Are, Kinds
  <2>2. total_cmd \in Seq(Command)
    BY ControlType
  <2> HIDE DEF w
  <2> QED BY <1>1, <2>1, <2>2, ConcatAssociative
<1>4. total_cmd' = total_cmd \o (w \o d) \o Barrier
  BY <1>2, <1>3
<1> QED BY <1>1, <1>2, <1>4, QueryEmits

LEMMA SingleQueryHolds ==
  ASSUME TraceInv, SingleQuery
  PROVE  Holds(total_cmd', stage', i', j')
<1> DEFINE w == All("score_wrgb", i)
<1>1. /\ total_cmd' = total_cmd \o w \o Barrier
      /\ stage = "single_query" /\ stage' = "single_score" /\ i' = i /\ j' = j
  BY DEF SingleQuery, GoTo
<1>2. w \o <<>> = w
  <2>1. w \in Seq(Command)
    BY ControlType, AllAre DEF Are, Kinds
  <2> HIDE DEF w
  <2> QED BY <2>1, ConcatEmptySeq
<1>3. total_cmd' = total_cmd \o (w \o <<>>) \o Barrier
  BY <1>1, <1>2
<1>4. <<>> \in Seq(Command) /\ \A x \in ToSet(<<>>) : x[1] = "dummy_mac"
  BY EmptyAre
<1> QED BY <1>1, <1>3, <1>4, QueryEmits

\* The probabilities are moved after the softmax and before the context.
LEMMA SingleSoftmaxHolds ==
  ASSUME TraceInv, SingleSoftmax
  PROVE  Holds(total_cmd', stage', i', j')
<1> DEFINE f == All("sfm", i)
           m == All("context_mvgb", i)
           c == f \o m
<1>1. /\ ArgsTyped /\ i \in Nat /\ j = 0 /\ i \in 0 .. num_itr
      /\ i < num_itr /\ score_length \in Nat /\ Sizes.context \in Nat
      /\ total_cmd \in Seq(Command)
      /\ stage = "single_softmax"
  BY ControlType DEF Control, SingleSoftmax
<1>2. /\ total_cmd' = total_cmd \o f \o m \o Barrier
      /\ stage' = "single_context" /\ i' = i /\ j' = 0
  BY <1>1 DEF SingleSoftmax, GoTo
<1>3. Are(f, "sfm", i) /\ Are(m, "context_mvgb", i)
  BY <1>1, AllAre DEF Kinds
<1>4. f \in Seq(Command) /\ m \in Seq(Command)
  BY <1>3 DEF Are
<1> HIDE DEF f, m
<1>5. c \in Seq(Command) /\ ToSet(c) = ToSet(f) \cup ToSet(m)
  BY <1>4, ToSetConcat
<1>6. total_cmd' = total_cmd \o c \o Barrier
  <2> HIDE DEF c
  <2>1. \A s \in Seq(Command) : (s \o f) \o m = s \o (f \o m)
    BY <1>4, ConcatAssociative
  <2>2. (total_cmd \o f) \o m = total_cmd \o c
    BY <1>1, <2>1 DEF c
  <2> QED BY <1>2, <2>2
<1> HIDE DEF c
<1>7. Control(stage', i', j')
  BY <1>1, <1>2 DEF Control, Stages, ContextStages
<1>8. Onward(stage', i', j')
  <2>1. \A h \in 0 .. num_itr : ~ Scoring(stage, i, h)
    BY <1>1 DEF Scoring
  <2>2. ASSUME NEW h \in 0 .. num_itr
        PROVE  /\ Scored(stage, i, h) => Scored(stage', i', h)
               /\ Begun(stage, i, h) => Begun(stage', i', h)
               /\ ~ Scoring(stage', i', h)
    BY <1>1, <1>2 DEF Scored, Scoring, Begun, ContextStages
  <2>3. /\ stage \notin {"score0", "score1", "single_score"}
        /\ j \in Nat /\ j' \in Nat
    BY <1>1, <1>2
  <2> QED BY <1>1, <2>1, <2>2, <2>3, OnwardByHead
<1>9. \A x \in ToSet(c) : x[1] # "context_mvsb" /\ Legal(stage', i', j', x)
  <2>1. ASSUME NEW x \in ToSet(c)
        PROVE  x[1] \in {"sfm", "context_mvgb"} /\ x[2] = i
    BY <1>3, <1>5 DEF Are
  <2>2. ~ Begun(stage, i, i) /\ Scored(stage, i, i)
    BY <1>1 DEF Begun, Scored, ContextStages
  <2> QED BY <2>1, <2>2 DEF Legal
<1> QED BY <1>2, <1>5, <1>6, <1>7, <1>8, <1>9, StepEmits

-----------------------------------------------------------------------------
(* The invariant. *)

LEMMA InitHolds == Init => TraceInv
<1> SUFFICES ASSUME Init PROVE TraceInv
  OBVIOUS
<1>1. ArgsTyped
  BY DEF Init, ArgsTyped
<1>2. num_itr \in Nat \ {0}
  BY <1>1, NumItr
<1>3. /\ i = 0 /\ j = 0 /\ total_cmd = <<>>
      /\ \/ stage = "query" /\ 1 < num_itr
         \/ stage = "single_query" /\ ~ (1 < num_itr)
  BY DEF Init
<1>4. Control(stage, i, j)
  BY <1>2, <1>3 DEF Control, Stages, ContextStages
<1>5. /\ <<>> \in Seq(Command) /\ ToSet(<<>>) = {}
      /\ \A p : p \notin 1 .. Len(<<>>)
  BY EmptyAre
<1>6. Respected(<<>>) /\ Fenced(<<>>) /\ FollowsMac(<<>>)
  BY <1>5 DEF Respected, Fenced, FollowsMac
<1> QED BY <1>1, <1>3, <1>4, <1>5, <1>6 DEF TraceInv, Holds

LEMMA Inductive == TraceInv /\ [Next]_vars => TraceInv'
<1> SUFFICES ASSUME TraceInv, [Next]_vars PROVE TraceInv'
  OBVIOUS
<1>1. UNCHANGED args
  BY DEF Next, vars, Query, Score0, Score1, Context0, Context1, SingleQuery,
         SingleScore, SingleSoftmax, SingleContext, Loop
<1>2. Holds(total_cmd', stage', i', j')
  <2>1. CASE Query
    BY <2>1, QueryHolds
  <2>2. CASE Score0
    BY <2>2, Score0Holds
  <2>3. CASE Score1
    BY <2>3, Score1Holds
  <2>4. CASE Context0
    BY <2>4, Context0Holds
  <2>5. CASE Context1
    BY <2>5, ContextOnly DEF Context1
  <2>6. CASE SingleQuery
    BY <2>6, SingleQueryHolds
  <2>7. CASE SingleScore
    BY <2>7, SingleScoreHolds
  <2>8. CASE SingleSoftmax
    BY <2>8, SingleSoftmaxHolds
  <2>9. CASE SingleContext
    BY <2>9, ContextOnly DEF SingleContext
  <2>10. CASE UNCHANGED vars
    BY <2>10 DEF vars, TraceInv
  <2> QED BY <2>1, <2>2, <2>3, <2>4, <2>5, <2>6, <2>7, <2>8, <2>9, <2>10 DEF Next
<1>3. num_itr' = num_itr /\ Sizes' = Sizes /\ score_length' = score_length
  BY <1>1 DEF args, num_itr, Sizes, BankSizes, BgSizes, BufferSizes, score_length
<1>4. Holds(total_cmd, stage, i, j)'
  <2>1. Control(stage, i, j)' /\ Command' = Command
    BY <1>2, <1>3 DEF Holds, Control, Command, ContextStages, Stages
  <2>2. (\A x \in ToSet(total_cmd) : Reached(stage, i, j, x))'
    BY <1>2, <1>3 DEF Holds, Reached, Groups, Moved, Scored, Scoring, Begun, ContextStages
  <2>3. Respected(total_cmd)' /\ Fenced(total_cmd)' /\ FollowsMac(total_cmd)'
    <3>1. Respected(total_cmd)'
      BY <1>2, <1>3 DEF Holds, Respected, Depends
    <3>2. Fenced(total_cmd)'
      BY <1>2, <1>3 DEF Holds, Fenced, Behind, NeedsBarrier
    <3>3. FollowsMac(total_cmd)'
      BY <1>2 DEF Holds, FollowsMac
    <3> QED BY <3>1, <3>2, <3>3
  <2>4. (stage \in ContextStages /\ j > 0 =>
          \E p \in 1 .. Len(total_cmd) :
            total_cmd[p] = <<"context_mac", i, j - 1>> /\ Behind(total_cmd, p))'
    BY <1>2 DEF Holds, Behind, ContextStages
  <2> QED BY <1>2, <2>1, <2>2, <2>3, <2>4 DEF Holds
<1>5. ArgsTyped'
  BY <1>1 DEF TraceInv, ArgsTyped, args
<1> QED BY <1>4, <1>5 DEF TraceInv

LEMMA Always == Spec => []TraceInv
BY InitHolds, Inductive, PTL DEF Spec

-----------------------------------------------------------------------------
(* What it is for. *)

LEMMA Separation ==
  ASSUME TraceInv, NEW p \in DOMAIN total_cmd, NEW q \in DOMAIN total_cmd,
         Depends(total_cmd[q], total_cmd[p])
  PROVE  Separated(p, q)
<1>1. DOMAIN total_cmd = 1 .. Len(total_cmd)
  BY ControlType, LenProperties
<1> QED BY <1>1 DEF TraceInv, Holds, Respected, Separated

\* The variables keep their types: the loops over j end, the stages follow one
\* another, and only commands of the lists, barriers and the dummy MAC of the
\* first pair are emitted (run_attention).
THEOREM TypeCorrect == Spec => []TypeOK
<1>1. ASSUME TraceInv PROVE TypeOK
  BY <1>1 DEF TraceInv, ArgsTyped, Holds, Control, Stages, TypeOK, Command
<1> QED BY <1>1, Always, PTL

\* The MACs of a score come after all WR_GB of its head and a barrier, though
\* the vector of Head1 is written during the score of Head0: the last WR_GBs
\* are in an iteration that ends with a barrier.
THEOREM ScoreFollowsQuery == Spec => []ScoreAfterQuery
<1>1. ASSUME TraceInv PROVE ScoreAfterQuery
  BY <1>1, Separation DEF ScoreAfterQuery, At, Depends
<1> QED BY <1>1, Always, PTL

\* A group of results is moved out behind a barrier that follows its MACs, and
\* is moved before the MACs of the group after the next: the moves run one
\* iteration behind the MACs.  A move of the context has its MAC behind a
\* barrier as well.
THEOREM MovesFollowMacs == Spec => []MoveAfterMac
<1>1. ASSUME TraceInv PROVE MoveAfterMac
  <2>1. \A h \in Iterations : \A p \in At("score_mac", h), q \in At("score_mvsb", h) :
          Number(p) \div n_group = Number(q) => Separated(p, q)
    BY <1>1, Separation DEF At, Number, Depends
  <2>2. \A h \in Iterations : \A p \in At("score_mac", h), q \in At("score_mvsb", h) :
          Number(p) \div n_group >= Number(q) + 2 => Separated(q, p)
    BY <1>1, Separation DEF At, Number, Depends
  <2>3. ASSUME NEW h \in Iterations, NEW q \in At("context_mvsb", h)
        PROVE  \E p \in At("context_mac", h) : Number(p) = Number(q) /\ Separated(p, q)
    <3>1. DOMAIN total_cmd = 1 .. Len(total_cmd)
      BY <1>1, ControlType, LenProperties
    <3>2. q \in 1 .. Len(total_cmd) /\ total_cmd[q][1] = "context_mvsb" /\ total_cmd[q][2] = h
      BY <3>1 DEF At
    <3>3. PICK p \in 1 .. Len(total_cmd) :
            /\ total_cmd[p] = <<"context_mac", h, total_cmd[q][3]>>
            /\ \E b \in p + 1 .. q - 1 : total_cmd[b] = Barrier[1]
      BY <1>1, <3>2 DEF TraceInv, Holds, FollowsMac
    <3>4. p \in At("context_mac", h)
      BY <3>1, <3>3 DEF At
    <3> QED BY <3>3, <3>4 DEF Number, Separated
  <2> QED BY <2>1, <2>2, <2>3 DEF MoveAfterMac
<1> QED BY <1>1, Always, PTL

\* The probabilities of a head are in the buffers, behind a barrier, before
\* the first MAC of its context: the moves of Head1 are spread over the
\* context of Head0, and none is left for its own.  A softmax is emitted among
\* the commands of the other head (Head0's in the score of Head1, Head1's in
\* the context of Head0), behind a barrier that follows the MACs of its score
\* and all moves but those of the last group; another one follows it.
THEOREM ContextOrdered == Spec => []ContextInOrder
<1>1. ASSUME TraceInv PROVE ContextInOrder
  <2>1. \A h : Listed("score_mvsb", h) = score_length
    BY DEF Listed, score_length
  <2>2. ASSUME NEW h \in Iterations, NEW f \in At("sfm", h)
        PROVE  /\ \A p \in At("score_mac", h) : Separated(p, f)
               /\ \A p \in At("score_mvsb", h) : Number(p) + 1 < score_length => Separated(p, f)
               /\ \A q \in At("context_mac", h) : Separated(f, q)
    BY <1>1, Separation DEF At, Number, Depends
  <2>3. ASSUME NEW h \in Iterations, NEW p \in At("context_mvgb", h), NEW q \in At("context_mac", h)
        PROVE  Separated(p, q)
    BY <1>1, Separation DEF At, Depends
  <2> QED BY <2>1, <2>2, <2>3 DEF ContextInOrder
<1> QED BY <1>1, Always, PTL

-----------------------------------------------------------------------------
(* What has been emitted of each head.  The moves of the context may come  *)
(* twice (Context1), what its score and softmax need must not.             *)

Counted == {"score_mac", "score_mvsb", "sfm", "score_wrgb", "context_mvgb"}

Upto(kind, h, n) == IF n < Listed(kind, h) THEN n ELSE Listed(kind, h)

\* The commands of a list in s are those from number x on before y, each once.
Block(s, kind, h, x, y) ==
  /\ \A p \in 1 .. Len(s) : s[p][1] = kind /\ s[p][2] = h => x <= s[p][3] /\ s[p][3] < y
  /\ \A p, q \in 1 .. Len(s) : s[p][1] = kind /\ s[p][2] = h /\ s[p] = s[q] => p = q
  /\ \A m \in Nat : x <= m /\ m < y => \E p \in 1 .. Len(s) : s[p] = <<kind, h, m>>

Stride(kind, h, parts) == Listed(kind, h) \div parts

\* Of the vectors of h, when those of Head0 are written at once and those of
\* Head1 in parts,
Wrote(st, k, l, h) ==
  IF h = k THEN IF st \in {"query", "single_query"} THEN 0 ELSE Listed("score_wrgb", h)
  ELSE IF h = k + 1 /\ st \in {"score0", "score1", "context0", "context1"}
       THEN (IF st = "score0" THEN l ELSE score_length) * Stride("score_wrgb", h, score_length)
  ELSE 0

\* and of its probabilities: in the second half of the iterations of a loop.
Late(l, length) == IF l < length \div 2 THEN 0 ELSE l - length \div 2

Ahead(st, k, l, h) ==
  IF h = k
  THEN IF st = "single_context" THEN Listed("context_mvgb", h)
       ELSE IF st \in {"score1", "context0", "context1"}
       THEN (IF st = "score1" THEN Late(l, score_length) ELSE half(score_length))
              * Stride("context_mvgb", h, half(score_length))
       ELSE 0
  ELSE IF h = k + 1 /\ st \in {"context0", "context1"}
       THEN (IF st = "context0" THEN Late(l, Sizes.context) ELSE half(Sizes.context))
              * Stride("context_mvgb", h, half(Sizes.context))
  ELSE 0

Softened(st, k, l, h) ==
  \/ h = k /\ (st \in ContextStages \/ (st = "score1" /\ l > 0))
  \/ h = k + 1 /\ (st = "context1" \/ (st = "context0" /\ l > 0))

Count(kind, st, k, l, h) ==
  CASE kind = "score_mac" -> Upto(kind, h, Groups(st, k, l, h) * n_group)
    [] kind = "score_mvsb" -> Moved(st, k, l, h)
    [] kind = "sfm" -> IF Softened(st, k, l, h) THEN 1 ELSE 0
    [] kind = "score_wrgb" -> Wrote(st, k, l, h)
    [] kind = "context_mvgb" -> Ahead(st, k, l, h)

\* All of a list, but for the rest of the strides.
Enough(kind, h, n) ==
  /\ n <= Listed(kind, h)
  /\ kind \in {"score_mac", "score_mvsb", "sfm"} => n = Listed(kind, h)
  /\ kind = "score_wrgb" => Listed(kind, h) - n < score_length
  /\ kind = "context_mvgb" => Listed(kind, h) - n < half(score_length) + half(Sizes.context)

Proper(kind, st, k, l, h, n) ==
  IF h < k THEN Enough(kind, h, n) ELSE n = Count(kind, st, k, l, h)

Counts(s, st, k, l) ==
  \A kind \in Counted, h \in Iterations :
    \E n \in 0 .. Listed(kind, h) : Block(s, kind, h, 0, n) /\ Proper(kind, st, k, l, h, n)

CountInv == Counts(total_cmd, stage, i, j)

-----------------------------------------------------------------------------
(* Blocks of commands. *)

\* Blocks that follow one another.
LEMMA BlockConcat ==
  ASSUME NEW S, NEW s \in Seq(S), NEW t \in Seq(S), NEW kind, NEW h,
         NEW x \in Nat, NEW y \in Nat, NEW z \in Nat, x <= y, y <= z,
         \A c \in S : c[3] \in Nat,
         Block(s, kind, h, x, y), Block(t, kind, h, y, z)
  PROVE  Block(s \o t, kind, h, x, z)
<1> DEFINE u == s \o t
           Mine(c) == c[1] = kind /\ c[2] = h
<1>1. /\ Len(s) \in Nat /\ Len(t) \in Nat
      /\ Len(u) = Len(s) + Len(t)
      /\ \A p \in 1 .. Len(s) : u[p] = s[p]
      /\ \A p \in Len(s) + 1 .. Len(u) : p - Len(s) \in 1 .. Len(t) /\ u[p] = t[p - Len(s)]
      /\ \A p \in 1 .. Len(t) : p + Len(s) \in Len(s) + 1 .. Len(u) /\ u[p + Len(s)] = t[p]
  BY ConcatProperties, LenProperties
<1>2. \A p \in 1 .. Len(u) : p \in 1 .. Len(s) \/ p \in Len(s) + 1 .. Len(u)
  BY <1>1
<1>3. /\ \A p \in 1 .. Len(s) : s[p] \in S
      /\ \A p \in 1 .. Len(t) : t[p] \in S
  BY LenProperties
<1> HIDE DEF u
<1>4. /\ \A p \in 1 .. Len(s) : Mine(u[p]) => u[p][3] \in Nat /\ x <= u[p][3] /\ u[p][3] < y
      /\ \A p \in Len(s) + 1 .. Len(u) : Mine(u[p]) => u[p][3] \in Nat /\ y <= u[p][3] /\ u[p][3] < z
  <2>1. \A p \in 1 .. Len(s) : Mine(u[p]) => u[p][3] \in Nat /\ x <= u[p][3] /\ u[p][3] < y
    <3>1. \A p \in 1 .. Len(s) : Mine(s[p]) => s[p][3] \in Nat /\ x <= s[p][3] /\ s[p][3] < y
      BY <1>3 DEF Block
    <3> HIDE DEF Mine
    <3> QED BY <1>1, <3>1
  <2>2. \A p \in Len(s) + 1 .. Len(u) : Mine(u[p]) => u[p][3] \in Nat /\ y <= u[p][3] /\ u[p][3] < z
    <3>1. \A p \in 1 .. Len(t) : Mine(t[p]) => t[p][3] \in Nat /\ y <= t[p][3] /\ t[p][3] < z
      BY <1>3 DEF Block
    <3> HIDE DEF Mine
    <3> QED BY <1>1, <3>1
  <2> QED BY <2>1, <2>2
<1>5. \A p \in 1 .. Len(u) : Mine(u[p]) => x <= u[p][3] /\ u[p][3] < z
  BY <1>2, <1>4
<1>6. ASSUME NEW p \in 1 .. Len(u), NEW q \in 1 .. Len(u), Mine(u[p]), u[p] = u[q]
      PROVE  p = q
  <2>1. CASE p \in 1 .. Len(s) /\ q \in 1 .. Len(s)
    <3>1. u[p] = s[p] /\ u[q] = s[q]
      BY <1>1, <2>1
    <3>2. Mine(s[p]) /\ s[p] = s[q]
      BY <1>6, <3>1
    <3> HIDE DEF Mine
    <3> QED BY <2>1, <3>2 DEF Block, Mine
  <2>2. CASE p \in Len(s) + 1 .. Len(u) /\ q \in Len(s) + 1 .. Len(u)
    <3>1. /\ p - Len(s) \in 1 .. Len(t) /\ u[p] = t[p - Len(s)]
          /\ q - Len(s) \in 1 .. Len(t) /\ u[q] = t[q - Len(s)]
      BY <1>1, <2>2
    <3>2. Mine(t[p - Len(s)]) /\ t[p - Len(s)] = t[q - Len(s)]
      BY <1>6, <3>1
    <3> HIDE DEF Mine
    <3>3. p - Len(s) = q - Len(s)
      BY <3>1, <3>2 DEF Block, Mine
    <3> QED BY <1>1, <2>2, <3>3
  <2>3. CASE p \in 1 .. Len(s) /\ q \in Len(s) + 1 .. Len(u)
    <3>1. u[p][3] \in Nat /\ u[q][3] \in Nat /\ u[p][3] < y /\ y <= u[q][3]
      BY <1>4, <1>6, <2>3
    <3>2. u[p][3] = u[q][3]
      BY <1>6
    <3> HIDE DEF u
    <3> QED BY <3>1, <3>2
  <2>4. CASE q \in 1 .. Len(s) /\ p \in Len(s) + 1 .. Len(u)
    <3>1. u[q][3] \in Nat /\ u[p][3] \in Nat /\ u[q][3] < y /\ y <= u[p][3]
      BY <1>4, <1>6, <2>4
    <3>2. u[q][3] = u[p][3]
      BY <1>6
    <3> HIDE DEF u
    <3> QED BY <3>1, <3>2
  <2> QED BY <1>2, <2>1, <2>2, <2>3, <2>4
<1>7. ASSUME NEW m \in Nat, x <= m, m < z
      PROVE  \E p \in 1 .. Len(u) : u[p] = <<kind, h, m>>
  <2>1. CASE m < y
    <3>1. PICK p \in 1 .. Len(s) : s[p] = <<kind, h, m>>
      BY <1>7, <2>1 DEF Block
    <3>2. p \in 1 .. Len(u) /\ u[p] = s[p]
      BY <1>1
    <3> QED BY <3>1, <3>2
  <2>2. CASE y <= m
    <3>1. PICK p \in 1 .. Len(t) : t[p] = <<kind, h, m>>
      BY <1>7, <2>2 DEF Block
    <3>2. p + Len(s) \in Len(s) + 1 .. Len(u) /\ u[p + Len(s)] = <<kind, h, m>>
      BY <1>1, <3>1
    <3>3. p + Len(s) \in 1 .. Len(u)
      BY <1>1, <3>2
    <3> QED BY <3>2, <3>3
  <2> QED BY <2>1, <2>2
<1> QED BY <1>5, <1>6, <1>7 DEF Block, u

\* No command of the list.
LEMMA NoBlock ==
  ASSUME NEW S, NEW t \in Seq(S), NEW kind, NEW h, NEW x \in Nat,
         \A c \in ToSet(t) : ~ (c[1] = kind /\ c[2] = h)
  PROVE  Block(t, kind, h, x, x)
<1>1. \A p \in 1 .. Len(t) : t[p] \in ToSet(t)
  BY ToSetByIndex
<1>2. \A m \in Nat : ~ (x <= m /\ m < x)
  OBVIOUS
<1> QED BY <1>1, <1>2 DEF Block

\* Commands t of one list follow s; n is the number of those of any list.
LEMMA Extend ==
  ASSUME ArgsTyped, NEW s \in Seq(Command), NEW list, NEW g, NEW t, Are(t, list, g),
         NEW kind, NEW h, NEW n \in Nat, NEW m \in Nat, n <= m,
         Block(s, kind, h, 0, n),
         kind = list /\ h = g => Block(t, kind, h, n, m),
         ~ (kind = list /\ h = g) => m = n
  PROVE  s \o t \in Seq(Command) /\ Block(s \o t, kind, h, 0, m)
<1>1. t \in Seq(Command)
  BY DEF Are
<1>2. s \o t \in Seq(Command)
  BY <1>1, ConcatProperties
<1>3. Block(t, kind, h, n, m)
  <2>1. CASE kind = list /\ h = g
    BY <2>1
  <2>2. CASE ~ (kind = list /\ h = g)
    <3>1. \A c \in ToSet(t) : ~ (c[1] = kind /\ c[2] = h)
      BY <2>2 DEF Are
    <3>2. m = n
      BY <2>2
    <3> QED BY <1>1, <3>1, <3>2, NoBlock
  <2> QED BY <2>1, <2>2
<1>4. \A c \in Command : c[3] \in Nat
  BY DEF Command
<1>5. PICK zero \in Nat : zero = 0
  OBVIOUS
<1>6. zero <= n /\ Block(s, kind, h, zero, n)
  BY <1>5
<1>7. Block(s \o t, kind, h, zero, m)
  BY <1>1, <1>3, <1>4, <1>6, BlockConcat
<1> QED BY <1>2, <1>5, <1>7

\* The number of commands of a list below n.
LEMMA UptoType ==
  ASSUME ArgsTyped, NEW kind \in Kinds, NEW h \in Nat, NEW n \in Nat
  PROVE  Upto(kind, h, n) \in 0 .. Listed(kind, h) /\ Listed(kind, h) \in Nat
BY ListedType DEF Upto

\* A slice of a list.
LEMMA CmdsBlock ==
  ASSUME ArgsTyped, NEW kind \in Kinds, NEW h \in 0 .. num_itr,
         NEW first \in Nat, NEW count \in Nat
  PROVE  /\ Block(Cmds(kind, h, first, count), kind, h, Upto(kind, h, first), Upto(kind, h, first + count))
         /\ Upto(kind, h, first) <= Upto(kind, h, first + count)
<1> DEFINE s == Cmds(kind, h, first, count)
           size == Listed(kind, h)
           x == Upto(kind, h, first)
           y == Upto(kind, h, first + count)
<1>1. size \in Nat
  <2>1. h \in Nat
    BY NumItr
  <2> QED BY <2>1, ListedType
<1>2. /\ s \in Seq(Command)
      /\ ToSet(s) = Part(kind, h, first, count)
      /\ \A p, q \in 1 .. Len(s) : s[p] = s[q] => p = q
  BY CmdsProperties
<1>3. ToSet(s) = {s[p] : p \in 1 .. Len(s)}
  BY <1>2, ToSetByIndex
<1>4. /\ x = IF first < size THEN first ELSE size
      /\ y = IF first + count < size THEN first + count ELSE size
  BY DEF Upto
<1> HIDE DEF s, size, x, y
<1>5. x <= y
  BY <1>1, <1>4
<1>6. ASSUME NEW p \in 1 .. Len(s) PROVE x <= s[p][3] /\ s[p][3] < y
  <2>1. s[p] \in Part(kind, h, first, count)
    BY <1>2, <1>3
  <2>2. PICK m \in Nat : first <= m /\ m < first + count /\ m < size /\ s[p] = <<kind, h, m>>
    BY <2>1 DEF Part, size
  <2>3. s[p][3] = m
    BY <2>2
  <2> QED BY <1>1, <1>4, <2>2, <2>3
<1>7. ASSUME NEW m \in Nat, x <= m, m < y PROVE \E p \in 1 .. Len(s) : s[p] = <<kind, h, m>>
  <2>1. first <= m /\ m < first + count /\ m < size
    BY <1>1, <1>4, <1>7
  <2>2. <<kind, h, m>> \in Part(kind, h, first, count)
    BY <2>1 DEF Part, size
  <2> QED BY <1>2, <1>3, <2>2
<1> QED BY <1>2, <1>5, <1>6, <1>7 DEF Block, s, x, y

\* The strides fit in the list, and fewer commands are left over than there are strides.
LEMMA StrideFits ==
  ASSUME NEW n \in Nat, NEW parts \in Nat \ {0}, NEW l \in 0 .. parts
  PROVE  /\ n \div parts \in Nat
         /\ l * (n \div parts) \in Nat
         /\ l * (n \div parts) <= n
         /\ n - parts * (n \div parts) < parts
         /\ (l + 1) * (n \div parts) = l * (n \div parts) + n \div parts
<1>1. PICK d \in Nat : d = n \div parts
  BY Quotient
<1>2. parts * d <= n /\ n < parts * d + parts
  BY <1>1
<1>3. PICK k \in Nat : parts = l + k
  <2>1. parts = l + (parts - l) /\ parts - l \in Nat
    OBVIOUS
  <2> QED BY <2>1
<1>4. parts * d = l * d + k * d /\ l * d \in Nat /\ k * d \in Nat /\ parts * d \in Nat
  BY <1>3
<1>5. (l + 1) * d = l * d + d
  OBVIOUS
<1>6. l * d <= n /\ n - parts * d < parts
  BY <1>2, <1>4
<1> QED BY <1>1, <1>4, <1>5, <1>6

\* A loop has two halves, the second the longer one.
LEMMA Halves ==
  ASSUME NEW n \in Nat
  PROVE  /\ half(n) \in Nat /\ n \div 2 \in Nat
         /\ half(n) + n \div 2 = n
         /\ n > 0 => half(n) > 0
<1>1. /\ (n + 2 - 1) \div 2 \in Nat /\ n \div 2 \in Nat
      /\ (n + 2 - 1) \div 2 + n \div 2 = n
      /\ n > 0 => (n + 2 - 1) \div 2 > 0
  OBVIOUS
<1> QED BY <1>1 DEF half, ceil

\* The index after l in a loop that ends with length.
After(l, length) == IF l < length THEN l + 1 ELSE l

\* The pieces that an iteration emits.
LEMMA MacsBlock ==
  ASSUME ArgsTyped, NEW h \in 0 .. num_itr, j \in Nat
  PROVE  /\ Block(ScoreMacs(h), "score_mac", h,
                  Upto("score_mac", h, j * n_group), Upto("score_mac", h, (j + 1) * n_group))
         /\ Upto("score_mac", h, j * n_group) <= Upto("score_mac", h, (j + 1) * n_group)
<1>1. n_group \in Nat /\ j * n_group \in Nat /\ (j + 1) * n_group = j * n_group + n_group
  BY ScoreLength
<1>2. PICK kind \in Kinds : kind = "score_mac"
  BY DEF Kinds
<1> HIDE DEF Kinds
<1>3. ScoreMacs(h) = Cmds(kind, h, j * n_group, n_group)
  BY <1>2 DEF ScoreMacs
<1> QED BY <1>1, <1>2, <1>3, CmdsBlock

LEMMA MovesBlock ==
  ASSUME ArgsTyped, NEW h \in 0 .. num_itr, j \in 0 .. score_length
  PROVE  LET x == IF j > 0 THEN j - 1 ELSE 0
         IN Block(Moves("score_mvsb", h), "score_mvsb", h, x, j) /\ x \in Nat /\ x <= j
<1>1. PICK kind \in Kinds : kind = "score_mvsb"
  BY DEF Kinds
<1>2. Listed(kind, h) = score_length /\ score_length \in Nat
  BY <1>1, ScoreLength DEF Listed, score_length
<1>3. CASE j = 0
  <2>1. Moves(kind, h) = <<>>
    BY <1>3 DEF Moves
  <2>2. \A c \in ToSet(<<>>) : ~ (c[1] = kind /\ c[2] = h)
    BY EmptyAre
  <2>3. Block(<<>>, kind, h, j, j)
    <3>1. <<>> \in Seq(Nat) /\ j \in Nat
      BY <1>2
    <3> QED BY <2>2, <3>1, NoBlock
  <2> QED BY <1>1, <1>3, <2>1, <2>3
<1>4. CASE j # 0
  <2>1. PICK x \in Nat, one \in Nat : x = j - 1 /\ one = 1
    BY <1>2, <1>4
  <2>2. Moves(kind, h) = Cmds(kind, h, x, one)
    BY <1>4, <2>1 DEF Moves
  <2>3. Block(Cmds(kind, h, x, one), kind, h, Upto(kind, h, x), Upto(kind, h, x + one))
    BY CmdsBlock
  <2>4. Upto(kind, h, x) = x /\ Upto(kind, h, x + one) = j
    BY <1>2, <1>4, <2>1 DEF Upto
  <2> QED BY <1>1, <1>4, <2>1, <2>2, <2>3, <2>4
<1> QED BY <1>3, <1>4

LEMMA WriteBlock ==
  ASSUME ArgsTyped, NEW h \in 0 .. num_itr, j \in 0 .. score_length
  PROVE  LET d == Stride("score_wrgb", h, score_length)
             x == j * d
             y == After(j, score_length) * d
         IN /\ Block(WriteAhead(h), "score_wrgb", h, x, y)
            /\ x \in Nat /\ y \in Nat /\ x <= y /\ y <= Listed("score_wrgb", h)
<1>1. PICK kind \in Kinds : kind = "score_wrgb"
  BY DEF Kinds
<1> DEFINE size == Listed(kind, h)
           d == size \div score_length
<1>2. size \in Nat /\ score_length \in Nat \ {0}
  <2>1. h \in Nat
    BY NumItr
  <2> QED BY <2>1, ListedType, ScoreLength
<1>3. /\ WriteAhead(h) = IF j < score_length THEN Cmds(kind, h, j * d, d) ELSE <<>>
      /\ Stride("score_wrgb", h, score_length) = d
  BY <1>1 DEF WriteAhead, Stride
<1> HIDE DEF size
<1>4. d \in Nat /\ j * d \in Nat /\ j * d <= size /\ (j + 1) * d = j * d + d
  BY <1>2, StrideFits
<1>5. CASE j < score_length
  <2>1. PICK k \in 0 .. score_length : k = j + 1
    BY <1>2, <1>5
  <2>2. k * d <= size
    BY <1>2, StrideFits
  <2>3. (j + 1) * d <= size
    BY <2>1, <2>2
  <2> HIDE DEF d
  <2>4. Block(Cmds(kind, h, j * d, d), kind, h, Upto(kind, h, j * d), Upto(kind, h, j * d + d))
    BY <1>4, CmdsBlock
  <2>5. Upto(kind, h, j * d) = j * d /\ Upto(kind, h, j * d + d) = (j + 1) * d
    BY <1>2, <1>4, <2>3 DEF Upto, size
  <2>6. After(j, score_length) = j + 1
    BY <1>5 DEF After
  <2> QED BY <1>1, <1>2, <1>3, <1>4, <1>5, <2>3, <2>4, <2>5, <2>6 DEF size
<1>6. CASE ~ (j < score_length)
  <2>1. After(j, score_length) = j
    BY <1>6 DEF After
  <2> DEFINE x == j * d
  <2>2. \A c \in ToSet(<<>>) : ~ (c[1] = kind /\ c[2] = h)
    BY EmptyAre
  <2>3. <<>> \in Seq(Nat) /\ x \in Nat /\ x <= size
    BY <1>4
  <2> HIDE DEF x
  <2>4. Block(<<>>, kind, h, x, x)
    BY <2>2, <2>3, NoBlock
  <2> QED BY <1>1, <1>3, <1>6, <2>1, <2>3, <2>4 DEF x, size
<1> QED BY <1>5, <1>6

LEMMA MoveBlock ==
  ASSUME ArgsTyped, NEW h \in 0 .. num_itr, NEW length \in Nat \ {0}, j \in 0 .. length
  PROVE  LET d == Stride("context_mvgb", h, half(length))
             x == Late(j, length) * d
             y == Late(After(j, length), length) * d
         IN /\ Block(MoveAhead(h, length), "context_mvgb", h, x, y)
            /\ x \in Nat /\ y \in Nat /\ x <= y /\ y <= Listed("context_mvgb", h)
<1>1. PICK kind \in Kinds : kind = "context_mvgb"
  BY DEF Kinds
<1> DEFINE size == Listed(kind, h)
           parts == half(length)
           from == length \div 2
           d == size \div parts
           l == Late(j, length)
           next == Late(After(j, length), length)
<1>2. size \in Nat /\ parts \in Nat \ {0} /\ from \in Nat /\ parts + from = length
  <2>1. h \in Nat
    BY NumItr
  <2>2. size \in Nat
    BY <2>1, ListedType
  <2>3. /\ half(length) \in Nat /\ length \div 2 \in Nat
        /\ half(length) + length \div 2 = length
        /\ half(length) > 0
    <3>1. length \in Nat /\ length > 0
      OBVIOUS
    <3> QED BY <3>1, Halves
  <2> QED BY <2>2, <2>3
<1>3. /\ MoveAhead(h, length) = IF j < length /\ j >= from THEN Cmds(kind, h, (j - from) * d, d) ELSE <<>>
      /\ Stride("context_mvgb", h, half(length)) = d
  BY <1>1 DEF MoveAhead, Stride
<1>4. /\ l = IF j < from THEN 0 ELSE j - from
      /\ next = IF After(j, length) < from THEN 0 ELSE After(j, length) - from
      /\ After(j, length) = IF j < length THEN j + 1 ELSE j
  BY DEF Late, After
<1> HIDE DEF size, parts, from, l, next
<1>5. l \in 0 .. parts /\ next \in 0 .. parts
  BY <1>2, <1>4
<1>6. d \in Nat /\ l * d \in Nat /\ l * d <= size /\ (l + 1) * d = l * d + d
  BY <1>2, <1>5, StrideFits
<1>7. next * d \in Nat /\ next * d <= size
  BY <1>2, <1>5, StrideFits
<1> HIDE DEF d
<1>8. CASE j < length /\ j >= from
  <2>1. l = j - from /\ next = l + 1
    BY <1>2, <1>4, <1>8
  <2>2. next * d = l * d + d
    BY <1>6, <2>1
  <2>3. Block(Cmds(kind, h, l * d, d), kind, h, Upto(kind, h, l * d), Upto(kind, h, l * d + d))
    BY <1>6, CmdsBlock
  <2>4. Upto(kind, h, l * d) = l * d /\ Upto(kind, h, l * d + d) = next * d
    BY <1>2, <1>6, <1>7, <2>2 DEF Upto, size
  <2>5. MoveAhead(h, length) = Cmds(kind, h, l * d, d)
    BY <1>3, <1>8, <2>1
  <2>6. l * d <= next * d
    BY <1>6, <2>2
  <2>7. Block(MoveAhead(h, length), kind, h, l * d, next * d)
    BY <2>3, <2>4, <2>5
  <2> QED BY <1>1, <1>3, <1>6, <1>7, <2>6, <2>7 DEF size, l, next, parts
<1>9. CASE ~ (j < length /\ j >= from)
  <2>1. next = l
    BY <1>2, <1>4, <1>9
  <2> DEFINE x == l * d
  <2>2. \A c \in ToSet(<<>>) : ~ (c[1] = kind /\ c[2] = h)
    BY EmptyAre
  <2>3. <<>> \in Seq(Nat) /\ x \in Nat /\ x <= size
    BY <1>6
  <2> HIDE DEF x
  <2>4. Block(<<>>, kind, h, x, x)
    BY <2>2, <2>3, NoBlock
  <2>5. MoveAhead(h, length) = <<>> /\ x <= x
    BY <1>3, <1>9, <2>3
  <2>6. x = next * d
    BY <2>1 DEF x
  <2>7. Block(MoveAhead(h, length), kind, h, x, next * d)
    BY <2>4, <2>5, <2>6
  <2> QED BY <1>1, <1>3, <1>6, <1>7, <2>1, <2>6, <2>7 DEF size, l, next, parts, x
<1> QED BY <1>8, <1>9

LEMMA AllBlock ==
  ASSUME ArgsTyped, NEW kind \in Kinds, NEW h \in 0 .. num_itr
  PROVE  Block(All(kind, h), kind, h, 0, Listed(kind, h)) /\ Listed(kind, h) \in Nat
<1> DEFINE size == Listed(kind, h)
<1>1. size \in Nat
  <2>1. h \in Nat
    BY NumItr
  <2> QED BY <2>1, ListedType
<1>2. PICK zero \in Nat : zero = 0
  OBVIOUS
<1>3. All(kind, h) = Cmds(kind, h, zero, size)
  BY <1>2 DEF All
<1> HIDE DEF size
<1>4. Block(Cmds(kind, h, zero, size), kind, h, Upto(kind, h, zero), Upto(kind, h, zero + size))
  BY <1>1, CmdsBlock
<1>5. Upto(kind, h, zero) = 0 /\ Upto(kind, h, zero + size) = size
  BY <1>1, <1>2 DEF Upto, size
<1> QED BY <1>1, <1>3, <1>4, <1>5 DEF size

LEMMA SoftBlock ==
  ASSUME ArgsTyped, NEW h \in 0 .. num_itr
  PROVE  Block(Softmax(h), "sfm", h, IF j = 0 THEN 0 ELSE 1, 1)
<1>1. PICK kind \in Kinds : kind = "sfm"
  BY DEF Kinds
<1>2. Listed(kind, h) = 1
  BY <1>1 DEF Listed
<1>3. CASE j = 0
  <2>1. Softmax(h) = All(kind, h)
    BY <1>1, <1>3 DEF Softmax
  <2>2. Block(All(kind, h), kind, h, 0, Listed(kind, h))
    BY AllBlock
  <2> QED BY <1>1, <1>2, <1>3, <2>1, <2>2
<1>4. CASE j # 0
  <2>1. PICK one \in Nat : one = 1
    OBVIOUS
  <2>2. \A c \in ToSet(<<>>) : ~ (c[1] = kind /\ c[2] = h)
    BY EmptyAre
  <2>3. <<>> \in Seq(Nat)
    OBVIOUS
  <2>4. Block(<<>>, kind, h, one, one)
    BY <2>2, <2>3, NoBlock
  <2> QED BY <1>1, <1>4, <2>1, <2>4 DEF Softmax
<1> QED BY <1>3, <1>4

-----------------------------------------------------------------------------
(* The steps of the loops. *)

\* n commands of a list are in s so far.
Sofar(s, kind, h, n) == s \in Seq(Command) /\ n \in 0 .. Listed(kind, h) /\ Block(s, kind, h, 0, n)

\* Commands t are of list of head g; they raise the number for h from n to m.
Adds(t, list, g, kind, h, n, m) ==
  /\ Are(t, list, g)
  /\ n \in Nat /\ m \in Nat /\ n <= m
  /\ kind = list /\ h = g => Block(t, kind, h, n, m) /\ m <= Listed(kind, h)
  /\ ~ (kind = list /\ h = g) => m = n

LEMMA Added ==
  ASSUME ArgsTyped, NEW kind \in Counted, NEW h \in Iterations, NEW s, NEW n, Sofar(s, kind, h, n),
         NEW t, NEW list, NEW g, NEW m, Adds(t, list, g, kind, h, n, m)
  PROVE  Sofar(s \o t, kind, h, m)
<1>1. kind \in Kinds /\ h \in Nat
  BY NumItr DEF Counted, Kinds, Iterations
<1>2. Listed(kind, h) \in Nat
  BY <1>1, ListedType
<1>3. s \in Seq(Command) /\ n \in Nat /\ m \in Nat /\ n <= m /\ m <= Listed(kind, h)
  BY <1>2 DEF Sofar, Adds
<1>4. s \o t \in Seq(Command) /\ Block(s \o t, kind, h, 0, m)
  BY <1>3, Extend DEF Sofar, Adds
<1> QED BY <1>2, <1>3, <1>4 DEF Sofar

\* Commands that are not counted.
LEMMA AddsNothing ==
  ASSUME NEW t, NEW list, list \notin Counted, NEW g, Are(t, list, g),
         NEW kind \in Counted, NEW h, NEW n \in Nat
  PROVE  Adds(t, list, g, kind, h, n, n)
BY DEF Adds

\* Barriers are of no list.
LEMMA BarriersAre ==
  ASSUME ArgsTyped, NEW length
  PROVE  Are(Barrier, "barrier", 0) /\ Are(Barriers(length), "barrier", 0)
<1>1. <<>> \in Seq(Command) /\ <<>> \o Barrier = Barrier
  <2>1. <<"barrier", 0, 0>> \in Command
    BY NumItr DEF Command
  <2>2. Barrier \in Seq(Command)
    BY <2>1 DEF Barrier
  <2> HIDE DEF Barrier
  <2> QED BY <2>2, ConcatEmptySeq
<1>2. Barrier \in Seq(Command) /\ ToSet(Barrier) = {<<"barrier", 0, 0>>}
  <2>1. ToSet(<<>>) = {}
    BY EmptyAre
  <2> QED BY <1>1, <2>1, WithBarrier
<1>3. Are(Barrier, "barrier", 0)
  BY <1>2 DEF Are
<1>4. Are(<<>>, "barrier", 0)
  BY EmptyAre
<1> QED BY <1>3, <1>4 DEF Barriers

\* The lengths of the lists.
LEMMA ListedValues ==
  ASSUME ArgsTyped, NEW h \in Iterations
  PROVE  /\ h \in Nat /\ h \in 0 .. num_itr /\ num_itr \in Nat
         /\ \A kind \in Counted : Listed(kind, h) \in Nat
         /\ Listed("score_mvsb", h) = score_length /\ Listed("sfm", h) = 1
         /\ Listed("score_mac", h) = Sizes.score
         /\ Upto("score_mac", h, 0) = 0
         /\ \A n \in Nat : n >= score_length * n_group => Upto("score_mac", h, n) = Listed("score_mac", h)
         /\ Stride("score_wrgb", h, score_length) \in Nat
         /\ Stride("context_mvgb", h, half(score_length)) \in Nat
         /\ Stride("context_mvgb", h, half(Sizes.context)) \in Nat
<1>1. h \in Nat /\ h \in 0 .. num_itr /\ num_itr \in Nat
  BY NumItr DEF Iterations
<1>2. \A kind \in Counted : Listed(kind, h) \in Nat
  BY <1>1, ListedType DEF Counted, Kinds
<1>3. /\ Listed("score_mvsb", h) = score_length /\ Listed("sfm", h) = 1
      /\ Listed("score_mac", h) = Sizes.score
  BY DEF Listed, score_length
<1>4. /\ score_length \in Nat \ {0} /\ n_group \in Nat \ {0} /\ Sizes.score <= score_length * n_group
      /\ Sizes.score \in Nat \ {0} /\ Sizes.context \in Nat \ {0} /\ score_length * n_group \in Nat
  BY ScoreLength, SizesType
<1>5. /\ Upto("score_mac", h, 0) = 0
      /\ \A n \in Nat : n >= score_length * n_group => Upto("score_mac", h, n) = Listed("score_mac", h)
  BY <1>3, <1>4 DEF Upto
<1>6. half(score_length) \in Nat \ {0} /\ half(Sizes.context) \in Nat \ {0}
  <2>1. \A n \in Nat : n > 0 => half(n) \in Nat /\ half(n) > 0
    BY Halves
  <2>2. score_length > 0 /\ Sizes.context > 0
    BY <1>4
  <2>3. half(score_length) \in Nat /\ half(score_length) > 0
    BY <1>4, <2>1, <2>2
  <2>4. half(Sizes.context) \in Nat /\ half(Sizes.context) > 0
    BY <1>4, <2>1, <2>2
  <2> QED BY <2>3, <2>4
<1>7. \A kind \in Counted, n \in Nat \ {0} : Stride(kind, h, n) \in Nat
  BY <1>2, Quotient DEF Stride
<1> QED BY <1>1, <1>2, <1>3, <1>4, <1>5, <1>6, <1>7 DEF Counted

\* The MACs and moves of the head that is being scored.
LEMMA ScoreAdds ==
  ASSUME ArgsTyped, NEW g \in Iterations, j \in 0 .. score_length,
         NEW kind \in Counted, NEW h \in Iterations, NEW n \in Nat,
         kind = "score_mac" /\ h = g => n = Upto(kind, h, j * n_group),
         kind = "score_mvsb" /\ h = g => n = IF j > 0 THEN j - 1 ELSE 0,
         NEW n1, n1 = IF kind = "score_mac" /\ h = g THEN Upto(kind, h, (j + 1) * n_group) ELSE n,
         NEW n2, n2 = IF kind = "score_mvsb" /\ h = g THEN j ELSE n1
  PROVE  /\ Adds(ScoreMacs(g), "score_mac", g, kind, h, n, n1)
         /\ Adds(Moves("score_mvsb", g), "score_mvsb", g, kind, h, n1, n2)
<1>1. /\ g \in 0 .. num_itr /\ g \in Nat /\ h \in Nat /\ j \in Nat
      /\ Listed("score_mvsb", g) = score_length /\ Listed("score_mac", g) \in Nat
      /\ score_length \in Nat /\ n_group \in Nat
  BY ListedValues, ScoreLength DEF Counted
<1>2. (j + 1) * n_group \in Nat /\ j * n_group \in Nat
  BY <1>1
<1>3. \A m \in Nat : Upto("score_mac", g, m) \in Nat /\ Upto("score_mac", g, m) <= Listed("score_mac", g)
  BY <1>1 DEF Upto
<1>4. Are(ScoreMacs(g), "score_mac", g) /\ Are(Moves("score_mvsb", g), "score_mvsb", g)
  BY <1>1, ScoreMacsAre, MovesAre DEF Kinds
<1>5. Adds(ScoreMacs(g), "score_mac", g, kind, h, n, n1)
  <2>1. CASE kind = "score_mac" /\ h = g
    BY <1>1, <1>2, <1>3, <1>4, <2>1, MacsBlock DEF Adds
  <2>2. CASE ~ (kind = "score_mac" /\ h = g)
    BY <1>4, <2>2 DEF Adds
  <2> QED BY <2>1, <2>2
<1>6. Adds(Moves("score_mvsb", g), "score_mvsb", g, kind, h, n1, n2)
  <2>1. CASE kind = "score_mvsb" /\ h = g
    <3>1. n1 = n /\ n2 = j
      BY <2>1
    <3>2. Block(Moves("score_mvsb", g), "score_mvsb", g, n, j) /\ n <= j
      BY <1>1, <2>1, MovesBlock
    <3> QED BY <1>1, <1>4, <2>1, <3>1, <3>2 DEF Adds
  <2>2. CASE ~ (kind = "score_mvsb" /\ h = g)
    <3>1. n1 \in Nat /\ n2 = n1
      BY <1>5, <2>2 DEF Adds
    <3> QED BY <1>4, <2>2, <3>1 DEF Adds
  <2> QED BY <2>1, <2>2
<1> QED BY <1>5, <1>6

\* What an iteration adds to the number of commands of each list.
LEMMA WriteAdds ==
  ASSUME ArgsTyped, NEW g \in Iterations, j \in 0 .. score_length,
         NEW kind \in Counted, NEW h \in Iterations, NEW n \in Nat,
         kind = "score_wrgb" /\ h = g => n = j * Stride(kind, h, score_length),
         NEW m, m = IF kind = "score_wrgb" /\ h = g
                    THEN After(j, score_length) * Stride(kind, h, score_length) ELSE n
  PROVE  Adds(WriteAhead(g), "score_wrgb", g, kind, h, n, m)
<1>1. g \in 0 .. num_itr /\ j \in Nat
  BY ListedValues, ScoreLength
<1>2. Are(WriteAhead(g), "score_wrgb", g)
  BY <1>1, WriteAheadAre
<1>3. CASE kind = "score_wrgb" /\ h = g
  <2>1. /\ Block(WriteAhead(g), "score_wrgb", g, n, m)
        /\ n \in Nat /\ m \in Nat /\ n <= m /\ m <= Listed("score_wrgb", g)
    BY <1>1, <1>3, WriteBlock
  <2> QED BY <1>2, <1>3, <2>1 DEF Adds
<1>4. CASE ~ (kind = "score_wrgb" /\ h = g)
  BY <1>2, <1>4 DEF Adds
<1> QED BY <1>3, <1>4

LEMMA MoveAdds ==
  ASSUME ArgsTyped, NEW g \in Iterations, NEW length \in Nat \ {0}, j \in 0 .. length,
         NEW kind \in Counted, NEW h \in Iterations, NEW n \in Nat,
         kind = "context_mvgb" /\ h = g => n = Late(j, length) * Stride(kind, h, half(length)),
         NEW m, m = IF kind = "context_mvgb" /\ h = g
                    THEN Late(After(j, length), length) * Stride(kind, h, half(length)) ELSE n
  PROVE  Adds(MoveAhead(g, length), "context_mvgb", g, kind, h, n, m)
<1>1. g \in 0 .. num_itr /\ j \in Nat
  BY ListedValues
<1>2. Are(MoveAhead(g, length), "context_mvgb", g)
  BY <1>1, MoveAheadAre
<1>3. CASE kind = "context_mvgb" /\ h = g
  <2>1. /\ Block(MoveAhead(g, length), "context_mvgb", g, n, m)
        /\ n \in Nat /\ m \in Nat /\ n <= m /\ m <= Listed("context_mvgb", g)
    BY <1>1, <1>3, MoveBlock
  <2> QED BY <1>2, <1>3, <2>1 DEF Adds
<1>4. CASE ~ (kind = "context_mvgb" /\ h = g)
  BY <1>2, <1>4 DEF Adds
<1> QED BY <1>3, <1>4

LEMMA SoftAdds ==
  ASSUME ArgsTyped, NEW g \in Iterations, NEW kind \in Counted, NEW h \in Iterations, NEW n \in Nat,
         kind = "sfm" /\ h = g => n = IF j = 0 THEN 0 ELSE 1,
         NEW m, m = IF kind = "sfm" /\ h = g THEN 1 ELSE n
  PROVE  Adds(Softmax(g), "sfm", g, kind, h, n, m)
<1>1. g \in 0 .. num_itr /\ Listed("sfm", g) = 1
  BY ListedValues
<1>2. Are(Softmax(g), "sfm", g)
  BY <1>1, SoftmaxAre
<1>3. CASE kind = "sfm" /\ h = g
  <2>1. Block(Softmax(g), "sfm", g, n, m)
    BY <1>1, <1>3, SoftBlock
  <2>2. n <= m /\ m \in Nat /\ m <= Listed("sfm", g)
    BY <1>1, <1>3
  <2> QED BY <1>2, <1>3, <2>1, <2>2 DEF Adds
<1>4. CASE ~ (kind = "sfm" /\ h = g)
  BY <1>2, <1>4 DEF Adds
<1> QED BY <1>3, <1>4

LEMMA AllAdds ==
  ASSUME ArgsTyped, NEW list \in Kinds, NEW g \in Iterations,
         NEW kind \in Counted, NEW h \in Iterations, NEW n \in Nat,
         kind = list /\ h = g => n = 0,
         NEW m, m = IF kind = list /\ h = g THEN Listed(kind, h) ELSE n
  PROVE  Adds(All(list, g), list, g, kind, h, n, m)
<1>1. g \in 0 .. num_itr
  BY ListedValues
<1>2. Are(All(list, g), list, g)
  BY <1>1, AllAre
<1>3. CASE kind = list /\ h = g
  <2>1. Block(All(list, g), list, g, 0, Listed(list, g)) /\ Listed(list, g) \in Nat
    BY <1>1, AllBlock
  <2> QED BY <1>2, <1>3, <2>1 DEF Adds
<1>4. CASE ~ (kind = list /\ h = g)
  BY <1>2, <1>4 DEF Adds
<1> QED BY <1>3, <1>4

\* Four pieces that are emitted by an iteration of a loop, behind trace s.
Pieces(s, a, b, c, e) ==
  /\ s \in Seq(Command) /\ a \in Seq(Command) /\ b \in Seq(Command)
  /\ c \in Seq(Command) /\ e \in Seq(Command)

LEMMA OneByOne ==
  ASSUME NEW s, NEW a, NEW b, NEW c, NEW e, Pieces(s, a, b, c, e)
  PROVE  s \o (a \o b \o c \o e) = (((s \o a) \o b) \o c) \o e
<1> DEFINE ab == a \o b
           abc == ab \o c
<1>1. s \in Seq(Command) /\ a \in Seq(Command) /\ b \in Seq(Command)
  BY DEF Pieces
<1>2. c \in Seq(Command)
  BY DEF Pieces
<1>3. e \in Seq(Command)
  BY DEF Pieces
<1>4. ab \in Seq(Command)
  BY <1>1, ConcatProperties
<1>5. s \o ab = (s \o a) \o b
  BY <1>1, Associative
<1> HIDE DEF ab
<1>6. s \in Seq(Command)
  BY <1>1
<1>7. s \o (ab \o c) = (s \o ab) \o c
  BY <1>2, <1>4, <1>6, Associative
<1>8. abc \in Seq(Command)
  BY <1>2, <1>4, ConcatProperties
<1> HIDE DEF abc
<1>9. s \o (abc \o e) = (s \o abc) \o e
  BY <1>3, <1>6, <1>8, Associative
<1> QED BY <1>5, <1>7, <1>9 DEF ab, abc

\* What holds of the variables, for one list of one head.
LEMMA Current ==
  ASSUME TraceInv, CountInv, NEW kind \in Counted, NEW h \in Iterations
  PROVE  /\ ArgsTyped
         /\ \E n \in Nat : Sofar(total_cmd, kind, h, n) /\ Proper(kind, stage, i, j, h, n)
<1>1. PICK n \in 0 .. Listed(kind, h) : Block(total_cmd, kind, h, 0, n) /\ Proper(kind, stage, i, j, h, n)
  BY DEF CountInv, Counts
<1>2. ArgsTyped /\ total_cmd \in Seq(Command)
  BY ControlType
<1>3. n \in Nat
  BY <1>2, ListedValues
<1> QED BY <1>1, <1>2, <1>3 DEF Sofar

\* What has not begun has no commands.
LEMMA Nothing ==
  ASSUME ArgsTyped, NEW st, NEW k \in Nat, NEW l, NEW h \in Nat, NEW kind \in Counted,
         ~ Scored(st, k, h), ~ Scoring(st, k, h), ~ Softened(st, k, l, h),
         Wrote(st, k, l, h) = 0, Ahead(st, k, l, h) = 0
  PROVE  Count(kind, st, k, l, h) = 0
<1>1. Upto("score_mac", h, 0) = 0 /\ n_group \in Nat
  <2>1. "score_mac" \in Kinds
    BY DEF Kinds
  <2>2. Listed("score_mac", h) \in Nat
    BY <2>1, ListedType
  <2> QED BY <2>2, ScoreLength DEF Upto
<1>2. Groups(st, k, l, h) = 0 /\ Moved(st, k, l, h) = 0
  BY DEF Groups, Moved
<1>3. CASE kind \in {"score_mac", "score_mvsb"}
  BY <1>1, <1>2, <1>3 DEF Count
<1>4. CASE kind \in {"sfm", "score_wrgb", "context_mvgb"}
  BY <1>4 DEF Count
<1> QED BY <1>3, <1>4 DEF Counted

\* Nothing is emitted for the heads behind the pair,
LEMMA NotYet ==
  ASSUME ArgsTyped, NEW st, NEW k \in Nat, NEW l, NEW h \in Nat, h > k + 1, NEW kind \in Counted
  PROVE  Count(kind, st, k, l, h) = 0
<1>1. ~ (h < k) /\ h # k /\ h # k + 1
  OBVIOUS
<1>2. ~ Scored(st, k, h) /\ ~ Scoring(st, k, h)
  BY <1>1 DEF Scored, Scoring
<1>3. ~ Softened(st, k, l, h) /\ Wrote(st, k, l, h) = 0 /\ Ahead(st, k, l, h) = 0
  BY <1>1 DEF Softened, Wrote, Ahead
<1> QED BY <1>2, <1>3, Nothing

\* The steps.
LEMMA Score0Counts ==
  ASSUME TraceInv, CountInv, Score0
  PROVE  Counts(total_cmd', stage', i', j')
<1> DEFINE a == ScoreMacs(i)
           b == Moves("score_mvsb", i)
           c == WriteAhead(i + 1)
           d == Barriers(score_length)
<1>1. /\ ArgsTyped /\ i \in Nat /\ i + 1 < num_itr /\ i \in Iterations /\ i + 1 \in Iterations
      /\ num_itr \in Nat /\ j \in 0 .. score_length /\ score_length \in Nat \ {0} /\ n_group \in Nat
      /\ stage = "score0" /\ i' = i
      /\ \/ j < score_length /\ stage' = "score0" /\ j' = j + 1
         \/ j = score_length /\ stage' = "score1" /\ j' = 0
  BY ControlType, ScoreLength DEF Control, Score0, Loop, GoTo, Iterations
<1>2. total_cmd' = (((total_cmd \o a) \o b) \o c) \o d
  <2>1. Are(a, "score_mac", i) /\ Are(b, "score_mvsb", i) /\ Are(c, "score_wrgb", i + 1)
    <3>1. i \in 0 .. num_itr /\ i + 1 \in 0 .. num_itr /\ j \in Nat /\ "score_mvsb" \in Kinds
      BY <1>1 DEF Kinds
    <3> QED BY <1>1, <3>1, ScoreMacsAre, MovesAre, WriteAheadAre
  <2>2. total_cmd' = total_cmd \o (a \o b \o c) \o d /\ total_cmd \in Seq(Command)
    BY ControlType DEF Score0, Loop
  <2> HIDE DEF a, b, c, d
  <2>3. total_cmd \o ((a \o b) \o c) = ((total_cmd \o a) \o b) \o c
    <3>1. a \in Seq(Command) /\ b \in Seq(Command) /\ c \in Seq(Command)
      BY <2>1 DEF Are
    <3>2. total_cmd \in Seq(Command)
      BY ControlType
    <3> QED BY <3>1, <3>2
  <2> QED BY <2>2, <2>3
<1> SUFFICES ASSUME NEW kind \in Counted, NEW h \in Iterations
             PROVE  \E n \in 0 .. Listed(kind, h) :
                      Block(total_cmd', kind, h, 0, n) /\ Proper(kind, stage', i', j', h, n)
  BY DEF Counts
<1>3. PICK n \in Nat : Sofar(total_cmd, kind, h, n) /\ Proper(kind, "score0", i, j, h, n)
  BY <1>1, Current
<1>4. /\ h \in Nat /\ Upto("score_mac", h, 0) = 0
      /\ \A x \in Nat : x >= score_length * n_group => Upto("score_mac", h, x) = Listed("score_mac", h)
      /\ Stride("score_wrgb", h, score_length) \in Nat
      /\ Stride("context_mvgb", h, half(score_length)) \in Nat
  BY <1>1, ListedValues
<1>5. h < i \/ h = i \/ h = i + 1 \/ h > i + 1
  BY <1>1, <1>4
<1>6. /\ kind = "score_mac" /\ h = i => n = Upto(kind, h, j * n_group)
      /\ kind = "score_mvsb" /\ h = i => n = IF j > 0 THEN j - 1 ELSE 0
      /\ kind = "score_wrgb" /\ h = i + 1 => n = j * Stride(kind, h, score_length)
  BY <1>1, <1>3, <1>4 DEF Proper, Count, Groups, Moved, Wrote, Scored, Scoring, ContextStages
<1> DEFINE n1 == IF kind = "score_mac" /\ h = i THEN Upto(kind, h, (j + 1) * n_group) ELSE n
           n2 == IF kind = "score_mvsb" /\ h = i THEN j ELSE n1
           n3 == IF kind = "score_wrgb" /\ h = i + 1
                 THEN After(j, score_length) * Stride(kind, h, score_length) ELSE n2
<1>7. Adds(a, "score_mac", i, kind, h, n, n1) /\ Adds(b, "score_mvsb", i, kind, h, n1, n2)
  BY <1>1, <1>6, ScoreAdds
<1>8. n2 \in Nat
  BY <1>7 DEF Adds
<1>9. Adds(c, "score_wrgb", i + 1, kind, h, n2, n3)
  <2>1. kind = "score_wrgb" /\ h = i + 1 => n2 = j * Stride(kind, h, score_length)
    BY <1>1, <1>6
  <2> HIDE DEF n2
  <2> QED BY <1>1, <1>8, <2>1, WriteAdds
<1>10. Adds(d, "barrier", 0, kind, h, n3, n3)
  <2>1. n3 \in Nat
    BY <1>9 DEF Adds
  <2> HIDE DEF n3
  <2> QED BY <1>1, <2>1, BarriersAre, AddsNothing DEF Counted
<1>11. Sofar(total_cmd', kind, h, n3)
  <2> HIDE DEF a, b, c, d, n1, n2, n3
  <2>1. Sofar(total_cmd \o a, kind, h, n1)
    BY <1>1, <1>3, <1>7, Added
  <2>2. Sofar((total_cmd \o a) \o b, kind, h, n2)
    BY <1>1, <1>7, <2>1, Added
  <2>3. Sofar(((total_cmd \o a) \o b) \o c, kind, h, n3)
    BY <1>1, <1>9, <2>2, Added
  <2> QED BY <1>1, <1>2, <1>10, <2>3, Added
<1> HIDE DEF a, b, c, d
<1>12. Proper(kind, stage', i', j', h, n3)
  <2>1. CASE h < i
    BY <1>1, <1>3, <1>4, <2>1 DEF Proper
  <2>2. CASE h > i + 1
    <3>1. n3 = n /\ ~ (h < i)
      BY <1>1, <1>4, <2>2
    <3>2. Count(kind, stage', i', j', h) = Count(kind, "score0", i, j, h)
      BY <1>1, <2>2, NotYet
    <3> QED BY <1>1, <1>3, <3>1, <3>2 DEF Proper
  <2>3. CASE h = i
    <3>1. CASE kind = "score_mac"
      BY <1>1, <1>4, <2>3, <3>1 DEF Proper, Count, Groups, Scored, Scoring, ContextStages
    <3>2. CASE kind = "score_mvsb"
      BY <1>1, <2>3, <3>2 DEF Proper, Count, Moved, Scored, Scoring, ContextStages
    <3>3. CASE kind \in {"sfm", "score_wrgb", "context_mvgb"}
      BY <1>1, <1>3, <1>4, <2>3, <3>3 DEF Proper, Count, Softened, Wrote, Ahead, Late, ContextStages
    <3> QED BY <3>1, <3>2, <3>3 DEF Counted
  <2>4. CASE h = i + 1
    <3>1. CASE kind = "score_wrgb"
      BY <1>1, <1>4, <2>4, <3>1 DEF Proper, Count, Wrote, After
    <3>2. CASE kind \in {"score_mac", "score_mvsb", "sfm", "context_mvgb"}
      BY <1>1, <1>3, <1>4, <2>4, <3>2
         DEF Proper, Count, Groups, Moved, Scored, Scoring, Softened, Ahead, ContextStages
    <3> QED BY <3>1, <3>2 DEF Counted
  <2> QED BY <1>5, <2>1, <2>2, <2>3, <2>4
<1> QED BY <1>11, <1>12 DEF Sofar

\* After the last iteration the second half is over.
LEMMA LateEnds ==
  ASSUME NEW length \in Nat
  PROVE  Late(length, length) = half(length) /\ Late(0, length) = 0
<1>1. half(length) + length \div 2 = length /\ half(length) \in Nat /\ length \div 2 \in Nat
  BY Halves
<1> QED BY <1>1 DEF Late

LEMMA Score1Counts ==
  ASSUME TraceInv, CountInv, Score1
  PROVE  Counts(total_cmd', stage', i', j')
<1> DEFINE a == ScoreMacs(i + 1)
           b == Moves("score_mvsb", i + 1)
           c == Softmax(i)
           e == MoveAhead(i, score_length)
           d == Barriers(score_length)
<1>1. /\ ArgsTyped /\ i \in Nat /\ i + 1 < num_itr /\ i \in Iterations /\ i + 1 \in Iterations
      /\ num_itr \in Nat /\ j \in 0 .. score_length /\ score_length \in Nat \ {0} /\ n_group \in Nat
      /\ stage = "score1" /\ i' = i
      /\ \/ j < score_length /\ stage' = "score1" /\ j' = j + 1
         \/ j = score_length /\ stage' = "context0" /\ j' = 0
  BY ControlType, ScoreLength DEF Control, Score1, Loop, GoTo, Iterations
<1>2. total_cmd' = ((((total_cmd \o a) \o b) \o c) \o e) \o d
  <2>1. Are(a, "score_mac", i + 1) /\ Are(b, "score_mvsb", i + 1) /\ Are(c, "sfm", i) /\ Are(e, "context_mvgb", i)
    <3>1. i \in 0 .. num_itr /\ i + 1 \in 0 .. num_itr /\ j \in Nat /\ score_length \in Nat /\ "score_mvsb" \in Kinds
      BY <1>1 DEF Kinds
    <3> QED BY <1>1, <3>1, ScoreMacsAre, MovesAre, SoftmaxAre, MoveAheadAre
  <2>2. total_cmd' = total_cmd \o (a \o b \o c \o e) \o d /\ total_cmd \in Seq(Command)
    BY ControlType DEF Score1, Loop
  <2> HIDE DEF a, b, c, d, e
  <2>3. total_cmd \o (a \o b \o c \o e) = (((total_cmd \o a) \o b) \o c) \o e
    <3>1. a \in Seq(Command) /\ b \in Seq(Command) /\ c \in Seq(Command) /\ e \in Seq(Command)
      BY <2>1 DEF Are
    <3>2. total_cmd \in Seq(Command)
      BY ControlType
    <3>3. Pieces(total_cmd, a, b, c, e)
      BY <3>1, <3>2 DEF Pieces
    <3> QED BY <3>3, OneByOne
  <2> QED BY <2>2, <2>3
<1> SUFFICES ASSUME NEW kind \in Counted, NEW h \in Iterations
             PROVE  \E n \in 0 .. Listed(kind, h) :
                      Block(total_cmd', kind, h, 0, n) /\ Proper(kind, stage', i', j', h, n)
  BY DEF Counts
<1>3. PICK n \in Nat : Sofar(total_cmd, kind, h, n) /\ Proper(kind, "score1", i, j, h, n)
  BY <1>1, Current
<1>4. /\ h \in Nat /\ Upto("score_mac", h, 0) = 0
      /\ \A x \in Nat : x >= score_length * n_group => Upto("score_mac", h, x) = Listed("score_mac", h)
      /\ Stride("context_mvgb", h, half(Sizes.context)) \in Nat
  BY <1>1, ListedValues
<1>5. h < i \/ h = i \/ h = i + 1 \/ h > i + 1
  BY <1>1, <1>4
<1>6. /\ kind = "score_mac" /\ h = i + 1 => n = Upto(kind, h, j * n_group)
      /\ kind = "score_mvsb" /\ h = i + 1 => n = IF j > 0 THEN j - 1 ELSE 0
      /\ kind = "sfm" /\ h = i => n = IF j = 0 THEN 0 ELSE 1
      /\ kind = "context_mvgb" /\ h = i => n = Late(j, score_length) * Stride(kind, h, half(score_length))
  BY <1>1, <1>3, <1>4 DEF Proper, Count, Groups, Moved, Softened, Ahead, Scored, Scoring, ContextStages
<1> DEFINE n1 == IF kind = "score_mac" /\ h = i + 1 THEN Upto(kind, h, (j + 1) * n_group) ELSE n
           n2 == IF kind = "score_mvsb" /\ h = i + 1 THEN j ELSE n1
           n3 == IF kind = "sfm" /\ h = i THEN 1 ELSE n2
           n4 == IF kind = "context_mvgb" /\ h = i
                 THEN Late(After(j, score_length), score_length) * Stride(kind, h, half(score_length)) ELSE n3
<1>7. Adds(a, "score_mac", i + 1, kind, h, n, n1) /\ Adds(b, "score_mvsb", i + 1, kind, h, n1, n2)
  BY <1>1, <1>6, ScoreAdds
<1>8. n2 \in Nat
  BY <1>7 DEF Adds
<1>9. Adds(c, "sfm", i, kind, h, n2, n3)
  <2>1. kind = "sfm" /\ h = i => n2 = IF j = 0 THEN 0 ELSE 1
    BY <1>6
  <2> HIDE DEF n2
  <2> QED BY <1>1, <1>8, <2>1, SoftAdds
<1>10. Adds(e, "context_mvgb", i, kind, h, n3, n4)
  <2>1. kind = "context_mvgb" /\ h = i => n3 = Late(j, score_length) * Stride(kind, h, half(score_length))
    BY <1>6
  <2>2. n3 \in Nat
    BY <1>9 DEF Adds
  <2> HIDE DEF n3
  <2> QED BY <1>1, <2>1, <2>2, MoveAdds
<1>11. Adds(d, "barrier", 0, kind, h, n4, n4)
  <2>1. n4 \in Nat
    BY <1>10 DEF Adds
  <2> HIDE DEF n4
  <2> QED BY <1>1, <2>1, BarriersAre, AddsNothing DEF Counted
<1>12. Sofar(total_cmd', kind, h, n4)
  <2> HIDE DEF a, b, c, d, e, n1, n2, n3, n4
  <2>1. Sofar(total_cmd \o a, kind, h, n1)
    BY <1>1, <1>3, <1>7, Added
  <2>2. Sofar((total_cmd \o a) \o b, kind, h, n2)
    BY <1>1, <1>7, <2>1, Added
  <2>3. Sofar(((total_cmd \o a) \o b) \o c, kind, h, n3)
    BY <1>1, <1>9, <2>2, Added
  <2>4. Sofar((((total_cmd \o a) \o b) \o c) \o e, kind, h, n4)
    BY <1>1, <1>10, <2>3, Added
  <2> QED BY <1>1, <1>2, <1>11, <2>4, Added
<1> HIDE DEF a, b, c, d, e
<1>13. Proper(kind, stage', i', j', h, n4)
  <2>1. CASE h < i
    BY <1>1, <1>3, <1>4, <2>1 DEF Proper
  <2>2. CASE h > i + 1
    <3>1. n4 = n /\ ~ (h < i)
      BY <1>1, <1>4, <2>2
    <3>2. Count(kind, stage', i', j', h) = Count(kind, "score1", i, j, h)
      BY <1>1, <1>4, <2>2, NotYet
    <3> QED BY <1>1, <1>3, <3>1, <3>2 DEF Proper
  <2>3. CASE h = i
    <3>1. CASE kind \in {"score_mac", "score_mvsb", "score_wrgb"}
      BY <1>1, <1>3, <1>4, <2>3, <3>1 DEF Proper, Count, Groups, Moved, Wrote, Scored, ContextStages
    <3>2. CASE kind = "sfm"
      BY <1>1, <2>3, <3>2 DEF Proper, Count, Softened, ContextStages
    <3>3. CASE kind = "context_mvgb"
      <4>1. n4 = Late(After(j, score_length), score_length) * Stride(kind, h, half(score_length))
        BY <2>3, <3>3
      <4>2. Late(score_length, score_length) = half(score_length)
        BY <1>1, LateEnds
      <4> QED BY <1>1, <1>4, <2>3, <3>3, <4>1, <4>2 DEF Proper, Count, Ahead, After
    <3> QED BY <3>1, <3>2, <3>3 DEF Counted
  <2>4. CASE h = i + 1
    <3>1. CASE kind = "score_mac"
      BY <1>1, <1>4, <2>4, <3>1 DEF Proper, Count, Groups, Scored, Scoring, ContextStages
    <3>2. CASE kind = "score_mvsb"
      BY <1>1, <1>4, <2>4, <3>2 DEF Proper, Count, Moved, Scored, Scoring, ContextStages
    <3>3. CASE kind \in {"sfm", "score_wrgb"}
      BY <1>1, <1>3, <1>4, <2>4, <3>3 DEF Proper, Count, Softened, Wrote
    <3>4. CASE kind = "context_mvgb"
      <4>1. Late(0, Sizes.context) = 0
        BY <1>1, SizesType, LateEnds
      <4> QED BY <1>1, <1>3, <1>4, <2>4, <3>4, <4>1 DEF Proper, Count, Ahead
    <3> QED BY <3>1, <3>2, <3>3, <3>4 DEF Counted
  <2> QED BY <1>5, <2>1, <2>2, <2>3, <2>4
<1> QED BY <1>12, <1>13 DEF Sofar

LEMMA SingleScoreCounts ==
  ASSUME TraceInv, CountInv, SingleScore
  PROVE  Counts(total_cmd', stage', i', j')
<1> DEFINE a == ScoreMacs(i)
           b == Moves("score_mvsb", i)
           d == Barriers(score_length)
<1>1. /\ ArgsTyped /\ i \in Nat /\ i < num_itr /\ i \in Iterations
      /\ num_itr \in Nat /\ j \in 0 .. score_length /\ score_length \in Nat \ {0} /\ n_group \in Nat
      /\ stage = "single_score" /\ i' = i
      /\ \/ j < score_length /\ stage' = "single_score" /\ j' = j + 1
         \/ j = score_length /\ stage' = "single_softmax" /\ j' = 0
  BY ControlType, ScoreLength DEF Control, SingleScore, Loop, GoTo, Iterations
<1>2. total_cmd' = ((total_cmd \o a) \o b) \o d
  <2>1. Are(a, "score_mac", i) /\ Are(b, "score_mvsb", i)
    <3>1. i \in 0 .. num_itr /\ j \in Nat /\ "score_mvsb" \in Kinds
      BY <1>1 DEF Kinds
    <3> QED BY <1>1, <3>1, ScoreMacsAre, MovesAre
  <2>2. total_cmd' = total_cmd \o (a \o b) \o d /\ total_cmd \in Seq(Command)
    BY ControlType DEF SingleScore, Loop
  <2> HIDE DEF a, b, d
  <2>3. total_cmd \o (a \o b) = (total_cmd \o a) \o b
    <3>1. a \in Seq(Command) /\ b \in Seq(Command)
      BY <2>1 DEF Are
    <3>2. total_cmd \in Seq(Command)
      BY ControlType
    <3> QED BY <3>1, <3>2, Associative
  <2> QED BY <2>2, <2>3
<1> SUFFICES ASSUME NEW kind \in Counted, NEW h \in Iterations
             PROVE  \E n \in 0 .. Listed(kind, h) :
                      Block(total_cmd', kind, h, 0, n) /\ Proper(kind, stage', i', j', h, n)
  BY DEF Counts
<1>3. PICK n \in Nat : Sofar(total_cmd, kind, h, n) /\ Proper(kind, "single_score", i, j, h, n)
  BY <1>1, Current
<1>4. /\ h \in Nat /\ Upto("score_mac", h, 0) = 0
      /\ \A x \in Nat : x >= score_length * n_group => Upto("score_mac", h, x) = Listed("score_mac", h)
  BY <1>1, ListedValues
<1>5. /\ kind = "score_mac" /\ h = i => n = Upto(kind, h, j * n_group)
      /\ kind = "score_mvsb" /\ h = i => n = IF j > 0 THEN j - 1 ELSE 0
  BY <1>1, <1>3, <1>4 DEF Proper, Count, Groups, Moved, Scored, Scoring, ContextStages
<1> DEFINE n1 == IF kind = "score_mac" /\ h = i THEN Upto(kind, h, (j + 1) * n_group) ELSE n
           n2 == IF kind = "score_mvsb" /\ h = i THEN j ELSE n1
<1>6. Adds(a, "score_mac", i, kind, h, n, n1) /\ Adds(b, "score_mvsb", i, kind, h, n1, n2)
  BY <1>1, <1>5, ScoreAdds
<1>7. Adds(d, "barrier", 0, kind, h, n2, n2)
  <2>1. n2 \in Nat
    BY <1>6 DEF Adds
  <2> HIDE DEF n2
  <2> QED BY <1>1, <2>1, BarriersAre, AddsNothing DEF Counted
<1>8. Sofar(total_cmd', kind, h, n2)
  <2> HIDE DEF a, b, d, n1, n2
  <2>1. Sofar(total_cmd \o a, kind, h, n1)
    BY <1>1, <1>3, <1>6, Added
  <2>2. Sofar((total_cmd \o a) \o b, kind, h, n2)
    BY <1>1, <1>6, <2>1, Added
  <2> QED BY <1>1, <1>2, <1>7, <2>2, Added
<1> HIDE DEF a, b, d
<1>9. Proper(kind, stage', i', j', h, n2)
  <2>1. CASE h < i
    BY <1>1, <1>3, <1>4, <2>1 DEF Proper
  <2>2. CASE h > i
    <3>1. n2 = n /\ ~ (h < i) /\ h # i
      BY <1>1, <1>4, <2>2
    <3>2. Count(kind, stage', i', j', h) = Count(kind, "single_score", i, j, h)
      BY <1>1, <3>1 DEF Count, Groups, Moved, Wrote, Ahead, Softened, Scored, Scoring, ContextStages
    <3> QED BY <1>1, <1>3, <3>1, <3>2 DEF Proper
  <2>3. CASE h = i
    <3>1. CASE kind = "score_mac"
      BY <1>1, <1>4, <2>3, <3>1 DEF Proper, Count, Groups, Scored, Scoring, ContextStages
    <3>2. CASE kind = "score_mvsb"
      BY <1>1, <2>3, <3>2 DEF Proper, Count, Moved, Scored, Scoring, ContextStages
    <3>3. CASE kind \in {"sfm", "score_wrgb", "context_mvgb"}
      BY <1>1, <1>3, <1>4, <2>3, <3>3 DEF Proper, Count, Softened, Wrote, Ahead, ContextStages
    <3> QED BY <3>1, <3>2, <3>3 DEF Counted
  <2> QED BY <1>1, <1>4, <2>1, <2>2, <2>3
<1> QED BY <1>8, <1>9 DEF Sofar

LEMMA Context0Counts ==
  ASSUME TraceInv, CountInv, Context0
  PROVE  Counts(total_cmd', stage', i', j')
<1> DEFINE a == Cmds("context_mac", i, j, 1)
           b == Moves("context_mvsb", i)
           c == Softmax(i + 1)
           e == MoveAhead(i + 1, Sizes.context)
           d == Barriers(Sizes.context)
<1>1. /\ ArgsTyped /\ i \in Nat /\ i + 1 < num_itr /\ i \in Iterations /\ i + 1 \in Iterations
      /\ num_itr \in Nat /\ Sizes.context \in Nat \ {0} /\ j \in 0 .. Sizes.context
      /\ score_length \in Nat \ {0} /\ n_group \in Nat
      /\ stage = "context0" /\ i' = i
      /\ \/ j < Sizes.context /\ stage' = "context0" /\ j' = j + 1
         \/ j = Sizes.context /\ stage' = "context1" /\ j' = 0
  BY ControlType, ScoreLength, SizesType DEF Control, Context0, Loop, GoTo, Iterations, ContextStages
<1>2. Are(a, "context_mac", i) /\ Are(b, "context_mvsb", i) /\ Are(c, "sfm", i + 1) /\ Are(e, "context_mvgb", i + 1)
  <2>1. /\ i \in 0 .. num_itr /\ i + 1 \in 0 .. num_itr /\ j \in Nat /\ Sizes.context \in Nat
        /\ "context_mac" \in Kinds /\ "context_mvsb" \in Kinds
    BY <1>1 DEF Kinds
  <2> QED BY <1>1, <2>1, CmdsAre, MovesAre, SoftmaxAre, MoveAheadAre
<1>3. total_cmd' = ((((total_cmd \o a) \o b) \o c) \o e) \o d
  <2>1. total_cmd' = total_cmd \o (a \o b \o c \o e) \o d /\ total_cmd \in Seq(Command)
    BY ControlType DEF Context0, Loop
  <2> HIDE DEF a, b, c, d, e
  <2>2. total_cmd \o (a \o b \o c \o e) = (((total_cmd \o a) \o b) \o c) \o e
    <3>1. a \in Seq(Command) /\ b \in Seq(Command) /\ c \in Seq(Command) /\ e \in Seq(Command)
      BY <1>2 DEF Are
    <3>2. total_cmd \in Seq(Command)
      BY ControlType
    <3>3. Pieces(total_cmd, a, b, c, e)
      BY <3>1, <3>2 DEF Pieces
    <3> QED BY <3>3, OneByOne
  <2> QED BY <2>1, <2>2
<1> SUFFICES ASSUME NEW kind \in Counted, NEW h \in Iterations
             PROVE  \E n \in 0 .. Listed(kind, h) :
                      Block(total_cmd', kind, h, 0, n) /\ Proper(kind, stage', i', j', h, n)
  BY DEF Counts
<1>4. PICK n \in Nat : Sofar(total_cmd, kind, h, n) /\ Proper(kind, "context0", i, j, h, n)
  BY <1>1, Current
<1>5. h \in Nat /\ Stride("context_mvgb", h, half(Sizes.context)) \in Nat
  BY <1>1, ListedValues
<1>6. h < i \/ h = i \/ h = i + 1 \/ h > i + 1
  BY <1>1, <1>5
<1>7. /\ kind = "sfm" /\ h = i + 1 => n = IF j = 0 THEN 0 ELSE 1
      /\ kind = "context_mvgb" /\ h = i + 1 => n = Late(j, Sizes.context) * Stride(kind, h, half(Sizes.context))
  BY <1>1, <1>4, <1>5 DEF Proper, Count, Softened, Ahead, ContextStages
<1> DEFINE n1 == IF kind = "sfm" /\ h = i + 1 THEN 1 ELSE n
           n2 == IF kind = "context_mvgb" /\ h = i + 1
                 THEN Late(After(j, Sizes.context), Sizes.context) * Stride(kind, h, half(Sizes.context)) ELSE n1
<1>8. Adds(a, "context_mac", i, kind, h, n, n) /\ Adds(b, "context_mvsb", i, kind, h, n, n)
  <2>1. "context_mac" \notin Counted /\ "context_mvsb" \notin Counted
    BY DEF Counted
  <2> QED BY <1>2, <2>1, AddsNothing
<1>9. Adds(c, "sfm", i + 1, kind, h, n, n1)
  BY <1>1, <1>7, SoftAdds
<1>10. Adds(e, "context_mvgb", i + 1, kind, h, n1, n2)
  <2>1. kind = "context_mvgb" /\ h = i + 1 => n1 = Late(j, Sizes.context) * Stride(kind, h, half(Sizes.context))
    BY <1>7
  <2>2. n1 \in Nat
    BY <1>9 DEF Adds
  <2> HIDE DEF n1
  <2> QED BY <1>1, <2>1, <2>2, MoveAdds
<1>11. Adds(d, "barrier", 0, kind, h, n2, n2)
  <2>1. n2 \in Nat
    BY <1>10 DEF Adds
  <2> HIDE DEF n2
  <2> QED BY <1>1, <2>1, BarriersAre, AddsNothing DEF Counted
<1>12. Sofar(total_cmd', kind, h, n2)
  <2> HIDE DEF a, b, c, d, e, n1, n2
  <2>1. Sofar(total_cmd \o a, kind, h, n)
    BY <1>1, <1>4, <1>8, Added
  <2>2. Sofar((total_cmd \o a) \o b, kind, h, n)
    BY <1>1, <1>8, <2>1, Added
  <2>3. Sofar(((total_cmd \o a) \o b) \o c, kind, h, n1)
    BY <1>1, <1>9, <2>2, Added
  <2>4. Sofar((((total_cmd \o a) \o b) \o c) \o e, kind, h, n2)
    BY <1>1, <1>10, <2>3, Added
  <2> QED BY <1>1, <1>3, <1>11, <2>4, Added
<1> HIDE DEF a, b, c, d, e
<1>13. Proper(kind, stage', i', j', h, n2)
  <2>1. CASE h < i
    BY <1>1, <1>4, <1>5, <2>1 DEF Proper
  <2>2. CASE h > i + 1
    <3>1. n2 = n /\ ~ (h < i)
      BY <1>1, <1>5, <2>2
    <3>2. Count(kind, stage', i', j', h) = Count(kind, "context0", i, j, h)
      BY <1>1, <1>5, <2>2, NotYet
    <3> QED BY <1>1, <1>4, <3>1, <3>2 DEF Proper
  <2>3. CASE h = i
    <3>1. n2 = n
      BY <1>1, <2>3
    <3>2. Count(kind, stage', i', j', h) = Count(kind, "context0", i, j, h)
      <4>1. CASE kind \in {"score_mac", "score_mvsb"}
        BY <1>1, <2>3, <4>1 DEF Count, Groups, Moved, Scored, ContextStages
      <4>2. CASE kind \in {"sfm", "score_wrgb", "context_mvgb"}
        BY <1>1, <2>3, <4>2 DEF Count, Softened, Wrote, Ahead, ContextStages
      <4> QED BY <4>1, <4>2 DEF Counted
    <3> QED BY <1>1, <1>4, <3>1, <3>2 DEF Proper
  <2>4. CASE h = i + 1
    <3>1. CASE kind \in {"score_mac", "score_mvsb", "score_wrgb"}
      <4>1. Count(kind, stage', i', j', h) = Count(kind, "context0", i, j, h)
        BY <1>1, <2>4, <3>1 DEF Count, Groups, Moved, Wrote, Scored
      <4> QED BY <1>1, <1>4, <2>4, <3>1, <4>1 DEF Proper
    <3>2. CASE kind = "sfm"
      BY <1>1, <2>4, <3>2 DEF Proper, Count, Softened
    <3>3. CASE kind = "context_mvgb"
      <4>1. n2 = Late(After(j, Sizes.context), Sizes.context) * Stride(kind, h, half(Sizes.context))
        BY <2>4, <3>3
      <4>2. Late(Sizes.context, Sizes.context) = half(Sizes.context)
        BY <1>1, LateEnds
      <4>3. h # i' /\ ~ (h < i') /\ h = i' + 1
        BY <1>1, <2>4
      <4>4. CASE j < Sizes.context
        BY <1>1, <3>3, <4>1, <4>3, <4>4 DEF Proper, Count, Ahead, After
      <4>5. CASE j = Sizes.context
        BY <1>1, <3>3, <4>1, <4>2, <4>3, <4>5 DEF Proper, Count, Ahead, After
      <4> QED BY <1>1, <4>4, <4>5
    <3> QED BY <3>1, <3>2, <3>3 DEF Counted
  <2> QED BY <1>6, <2>1, <2>2, <2>3, <2>4
<1> QED BY <1>12, <1>13 DEF Sofar

\* nor, when an iteration starts, for its heads,
LEMMA Fresh ==
  ASSUME ArgsTyped, NEW st \in {"query", "single_query"}, NEW k \in Nat, NEW l,
         NEW h \in Nat, h >= k, NEW kind \in Counted
  PROVE  Count(kind, st, k, l, h) = 0
<1>1. ~ (h < k)
  OBVIOUS
<1>2. ~ Scored(st, k, h) /\ ~ Scoring(st, k, h)
  BY <1>1 DEF Scored, Scoring, ContextStages
<1>3. ~ Softened(st, k, l, h) /\ Wrote(st, k, l, h) = 0 /\ Ahead(st, k, l, h) = 0
  BY <1>1 DEF Softened, Wrote, Ahead, ContextStages
<1> QED BY <1>2, <1>3, Nothing

\* nor, when a head is on its own, for those after it.
LEMMA AfterSingle ==
  ASSUME ArgsTyped, NEW st \in {"single_query", "single_score", "single_softmax", "single_context"},
         NEW k \in Nat, NEW l, NEW h \in Nat, h > k, NEW kind \in Counted
  PROVE  Count(kind, st, k, l, h) = 0
<1>1. ~ (h < k) /\ h # k
  OBVIOUS
<1>2. ~ Scored(st, k, h) /\ ~ Scoring(st, k, h)
  BY <1>1 DEF Scored, Scoring
<1>3. ~ Softened(st, k, l, h) /\ Wrote(st, k, l, h) = 0 /\ Ahead(st, k, l, h) = 0
  BY <1>1 DEF Softened, Wrote, Ahead
<1> QED BY <1>2, <1>3, Nothing

\* What has been emitted of a head when its context ends is enough.
LEMMA Finishes ==
  ASSUME ArgsTyped, NEW k \in Nat, NEW l, NEW h \in Iterations, NEW kind \in Counted, NEW st,
         (st = "context1" /\ (h = k \/ h = k + 1)) \/ (st = "single_context" /\ h = k),
         NEW n \in Nat, n = Count(kind, st, k, l, h)
  PROVE  Enough(kind, h, n)
<1>1. /\ Listed("score_mac", h) \in Nat /\ Listed("score_wrgb", h) \in Nat /\ Listed("context_mvgb", h) \in Nat
      /\ Listed("score_mvsb", h) = score_length /\ Listed("sfm", h) = 1
      /\ \A x \in Nat : x >= score_length * n_group => Upto("score_mac", h, x) = Listed("score_mac", h)
      /\ score_length \in Nat \ {0} /\ n_group \in Nat /\ score_length * n_group \in Nat
  BY ListedValues, ScoreLength DEF Counted
<1>2. half(score_length) \in Nat \ {0} /\ half(Sizes.context) \in Nat \ {0}
  <2>1. \A x \in Nat : half(x) \in Nat /\ (x > 0 => half(x) > 0)
    BY Halves
  <2>2. Sizes.context \in Nat \ {0}
    BY SizesType
  <2> QED BY <1>1, <2>1, <2>2
<1>3. Scored(st, k, h)
  BY DEF Scored, ContextStages
<1>4. CASE kind = "score_mac"
  <2>1. n = Listed(kind, h)
    BY <1>1, <1>3, <1>4 DEF Count, Groups
  <2> QED BY <1>1, <1>4, <2>1 DEF Enough
<1>5. CASE kind = "score_mvsb"
  <2>1. n = Listed(kind, h)
    BY <1>1, <1>3, <1>5 DEF Count, Moved
  <2> QED BY <1>1, <1>5, <2>1 DEF Enough
<1>6. CASE kind = "sfm"
  <2>1. n = Listed(kind, h)
    BY <1>1, <1>6 DEF Count, Softened, ContextStages
  <2> QED BY <1>1, <1>6, <2>1 DEF Enough
<1>7. CASE kind = "score_wrgb"
  <2>1. n = Listed(kind, h) \/ n = score_length * Stride("score_wrgb", h, score_length)
    BY <1>7 DEF Count, Wrote
  <2>2. \A x \in Nat : x = score_length * Stride("score_wrgb", h, score_length) =>
          x <= Listed(kind, h) /\ Listed(kind, h) - x < score_length
    <3>1. PICK size \in Nat : size = Listed(kind, h)
      BY <1>1, <1>7
    <3>2. score_length \in 0 .. score_length
      BY <1>1
    <3>3. /\ score_length * (size \div score_length) <= size
          /\ size - score_length * (size \div score_length) < score_length
      BY <1>1, <3>2, StrideFits
    <3> QED BY <1>7, <3>1, <3>3 DEF Stride
  <2>3. n <= Listed(kind, h) /\ Listed(kind, h) - n < score_length
    BY <1>1, <1>7, <2>1, <2>2
  <2> QED BY <1>7, <2>3 DEF Enough
<1>8. CASE kind = "context_mvgb"
  <2>1. \/ n = Listed(kind, h)
        \/ n = half(score_length) * Stride("context_mvgb", h, half(score_length))
        \/ n = half(Sizes.context) * Stride("context_mvgb", h, half(Sizes.context))
    BY <1>8 DEF Count, Ahead
  <2>2. ASSUME NEW parts \in Nat \ {0}, NEW x \in Nat, x = parts * Stride("context_mvgb", h, parts)
        PROVE  x <= Listed(kind, h) /\ Listed(kind, h) - x < parts
    <3>1. PICK size \in Nat : size = Listed(kind, h)
      BY <1>1, <1>8
    <3>2. parts \in 0 .. parts
      OBVIOUS
    <3>3. parts * (size \div parts) <= size /\ size - parts * (size \div parts) < parts
      BY <3>2, StrideFits
    <3> QED BY <1>8, <2>2, <3>1, <3>3 DEF Stride
  <2>3. n <= Listed(kind, h) /\ Listed(kind, h) - n < half(score_length) + half(Sizes.context)
    <3>1. CASE n = Listed(kind, h)
      BY <1>1, <1>2, <1>8, <3>1
    <3>2. CASE n = half(score_length) * Stride("context_mvgb", h, half(score_length))
      <4>1. n <= Listed(kind, h) /\ Listed(kind, h) - n < half(score_length)
        BY <1>2, <2>2, <3>2
      <4> QED BY <1>1, <1>2, <1>8, <4>1
    <3>3. CASE n = half(Sizes.context) * Stride("context_mvgb", h, half(Sizes.context))
      <4>1. n <= Listed(kind, h) /\ Listed(kind, h) - n < half(Sizes.context)
        BY <1>2, <2>2, <3>3
      <4> QED BY <1>1, <1>2, <1>8, <4>1
    <3> QED BY <2>1, <3>1, <3>2, <3>3
  <2> QED BY <1>8, <2>3 DEF Enough
<1> QED BY <1>4, <1>5, <1>6, <1>7, <1>8 DEF Counted

LEMMA ContextOnlyCounts ==
  ASSUME TraceInv, CountInv, NEW name, NEW next,
         \/ name = "context1" /\ next = i + 2
         \/ name = "single_context" /\ next = i + 1,
         Loop(name, Sizes.context,
              Cmds("context_mac", i, j, 1) \o Moves("context_mvsb", i), Continue(next))
  PROVE  Counts(total_cmd', stage', i', j')
<1> DEFINE a == Cmds("context_mac", i, j, 1)
           b == Moves("context_mvsb", i)
           d == Barriers(Sizes.context)
<1>1. /\ ArgsTyped /\ i \in Nat /\ i < num_itr /\ i \in Iterations /\ num_itr \in Nat
      /\ Sizes.context \in Nat \ {0} /\ j \in 0 .. Sizes.context
      /\ stage = name /\ next \in Nat
      /\ \/ j < Sizes.context /\ stage' = stage /\ i' = i /\ j' = j + 1
         \/ /\ i' = next
            /\ stage' \in {"query", "single_query", "done"}
            /\ stage' = "done" => next >= num_itr
  <2>1. /\ i \in Nat /\ num_itr \in Nat /\ j \in Nat /\ ArgsTyped /\ Sizes.context \in Nat \ {0}
        /\ stage # "done" => i < num_itr
        /\ stage \in ContextStages => j <= Sizes.context
    BY ControlType, SizesType DEF Control
  <2>2. stage = name /\ stage # "done" /\ stage \in ContextStages /\ next \in Nat
    BY <2>1 DEF Loop, ContextStages
  <2>3. \/ j < Sizes.context /\ stage' = stage /\ i' = i /\ j' = j + 1
        \/ /\ i' = next
           /\ stage' \in {"query", "single_query", "done"}
           /\ stage' = "done" => ~ (next < num_itr)
    BY DEF Loop, Continue
  <2> QED BY <2>1, <2>2, <2>3 DEF Iterations
<1>2. Are(a, "context_mac", i) /\ Are(b, "context_mvsb", i)
  <2>1. i \in 0 .. num_itr /\ j \in Nat /\ "context_mac" \in Kinds /\ "context_mvsb" \in Kinds
    BY <1>1 DEF Kinds
  <2> QED BY <1>1, <2>1, CmdsAre, MovesAre
<1>3. total_cmd' = ((total_cmd \o a) \o b) \o d
  <2>1. total_cmd' = total_cmd \o (a \o b) \o d /\ total_cmd \in Seq(Command)
    BY ControlType DEF Loop
  <2> HIDE DEF a, b, d
  <2>2. total_cmd \o (a \o b) = (total_cmd \o a) \o b
    <3>1. a \in Seq(Command) /\ b \in Seq(Command)
      BY <1>2 DEF Are
    <3>2. total_cmd \in Seq(Command)
      BY ControlType
    <3> QED BY <3>1, <3>2, Associative
  <2> QED BY <2>1, <2>2
<1> SUFFICES ASSUME NEW kind \in Counted, NEW h \in Iterations
             PROVE  \E n \in 0 .. Listed(kind, h) :
                      Block(total_cmd', kind, h, 0, n) /\ Proper(kind, stage', i', j', h, n)
  BY DEF Counts
<1>4. PICK n \in Nat : Sofar(total_cmd, kind, h, n) /\ Proper(kind, stage, i, j, h, n)
  BY Current
<1>5. h \in Nat /\ h < num_itr
  BY <1>1, ListedValues DEF Iterations
<1>6. Sofar(total_cmd', kind, h, n)
  <2>1. "context_mac" \notin Counted /\ "context_mvsb" \notin Counted /\ "barrier" \notin Counted
    BY DEF Counted
  <2>2. Are(d, "barrier", 0)
    BY <1>1, BarriersAre
  <2> HIDE DEF a, b, d
  <2>3. /\ Adds(a, "context_mac", i, kind, h, n, n) /\ Adds(b, "context_mvsb", i, kind, h, n, n)
        /\ Adds(d, "barrier", 0, kind, h, n, n)
    BY <1>2, <2>1, <2>2, AddsNothing
  <2>4. Sofar(total_cmd \o a, kind, h, n)
    BY <1>1, <1>4, <2>3, Added
  <2>5. Sofar((total_cmd \o a) \o b, kind, h, n)
    BY <1>1, <2>3, <2>4, Added
  <2> QED BY <1>1, <1>3, <2>3, <2>5, Added
<1> HIDE DEF a, b, d
<1>7. h >= next => Count(kind, stage, i, j, h) = 0
  <2>1. CASE name = "context1"
    <3>1. h >= next => h > i + 1
      BY <1>1, <1>5, <2>1
    <3> QED BY <1>1, <1>5, <3>1, NotYet
  <2>2. CASE name = "single_context"
    <3>1. h >= next => h > i
      BY <1>1, <1>5, <2>2
    <3> QED BY <1>1, <1>5, <2>2, <3>1, AfterSingle
  <2> QED BY <2>1, <2>2
<1>8. Proper(kind, stage', i', j', h, n)
  <2>1. CASE j < Sizes.context /\ stage' = stage /\ i' = i /\ j' = j + 1
    <3>1. Count(kind, stage, i, j', h) = Count(kind, stage, i, j, h)
      <4>1. stage = "context1" \/ stage = "single_context"
        BY <1>1
      <4>2. CASE kind = "score_mac"
        BY <4>1, <4>2 DEF Count, Groups, Scoring
      <4>3. CASE kind = "score_mvsb"
        BY <4>1, <4>3 DEF Count, Moved, Scoring
      <4>4. CASE kind \in {"sfm", "score_wrgb", "context_mvgb"}
        BY <4>1, <4>4 DEF Count, Softened, Wrote, Ahead
      <4> QED BY <4>2, <4>3, <4>4 DEF Counted
    <3> QED BY <1>4, <2>1, <3>1 DEF Proper
  <2>2. CASE /\ i' = next
             /\ stage' \in {"query", "single_query", "done"}
             /\ stage' = "done" => next >= num_itr
    <3>1. CASE h < next
      <4>1. CASE h < i
        BY <1>1, <1>4, <1>5, <2>2, <3>1, <4>1 DEF Proper
      <4>2. CASE ~ (h < i)
        <5>1. n = Count(kind, stage, i, j, h)
          BY <1>4, <4>2 DEF Proper
        <5>2. (stage = "context1" /\ (h = i \/ h = i + 1)) \/ (stage = "single_context" /\ h = i)
          BY <1>1, <1>5, <3>1, <4>2
        <5>3. Enough(kind, h, n)
          BY <1>1, <5>1, <5>2, Finishes
        <5> QED BY <2>2, <3>1, <5>3 DEF Proper
      <4> QED BY <4>1, <4>2
    <3>2. CASE h >= next
      <4>1. stage' \in {"query", "single_query"} /\ ~ (h < next)
        BY <1>1, <1>5, <2>2, <3>2
      <4>2. Count(kind, stage', next, j', h) = 0
        BY <1>1, <1>5, <3>2, <4>1, Fresh
      <4>3. n = 0
        <5>1. ~ (h < i)
          BY <1>1, <1>5, <3>2
        <5> QED BY <1>4, <1>7, <3>2, <5>1 DEF Proper
      <4> QED BY <2>2, <4>1, <4>2, <4>3 DEF Proper
    <3> QED BY <1>1, <1>5, <3>1, <3>2
  <2> QED BY <1>1, <2>1, <2>2
<1> QED BY <1>6, <1>8 DEF Sofar

LEMMA QueryCounted ==
  ASSUME TraceInv, CountInv, NEW e, Are(e, "dummy_mac", 0),
         total_cmd' = ((total_cmd \o All("score_wrgb", i)) \o e) \o Barrier,
         \/ stage = "query" /\ stage' = "score0"
         \/ stage = "single_query" /\ stage' = "single_score",
         i' = i, j' = j
  PROVE  Counts(total_cmd', stage', i', j')
<1> DEFINE a == All("score_wrgb", i)
<1>1. /\ ArgsTyped /\ i \in Nat /\ i < num_itr /\ i \in Iterations /\ num_itr \in Nat
      /\ j = 0 /\ n_group \in Nat /\ score_length \in Nat \ {0}
  BY ControlType, ScoreLength DEF Control, Iterations
<1> SUFFICES ASSUME NEW kind \in Counted, NEW h \in Iterations
             PROVE  \E n \in 0 .. Listed(kind, h) :
                      Block(total_cmd', kind, h, 0, n) /\ Proper(kind, stage', i', j', h, n)
  BY DEF Counts
<1>2. PICK n \in Nat : Sofar(total_cmd, kind, h, n) /\ Proper(kind, stage, i, j, h, n)
  BY Current
<1>3. h \in Nat /\ Upto("score_mac", h, 0) = 0 /\ Stride("score_wrgb", h, score_length) \in Nat
  BY <1>1, ListedValues
<1>4. ~ (h < i) => n = 0
  <2>1. ~ (h < i) => Count(kind, stage, i, j, h) = 0
    <3>1. ~ (h < i) => h >= i
      BY <1>1, <1>3
    <3> QED BY <1>1, <1>3, <3>1, Fresh
  <2> QED BY <1>2, <2>1 DEF Proper
<1> DEFINE n1 == IF kind = "score_wrgb" /\ h = i THEN Listed(kind, h) ELSE n
<1>5. Adds(a, "score_wrgb", i, kind, h, n, n1)
  <2>1. kind = "score_wrgb" /\ h = i => n = 0
    BY <1>1, <1>4
  <2>2. PICK list \in Kinds : list = "score_wrgb"
    BY DEF Kinds
  <2> QED BY <1>1, <2>1, <2>2, AllAdds
<1>6. Sofar(total_cmd', kind, h, n1)
  <2>1. n1 \in Nat
    BY <1>5 DEF Adds
  <2>2. Are(Barrier, "barrier", 0)
    BY <1>1, BarriersAre
  <2> HIDE DEF a, n1
  <2>3. Adds(e, "dummy_mac", 0, kind, h, n1, n1) /\ Adds(Barrier, "barrier", 0, kind, h, n1, n1)
    <3>1. "dummy_mac" \notin Counted /\ "barrier" \notin Counted
      BY DEF Counted
    <3> QED BY <2>1, <2>2, <3>1, AddsNothing
  <2>4. Sofar(total_cmd \o a, kind, h, n1)
    BY <1>1, <1>2, <1>5, Added
  <2>5. Sofar((total_cmd \o a) \o e, kind, h, n1)
    BY <1>1, <2>3, <2>4, Added
  <2>6. total_cmd' = ((total_cmd \o a) \o e) \o Barrier
    BY DEF a
  <2> QED BY <1>1, <2>3, <2>5, <2>6, Added
<1> HIDE DEF a
<1>7. Proper(kind, stage', i', j', h, n1)
  <2>1. CASE h < i
    <3>1. n1 = n
      BY <1>1, <1>3, <2>1
    <3> QED BY <1>2, <2>1, <3>1 DEF Proper
  <2>2. CASE h = i
    <3>1. ~ (h < i) /\ n = 0
      BY <1>1, <1>4, <2>2
    <3>2. CASE kind = "score_wrgb"
      BY <2>2, <3>1, <3>2 DEF Proper, Count, Wrote
    <3>3. CASE kind = "score_mac"
      <4>1. Groups(stage', i', j', h) = 0
        BY <1>1, <2>2, <3>1 DEF Groups, Scored, Scoring, ContextStages
      <4> QED BY <1>1, <1>3, <3>1, <3>3, <4>1 DEF Proper, Count
    <3>4. CASE kind = "score_mvsb"
      <4>1. Moved(stage', i', j', h) = 0
        BY <1>1, <2>2, <3>1 DEF Moved, Scored, Scoring, ContextStages
      <4> QED BY <3>1, <3>4, <4>1 DEF Proper, Count
    <3>5. CASE kind \in {"sfm", "context_mvgb"}
      BY <2>2, <3>1, <3>5 DEF Proper, Count, Softened, Ahead, ContextStages
    <3> QED BY <3>2, <3>3, <3>4, <3>5 DEF Counted
  <2>3. CASE h > i
    <3>1. ~ (h < i) /\ h # i /\ n = 0 /\ n1 = n
      BY <1>1, <1>3, <1>4, <2>3
    <3>2. Groups(stage', i', j', h) = 0 /\ Moved(stage', i', j', h) = 0
      BY <3>1 DEF Groups, Moved, Scored, Scoring
    <3>3. CASE kind = "score_wrgb"
      <4>1. 0 * Stride("score_wrgb", h, score_length) = 0
        BY <1>3
      <4> QED BY <1>1, <3>1, <3>3, <4>1 DEF Proper, Count, Wrote
    <3>4. CASE kind \in {"score_mac", "score_mvsb"}
      BY <1>1, <1>3, <3>1, <3>2, <3>4 DEF Proper, Count
    <3>5. CASE kind \in {"sfm", "context_mvgb"}
      BY <3>1, <3>5 DEF Proper, Count, Softened, Ahead
    <3> QED BY <3>3, <3>4, <3>5 DEF Counted
  <2> QED BY <1>1, <1>3, <2>1, <2>2, <2>3
<1> QED BY <1>6, <1>7 DEF Sofar

LEMMA QueryCounts ==
  ASSUME TraceInv, CountInv, Query
  PROVE  Counts(total_cmd', stage', i', j')
<1> DEFINE e == IF i = 0 THEN <<<<"dummy_mac", 0, 0>>>> ELSE <<>>
<1>1. Are(e, "dummy_mac", 0)
  <2>1. <<"dummy_mac", 0, 0>> \in Command
    BY ControlType DEF Command
  <2> DEFINE c == <<<<"dummy_mac", 0, 0>>>>
  <2>2. /\ c \in Seq(Command) /\ Len(c) = 1 /\ c[1] = <<"dummy_mac", 0, 0>>
    BY <2>1
  <2> HIDE DEF c
  <2>3. ToSet(c) = {c[p] : p \in 1 .. Len(c)}
    BY <2>2, ToSetByIndex
  <2>4. \A p \in 1 .. Len(c) : p = 1
    BY <2>2
  <2>5. \A x \in ToSet(c) : x[1] = "dummy_mac" /\ x[2] = 0
    BY <2>2, <2>3, <2>4
  <2>6. Are(c, "dummy_mac", 0)
    BY <2>2, <2>5 DEF Are
  <2>7. Are(<<>>, "dummy_mac", 0)
    BY EmptyAre
  <2> QED BY <2>6, <2>7 DEF c
<1>2. /\ total_cmd' = ((total_cmd \o All("score_wrgb", i)) \o e) \o Barrier
      /\ stage = "query" /\ stage' = "score0" /\ i' = i /\ j' = j
  BY DEF Query, GoTo
<1> HIDE DEF e
<1> QED BY <1>1, <1>2, QueryCounted

LEMMA SingleQueryCounts ==
  ASSUME TraceInv, CountInv, SingleQuery
  PROVE  Counts(total_cmd', stage', i', j')
<1> DEFINE a == All("score_wrgb", i)
<1>1. /\ total_cmd' = (total_cmd \o a) \o Barrier
      /\ stage = "single_query" /\ stage' = "single_score" /\ i' = i /\ j' = j
  BY DEF SingleQuery, GoTo
<1>2. (total_cmd \o a) \o <<>> = total_cmd \o a
  <2>1. a \in Seq(Command) /\ total_cmd \in Seq(Command)
    BY ControlType, AllAre DEF Are, Kinds
  <2> DEFINE t == total_cmd \o a
  <2> HIDE DEF a
  <2>2. t \in Seq(Command)
    BY <2>1, ConcatProperties
  <2> HIDE DEF t
  <2>3. t \o <<>> = t
    BY <2>2, ConcatEmptySeq
  <2> QED BY <2>3 DEF t
<1>3. total_cmd' = ((total_cmd \o a) \o <<>>) \o Barrier
  BY <1>1, <1>2
<1>4. Are(<<>>, "dummy_mac", 0)
  BY EmptyAre
<1> QED BY <1>1, <1>3, <1>4, QueryCounted

LEMMA SingleSoftmaxCounts ==
  ASSUME TraceInv, CountInv, SingleSoftmax
  PROVE  Counts(total_cmd', stage', i', j')
<1> DEFINE a == All("sfm", i)
           b == All("context_mvgb", i)
<1>1. /\ ArgsTyped /\ i \in Nat /\ i < num_itr /\ i \in Iterations /\ num_itr \in Nat
      /\ stage = "single_softmax" /\ stage' = "single_context" /\ i' = i /\ j' = j /\ j = 0
  BY ControlType DEF Control, SingleSoftmax, GoTo, Iterations
<1>2. total_cmd' = ((total_cmd \o a) \o b) \o Barrier
  BY DEF SingleSoftmax
<1> SUFFICES ASSUME NEW kind \in Counted, NEW h \in Iterations
             PROVE  \E n \in 0 .. Listed(kind, h) :
                      Block(total_cmd', kind, h, 0, n) /\ Proper(kind, stage', i', j', h, n)
  BY DEF Counts
<1>3. PICK n \in Nat : Sofar(total_cmd, kind, h, n) /\ Proper(kind, stage, i, j, h, n)
  BY Current
<1>4. h \in Nat /\ Listed("sfm", h) = 1
  BY <1>1, ListedValues
<1>5. ~ (h < i) => n = Count(kind, stage, i, j, h)
  BY <1>3 DEF Proper
<1>6. kind \in {"sfm", "context_mvgb"} /\ h = i => n = 0
  BY <1>1, <1>5 DEF Count, Softened, Ahead, ContextStages
<1> DEFINE n1 == IF kind = "sfm" /\ h = i THEN Listed(kind, h) ELSE n
           n2 == IF kind = "context_mvgb" /\ h = i THEN Listed(kind, h) ELSE n1
<1>7. Adds(a, "sfm", i, kind, h, n, n1)
  <2>1. PICK list \in Kinds : list = "sfm"
    BY DEF Kinds
  <2> QED BY <1>1, <1>6, <2>1, AllAdds
<1>8. Adds(b, "context_mvgb", i, kind, h, n1, n2)
  <2>1. PICK list \in Kinds : list = "context_mvgb"
    BY DEF Kinds
  <2>2. n1 \in Nat /\ (kind = "context_mvgb" /\ h = i => n1 = 0)
    BY <1>6, <1>7 DEF Adds
  <2> HIDE DEF n1
  <2> QED BY <1>1, <2>1, <2>2, AllAdds
<1>9. Sofar(total_cmd', kind, h, n2)
  <2>1. n2 \in Nat
    BY <1>8 DEF Adds
  <2> HIDE DEF a, b, n1, n2
  <2>2. Adds(Barrier, "barrier", 0, kind, h, n2, n2)
    BY <1>1, <2>1, BarriersAre, AddsNothing DEF Counted
  <2>3. Sofar(total_cmd \o a, kind, h, n1)
    BY <1>1, <1>3, <1>7, Added
  <2>4. Sofar((total_cmd \o a) \o b, kind, h, n2)
    BY <1>1, <1>8, <2>3, Added
  <2> QED BY <1>1, <1>2, <2>2, <2>4, Added
<1> HIDE DEF a, b
<1>10. Proper(kind, stage', i', j', h, n2)
  <2>1. CASE h < i
    <3>1. n2 = n
      BY <1>1, <1>4, <2>1
    <3> QED BY <1>1, <1>3, <2>1, <3>1 DEF Proper
  <2>2. CASE h = i
    <3>1. ~ (h < i)
      BY <1>1, <2>2
    <3>2. CASE kind \in {"sfm", "context_mvgb"}
      BY <1>1, <1>4, <2>2, <3>1, <3>2 DEF Proper, Count, Softened, Ahead, ContextStages
    <3>3. CASE kind \in {"score_mac", "score_mvsb"}
      <4>1. Count(kind, stage', i', j', h) = Count(kind, stage, i, j, h)
        BY <1>1, <2>2, <3>3 DEF Count, Groups, Moved, Scored, ContextStages
      <4> QED BY <1>1, <1>5, <3>1, <3>3, <4>1 DEF Proper
    <3>4. CASE kind = "score_wrgb"
      BY <1>1, <1>5, <2>2, <3>1, <3>4 DEF Proper, Count, Wrote
    <3> QED BY <3>2, <3>3, <3>4 DEF Counted
  <2>3. CASE h > i
    <3>1. ~ (h < i) /\ h # i /\ n2 = n
      BY <1>1, <1>4, <2>3
    <3>2. Count(kind, stage, i, j, h) = 0 /\ Count(kind, stage', i', j', h) = 0
      BY <1>1, <1>4, <2>3, AfterSingle
    <3> QED BY <1>1, <1>5, <3>1, <3>2 DEF Proper
  <2> QED BY <1>1, <1>4, <2>1, <2>2, <2>3
<1> QED BY <1>9, <1>10 DEF Sofar

-----------------------------------------------------------------------------
(* The invariant. *)

Finished == stage = "done" => i = num_itr

LEMMA InitCounts == Init => CountInv /\ Finished
<1> SUFFICES ASSUME Init PROVE CountInv /\ Finished
  OBVIOUS
<1>1. TraceInv
  BY InitHolds
<1>2. /\ ArgsTyped /\ i = 0 /\ i \in Nat /\ total_cmd = <<>> /\ total_cmd \in Seq(Command)
      /\ stage \in {"query", "single_query"}
  BY <1>1, ControlType DEF Init
<1>3. \A x \in ToSet(total_cmd) : FALSE
  BY <1>2, EmptyAre
<1>4. PICK zero \in Nat : zero = 0
  OBVIOUS
<1>5. ASSUME NEW kind \in Counted, NEW h \in Iterations
      PROVE  \E n \in 0 .. Listed(kind, h) :
               Block(total_cmd, kind, h, 0, n) /\ Proper(kind, stage, i, j, h, n)
  <2>1. h \in Nat /\ h >= i /\ ~ (h < i) /\ Listed(kind, h) \in Nat
    BY <1>2, ListedValues
  <2>2. Block(total_cmd, kind, h, zero, zero)
    BY <1>2, <1>3, NoBlock
  <2>3. Count(kind, stage, i, j, h) = 0
    BY <1>2, <2>1, Fresh
  <2>4. Proper(kind, stage, i, j, h, 0)
    BY <2>1, <2>3 DEF Proper
  <2> QED BY <1>4, <2>1, <2>2, <2>4
<1> QED BY <1>2, <1>5 DEF CountInv, Counts, Finished

LEMMA StepCounts ==
  ASSUME TraceInv, CountInv, Finished, [Next]_vars
  PROVE  CountInv' /\ Finished'
<1>1. UNCHANGED args
  BY DEF Next, vars, Query, Score0, Score1, Context0, Context1, SingleQuery,
         SingleScore, SingleSoftmax, SingleContext, Loop
<1>2. Counts(total_cmd', stage', i', j')
  <2>1. CASE Query
    BY <2>1, QueryCounts
  <2>2. CASE Score0
    BY <2>2, Score0Counts
  <2>3. CASE Score1
    BY <2>3, Score1Counts
  <2>4. CASE Context0
    BY <2>4, Context0Counts
  <2>5. CASE Context1
    BY <2>5, ContextOnlyCounts DEF Context1
  <2>6. CASE SingleQuery
    BY <2>6, SingleQueryCounts
  <2>7. CASE SingleScore
    BY <2>7, SingleScoreCounts
  <2>8. CASE SingleSoftmax
    BY <2>8, SingleSoftmaxCounts
  <2>9. CASE SingleContext
    BY <2>9, ContextOnlyCounts DEF SingleContext
  <2>10. CASE UNCHANGED vars
    BY <2>10 DEF vars, CountInv
  <2> QED BY <2>1, <2>2, <2>3, <2>4, <2>5, <2>6, <2>7, <2>8, <2>9, <2>10 DEF Next
<1>3. /\ num_itr' = num_itr /\ Sizes' = Sizes /\ score_length' = score_length
      /\ n_head_per_hbm' = n_head_per_hbm
  BY <1>1 DEF args, num_itr, Sizes, BankSizes, BgSizes, BufferSizes, score_length
<1>4. Counts(total_cmd, stage, i, j)'
  <2>1. Iterations' = Iterations
    BY <1>3 DEF Iterations
  <2>2. ASSUME NEW kind \in Counted, NEW h \in Iterations
        PROVE  \E n \in 0 .. Listed(kind, h)' : Block(total_cmd', kind, h, 0, n) /\ Proper(kind, stage, i, j, h, n)'
    <3>1. PICK n \in 0 .. Listed(kind, h) :
            Block(total_cmd', kind, h, 0, n) /\ Proper(kind, stage', i', j', h, n)
      BY <1>2 DEF Counts
    <3>2. ASSUME NEW list PROVE Listed(list, h)' = Listed(list, h)
      BY <1>3 DEF Listed, valid_channels
    <3>3. Enough(kind, h, n)' <=> Enough(kind, h, n)
      BY <1>3, <3>2 DEF Enough
    <3>4. Count(kind, stage, i, j, h)' = Count(kind, stage', i', j', h)
      <4>1. CASE kind \in {"score_mac", "score_mvsb"}
        BY <1>3, <3>2, <4>1 DEF Count, Upto, Groups, Moved, Scored, Scoring
      <4>2. CASE kind = "sfm"
        BY <4>2 DEF Count, Softened
      <4>3. CASE kind \in {"score_wrgb", "context_mvgb"}
        BY <1>3, <3>2, <4>3 DEF Count, Wrote, Ahead, Stride
      <4> QED BY <4>1, <4>2, <4>3 DEF Counted
    <3>5. Proper(kind, stage, i, j, h, n)'
      BY <3>1, <3>3, <3>4 DEF Proper
    <3> QED BY <3>1, <3>2, <3>5
  <2> QED BY <2>1, <2>2 DEF Counts, Block
<1>5. Finished'
  <2>1. /\ i \in Nat /\ num_itr \in Nat /\ (stage # "done" => i < num_itr)
        /\ stage = "context1" => i + 1 < num_itr
    BY ControlType DEF Control
  <2>2. stage' = "done" => i' = num_itr
    BY <2>1 DEF Finished, Next, vars, Query, Score0, Score1, Context0, Context1, SingleQuery,
         SingleScore, SingleSoftmax, SingleContext, Loop, GoTo, Continue
  <2> QED BY <1>3, <2>2 DEF Finished
<1> QED BY <1>4, <1>5 DEF CountInv

LEMMA AlwaysCounts == Spec => [](TraceInv /\ CountInv /\ Finished)
<1>1. Init => TraceInv /\ CountInv /\ Finished
  BY InitHolds, InitCounts
<1>2. TraceInv /\ CountInv /\ Finished /\ [Next]_vars => (TraceInv /\ CountInv /\ Finished)'
  BY Inductive, StepCounts
<1> QED BY <1>1, <1>2, PTL DEF Spec

\* As many commands of a list as there are numbers.
LEMMA BlockEmitted ==
  ASSUME TraceInv, NEW kind, NEW h, NEW n \in Nat, Block(total_cmd, kind, h, 0, n)
  PROVE  Emitted(kind, h) = 0 .. n - 1 /\ Once(kind, h) /\ Cardinality(Emitted(kind, h)) = n
<1> DEFINE S == At(kind, h)
           T == Emitted(kind, h)
           f == [p \in S |-> Number(p)]
<1>1. total_cmd \in Seq(Command) /\ Len(total_cmd) \in Nat /\ DOMAIN total_cmd = 1 .. Len(total_cmd)
  BY ControlType, LenProperties
<1>2. \A p \in 1 .. Len(total_cmd) :
        total_cmd[p] = <<total_cmd[p][1], total_cmd[p][2], total_cmd[p][3]>> /\ total_cmd[p][3] \in Nat
  <2>1. \A p \in 1 .. Len(total_cmd) : total_cmd[p] \in Command
    BY <1>1, ElementOfSeq
  <2>2. \A x \in Command : x = <<x[1], x[2], x[3]>> /\ x[3] \in Nat
    BY DEF Command
  <2> QED BY <2>1, <2>2
<1>3. T = 0 .. n - 1
  <2>1. ASSUME NEW x \in T PROVE x \in 0 .. n - 1
    BY <1>1, <1>2, <2>1 DEF Emitted, At, Number, Block
  <2>2. ASSUME NEW x \in 0 .. n - 1 PROVE x \in T
    <3>1. x \in Nat /\ 0 <= x /\ x < n
      OBVIOUS
    <3>2. PICK p \in 1 .. Len(total_cmd) : total_cmd[p] = <<kind, h, x>>
      BY <3>1 DEF Block
    <3> QED BY <1>1, <3>2 DEF Emitted, At, Number
  <2> QED BY <2>1, <2>2
<1>4. IsFiniteSet(S)
  <2>1. S \subseteq 1 .. Len(total_cmd)
    BY <1>1 DEF At
  <2>2. IsFiniteSet(1 .. Len(total_cmd))
    BY <1>1, FS_Interval
  <2> QED BY <2>1, <2>2, FS_Subset
<1>5. \A p, q \in S : f[p] = f[q] => p = q
  <2> SUFFICES ASSUME NEW p \in S, NEW q \in S, Number(p) = Number(q) PROVE p = q
    OBVIOUS
  <2>1. /\ p \in 1 .. Len(total_cmd) /\ total_cmd[p][1] = kind /\ total_cmd[p][2] = h
        /\ q \in 1 .. Len(total_cmd) /\ total_cmd[q][1] = kind /\ total_cmd[q][2] = h
        /\ total_cmd[p][3] = total_cmd[q][3]
    BY <1>1 DEF At, Number
  <2>2. total_cmd[p] = total_cmd[q]
    BY <1>2, <2>1
  <2> QED BY <2>1, <2>2 DEF Block
<1>6. ExistsBijection(S, T)
  <2>1. f \in Surjection(S, T)
    BY DEF Emitted, Surjection
  <2>2. f \in Injection(S, T)
    BY <1>5, <2>1 DEF Injection, IsInjective, Surjection
  <2> QED BY <2>1, <2>2 DEF ExistsBijection, Bijection
<1>7. Cardinality(T) = Cardinality(S)
  BY <1>4, <1>6, FS_Bijection
<1>8. Cardinality(T) = n
  BY <1>3, FS_Interval
<1> QED BY <1>3, <1>7, <1>8 DEF Once

\* Every head is scored once and completely (run_attention): for no length,
\* dimension or number of heads do the loops that overlap leave out a step, a
\* move or a softmax or repeat one, and less than a command per iteration is
\* missing of the vectors spread over a loop.
THEOREM EveryHeadScored == Spec => []ScoresComplete
<1>1. ASSUME TraceInv, CountInv, Finished PROVE ScoresComplete
  <2> SUFFICES ASSUME stage = "done", NEW h \in Iterations
               PROVE  /\ \A kind \in {"score_mac", "score_mvsb", "sfm"} :
                           Emitted(kind, h) = 0 .. Listed(kind, h) - 1 /\ Once(kind, h)
                      /\ Once("score_wrgb", h) /\ Once("context_mvgb", h)
                      /\ Listed("score_wrgb", h) - Cardinality(Emitted("score_wrgb", h)) < score_length
                      /\ Listed("context_mvgb", h) - Cardinality(Emitted("context_mvgb", h))
                           < half(score_length) + half(Sizes.context)
    BY DEF ScoresComplete
  <2>1. i = num_itr /\ num_itr \in Nat /\ h < i
    BY <1>1, ControlType DEF Finished, Iterations
  <2>2. ASSUME NEW kind \in Counted
        PROVE  /\ Once(kind, h) /\ Enough(kind, h, Cardinality(Emitted(kind, h)))
               /\ Emitted(kind, h) = 0 .. Cardinality(Emitted(kind, h)) - 1
    <3>1. PICK n \in Nat : Sofar(total_cmd, kind, h, n) /\ Proper(kind, stage, i, j, h, n)
      BY <1>1, Current
    <3>2. Block(total_cmd, kind, h, 0, n) /\ Enough(kind, h, n)
      BY <2>1, <3>1 DEF Sofar, Proper
    <3>3. Emitted(kind, h) = 0 .. n - 1 /\ Once(kind, h) /\ Cardinality(Emitted(kind, h)) = n
      BY <1>1, <3>2, BlockEmitted
    <3> QED BY <3>2, <3>3
  <2>3. ASSUME NEW kind \in {"score_mac", "score_mvsb", "sfm"}
        PROVE  Emitted(kind, h) = 0 .. Listed(kind, h) - 1 /\ Once(kind, h)
    <3>1. kind \in Counted
      BY DEF Counted
    <3>2. Cardinality(Emitted(kind, h)) = Listed(kind, h)
      BY <2>2, <3>1 DEF Enough
    <3> QED BY <2>2, <3>1, <3>2
  <2>4. "score_wrgb" \in Counted /\ "context_mvgb" \in Counted
    BY DEF Counted
  <2>5. /\ Once("score_wrgb", h)
        /\ Listed("score_wrgb", h) - Cardinality(Emitted("score_wrgb", h)) < score_length
    BY <2>2, <2>4 DEF Enough
  <2>6. /\ Once("context_mvgb", h)
        /\ Listed("context_mvgb", h) - Cardinality(Emitted("context_mvgb", h))
             < half(score_length) + half(Sizes.context)
    BY <2>2, <2>4 DEF Enough
  <2> QED BY <2>3, <2>5, <2>6
<1> QED BY <1>1, AlwaysCounts, PTL
=============================================================================
