-------------------------- MODULE SimulationProofs --------------------------
(***************************************************************************)
(* Proofs about the simulation, for all models, devices, costs and numbers *)
(* of GPUs: the times that overlap, the types of what is counted, the      *)
(* energies, the remembered tiles, the work and the memory that the GPUs   *)
(* share, what the pipeline does to the times of a stage, and the columns  *)
(* of the table.                                                           *)
(***************************************************************************)
EXTENDS SimulationProperties, SequenceTheorems, Induction

LEMMA QuotientBound ==
  ASSUME NEW a \in Nat, NEW h \in Nat \ {0}, NEW t \in Nat, a <= t * h
  PROVE  a \div h \in 0 .. t
OBVIOUS

\* At least one head for every GPU, as WorkPreserved and Ends ask for, too.
EnoughHeads == num_xpu \in Nat /\ args.model.num_heads \in Nat \ {0} /\ num_xpu <= args.model.num_heads

\* What is seen of t, and what is hidden: between nothing and all of it.
LEMMA RatioBounds ==
  ASSUME EnoughHeads, NEW t \in Nat
  PROVE  Ratio(t) \in 0 .. t /\ Hides(t) \in 0 .. t
<1> DEFINE h == args.model.num_heads
<1>1. t * num_xpu \in Nat /\ t * num_xpu <= t * h
  BY DEF EnoughHeads
<1>2. Ratio(t) \in 0 .. t
  BY <1>1, QuotientBound DEF EnoughHeads, Ratio
<1> QED BY <1>2 DEF Hides

\* Whatever the times of a decoder, the pipeline never makes it slower, and
\* never faster than the longest of its parts: what is hidden is hidden behind
\* something that is at least as long.
THEOREM OverlapBounds ==
  ASSUME EnoughHeads, NEW p \in [qkv : Nat, proj : Nat, x2g : Nat, attn : Nat], NEW level \in BOOLEAN
  PROVE  LET o == Overlap(p, level)
             total == o.qkv + o.proj + o.x2g + p.attn
         IN /\ total <= Total(p)
            /\ total >= p.attn /\ total >= p.x2g /\ total >= p.qkv + p.proj
<1> DEFINE fc == p.qkv + p.proj
           x2g == IF p.attn > p.x2g THEN Ratio(p.x2g) ELSE p.x2g - Hides(p.attn)
           o == Overlap(p, level)
           Bounded(q, r, x) == LET total == q + r + x + p.attn IN
             /\ total <= Total(p)
             /\ total >= p.attn /\ total >= p.x2g /\ total >= p.qkv + p.proj
<1> SUFFICES Bounded(o.qkv, o.proj, o.x2g)
  OBVIOUS
<1>1. p.qkv \in Nat /\ p.proj \in Nat /\ p.x2g \in Nat /\ p.attn \in Nat
  OBVIOUS
<1>2. /\ Ratio(p.qkv) \in 0 .. p.qkv /\ Ratio(p.proj) \in 0 .. p.proj
      /\ Ratio(p.x2g) \in 0 .. p.x2g /\ Hides(p.attn) \in 0 .. p.attn
  BY <1>1, RatioBounds
<1>3. CASE level /\ p.attn <= fc /\ fc > p.x2g
  <2> DEFINE a == (Hides(p.attn) * 3) \div 4
             b == Hides(p.attn) \div 4
  <2>1. o = [qkv |-> p.qkv - a, proj |-> p.proj - b, x2g |-> Ratio(p.x2g)]
    BY <1>3 DEF Overlap
  <2>2. a \in Nat /\ b \in Nat /\ a + b <= Hides(p.attn)
    BY <1>2
  <2> HIDE DEF a, b
  <2>3. Bounded(p.qkv - a, p.proj - b, Ratio(p.x2g))
    BY <1>1, <1>2, <1>3, <2>2 DEF Total
  <2> HIDE DEF o, Bounded
  <2> QED BY <2>1, <2>3
<1>4. CASE level /\ ~ (p.attn <= fc /\ fc > p.x2g)
  <2>1. o = [qkv |-> Ratio(p.qkv), proj |-> Ratio(p.proj), x2g |-> x2g]
    BY <1>4 DEF Overlap
  <2>2. Bounded(Ratio(p.qkv), Ratio(p.proj), x2g)
    BY <1>1, <1>2, <1>4 DEF Total
  <2> HIDE DEF o, Bounded, x2g
  <2> QED BY <2>1, <2>2
<1>5. CASE ~ level
  <2>1. o = [qkv |-> p.qkv, proj |-> p.proj, x2g |-> x2g]
    BY <1>5 DEF Overlap
  <2>2. Bounded(p.qkv, p.proj, x2g)
    BY <1>1, <1>2 DEF Total
  <2> HIDE DEF o, Bounded, x2g
  <2> QED BY <2>1, <2>2
<1> QED BY <1>3, <1>4, <1>5

-----------------------------------------------------------------------------
(* The layers of a device that has h heads and w columns of a matrix.      *)

LEMMA Products2 ==
  ASSUME NEW a \in Nat, NEW b \in Nat
  PROVE  a * b \in Nat
OBVIOUS

LEMMA Products5 ==
  ASSUME NEW a \in Nat, NEW b \in Nat, NEW c \in Nat, NEW d \in Nat, NEW e \in Nat
  PROVE  a * b * c * d \in Nat /\ a * b * c * d * e \in Nat
<1>1. a * b \in Nat
  OBVIOUS
<1>2. (a * b) * c \in Nat
  BY <1>1
<1>3. ((a * b) * c) * d \in Nat
  BY <1>2
<1> QED BY <1>3

Projections == {"qkv", "proj", "ff1", "ff2", "ff3"}

\* What is known of a layer may be anything: its time and its traffic are in V.
Layers(h, w, V) ==
  {x \in [name : LayerNames, type : LayerTypes, m : Nat, n : Nat, k : Nat, numOp : Nat,
          bound : {"compute", "memory"}, exec_time : V, off_traffic : V] :
     /\ x.type = "FC" <=> x.name \in Projections
     /\ x.type = "FC" => x.numOp = 1 /\ x.k >= w
     /\ x.type \in {"MATMUL", "SOFTMAX"} => x.numOp = h
     /\ x.type \in {"ACT", "NORM"} => x.numOp = 1 /\ x.k = 1}

Decoder(h, w, V) == Seq(Layers(h, w, V)) \ {<<>>}

LEMMA LayerType ==
  ASSUME NEW name \in LayerNames, NEW type \in LayerTypes, NEW m \in Nat, NEW n \in Nat,
         NEW k \in Nat, NEW numOp \in Nat, NEW h, NEW w,
         type = "FC" <=> name \in Projections,
         type = "FC" => numOp = 1 /\ k >= w,
         type \in {"MATMUL", "SOFTMAX"} => numOp = h,
         type \in {"ACT", "NORM"} => numOp = 1 /\ k = 1
  PROVE  Layer(name, type, m, n, k, numOp) \in Layers(h, w, {0})
BY DEF Layer, Layers

LEMMA JoinedLayers ==
  ASSUME NEW S, NEW s \in Seq(S), NEW t \in Seq(S)
  PROVE  s \o t \in Seq(S) /\ (s # <<>> => s \o t # <<>>)
<1>1. /\ s \o t \in Seq(S) /\ Len(s \o t) = Len(s) + Len(t)
      /\ Len(s) \in Nat /\ Len(t) \in Nat
  BY ConcatProperties, LenProperties
<1>2. s # <<>> => Len(s) # 0
  BY EmptySeq
<1>3. s \o t = <<>> => Len(s \o t) = 0
  OBVIOUS
<1> QED BY <1>1, <1>2, <1>3

LEMMA FeedForwardType ==
  ASSUME NEW model \in Models, NEW rows \in Nat, NEW ff \in Nat, NEW h, NEW w \in Nat,
         ff >= w, model.hdim >= w
  PROVE  feed_forward(model, rows, ff) \in Seq(Layers(h, w, {0}))
<1>1. model.hdim \in Nat
  BY DEF Models
<1>2. /\ Layer("ff1", "FC", rows, ff, model.hdim, 1) \in Layers(h, w, {0})
      /\ Layer("ff2", "FC", rows, ff, model.hdim, 1) \in Layers(h, w, {0})
      /\ Layer("ff3", "FC", rows, model.hdim, ff, 1) \in Layers(h, w, {0})
      /\ Layer("ff2", "FC", rows, model.hdim, ff, 1) \in Layers(h, w, {0})
      /\ \A name \in {"glu", "relu", "gelu"} : Layer(name, "ACT", rows, ff, 1, 1) \in Layers(h, w, {0})
  <2>1. PICK one \in Nat : one = 1
    OBVIOUS
  <2>2. ASSUME NEW name \in LayerNames, name \in Projections, NEW n \in Nat, NEW k \in Nat, k >= w
        PROVE  Layer(name, "FC", rows, n, k, one) \in Layers(h, w, {0})
    <3>1. PICK type \in LayerTypes : type = "FC"
      BY DEF LayerTypes
    <3> QED BY <2>1, <2>2, <3>1, LayerType
  <2>3. ASSUME NEW name \in LayerNames, name \notin Projections
        PROVE  Layer(name, "ACT", rows, ff, one, one) \in Layers(h, w, {0})
    <3>1. PICK type \in LayerTypes : type = "ACT"
      BY DEF LayerTypes
    <3>2. type # "FC" /\ type \notin {"MATMUL", "SOFTMAX"}
      BY <3>1
    <3> QED BY <2>1, <2>3, <3>1, <3>2, LayerType
  <2>4. /\ {"ff1", "ff2", "ff3"} \subseteq LayerNames \cap Projections
        /\ {"glu", "relu", "gelu"} \subseteq LayerNames \ Projections
    BY DEF LayerNames, Projections
  <2> QED BY <1>1, <2>1, <2>2, <2>3, <2>4
<1> DEFINE S == Layers(h, w, {0})
           f1 == Layer("ff1", "FC", rows, ff, model.hdim, 1)
           f2 == Layer("ff2", "FC", rows, ff, model.hdim, 1)
           f3 == Layer("ff3", "FC", rows, model.hdim, ff, 1)
           g2 == Layer("ff2", "FC", rows, model.hdim, ff, 1)
           Act(name) == Layer(name, "ACT", rows, ff, 1, 1)
<1>3. f1 \in S /\ f2 \in S /\ f3 \in S /\ g2 \in S /\ Act("glu") \in S /\ Act("relu") \in S /\ Act("gelu") \in S
  BY <1>2
<1>4. /\ model.name = "LLAMA" => feed_forward(model, rows, ff) = <<f1, f2, Act("glu"), f3>>
      /\ model.name = "OPT" => feed_forward(model, rows, ff) = <<f1, Act("relu"), g2>>
      /\ model.name \notin {"LLAMA", "OPT"} => feed_forward(model, rows, ff) = <<f1, Act("gelu"), g2>>
  BY DEF feed_forward
<1> HIDE DEF S, f1, f2, f3, g2, Act
<1>5. /\ <<f1, f2, Act("glu"), f3>> \in Seq(S) /\ <<f1, Act("relu"), g2>> \in Seq(S)
      /\ <<f1, Act("gelu"), g2>> \in Seq(S)
  BY <1>3
<1>6. feed_forward(model, rows, ff) \in Seq(S)
  BY <1>4, <1>5
<1> QED BY <1>6 DEF S

\* A decoder for any of the devices and any number of positions.
LEMMA DecoderType ==
  ASSUME NEW model \in Models, NEW devs \in Nat \ {0}, NEW batch \in Nat, NEW q \in Nat,
         NEW kv \in Nat, NEW gen \in BOOLEAN, NEW attn_on_hetero \in BOOLEAN
  PROVE  decoder(model, devs, batch, q, kv, gen, attn_on_hetero)
           \in Decoder(heads(model, devs, batch), model.hdim \div devs, {0})
<1> DEFINE part == model.hdim \div devs
           dhead == model.hdim \div model.num_heads
           nhead == heads(model, devs, batch)
           rows == batch * q
           S == Layers(nhead, part, {0})
           Reduce(norm) == <<Layer("comm_g2g", "G2G", rows, model.hdim, 1, 1),
                             Layer(norm, "NORM", rows, model.hdim, 1, 1)>>
           first == <<Layer("qkv", "FC", rows, 3 * part, model.hdim, 1)>>
           to == IF attn_on_hetero
                 THEN <<Layer("comm_x2g", "X2G", rows, (IF gen THEN 3 ELSE 2) * part, 1, 1)>> ELSE <<>>
           attn == <<Layer("score", "MATMUL", q, kv, dhead, nhead), Layer("softmax", "SOFTMAX", q, kv, 1, nhead),
                     Layer("context", "MATMUL", q, dhead, kv, nhead)>>
           from == IF attn_on_hetero /\ gen THEN <<Layer("comm_x2g", "X2G", 1, dhead, 1, nhead)>> ELSE <<>>
           proj == <<Layer("proj", "FC", rows, model.hdim, part, 1)>>
           ff == feed_forward(model, rows, model.ff_scale * part)
<1>1. /\ model.hdim \in Nat \ {0} /\ model.num_heads \in Nat \ {0} /\ model.ff_scale \in Nat \ {0}
  BY DEF Models
<1>2. /\ part \in Nat /\ dhead \in Nat /\ rows \in Nat /\ 3 * part \in Nat /\ 2 * part \in Nat
      /\ part <= model.hdim
  BY <1>1
<1>3. nhead \in Nat
  <2>1. model.num_heads \div devs \in Nat
    BY <1>1
  <2> QED BY <2>1, Products2 DEF heads
<1>4. model.ff_scale * part \in Nat /\ model.ff_scale * part >= part
  BY <1>1, <1>2
<1> HIDE DEF part, dhead, nhead, rows
<1>5. /\ Layer("qkv", "FC", rows, 3 * part, model.hdim, 1) \in S
      /\ Layer("proj", "FC", rows, model.hdim, part, 1) \in S
  <2>1. {"qkv", "proj"} \subseteq LayerNames \cap Projections /\ "FC" \in LayerTypes
    BY DEF LayerNames, LayerTypes, Projections
  <2>2. model.hdim >= part /\ model.hdim \in Nat /\ 1 \in Nat /\ 3 * part \in Nat
    BY <1>1, <1>2
  <2> DEFINE wide == 3 * part
             hdim == model.hdim
  <2>3. ASSUME NEW name \in LayerNames \cap Projections, NEW n \in Nat, NEW k \in Nat, k >= part
        PROVE  Layer(name, "FC", rows, n, k, 1) \in S
    BY <1>2, <2>1, <2>2, <2>3, LayerType
  <2> HIDE DEF wide, hdim, S
  <2>4. Layer("qkv", "FC", rows, wide, hdim, 1) \in S
    BY <2>1, <2>2, <2>3 DEF wide, hdim
  <2>5. Layer("proj", "FC", rows, hdim, part, 1) \in S
    BY <1>2, <2>1, <2>2, <2>3 DEF hdim
  <2> QED BY <2>4, <2>5 DEF wide, hdim
<1>5a. /\ Layer("comm_x2g", "X2G", rows, 3 * part, 1, 1) \in S
       /\ Layer("comm_x2g", "X2G", rows, 2 * part, 1, 1) \in S
       /\ Layer("comm_x2g", "X2G", 1, dhead, 1, nhead) \in S
       /\ Layer("comm_g2g", "G2G", rows, model.hdim, 1, 1) \in S
  <2>1. {"comm_x2g", "comm_g2g"} \subseteq LayerNames \ Projections /\ {"X2G", "G2G"} \subseteq LayerTypes
    BY DEF LayerNames, LayerTypes, Projections
  <2>2. model.hdim \in Nat /\ 1 \in Nat
    BY <1>1
  <2> QED BY <1>1, <1>2, <1>3, <2>1, <2>2, LayerType
<1>5b. /\ Layer("score", "MATMUL", q, kv, dhead, nhead) \in S
       /\ Layer("softmax", "SOFTMAX", q, kv, 1, nhead) \in S
       /\ Layer("context", "MATMUL", q, dhead, kv, nhead) \in S
  <2>1. /\ {"score", "softmax", "context"} \subseteq LayerNames \ Projections
        /\ {"MATMUL", "SOFTMAX"} \subseteq LayerTypes
    BY DEF LayerNames, LayerTypes, Projections
  <2>2. ASSUME NEW name \in LayerNames \ Projections, NEW type \in {"MATMUL", "SOFTMAX"},
               NEW n \in Nat, NEW k \in Nat
        PROVE  Layer(name, type, q, n, k, nhead) \in S
    <3>1. type \in LayerTypes /\ type # "FC" /\ type \notin {"ACT", "NORM"}
      BY <2>1
    <3> QED BY <1>2, <1>3, <2>2, <3>1, LayerType
  <2>3. PICK one \in Nat : one = 1
    OBVIOUS
  <2> HIDE DEF S
  <2> QED BY <1>2, <2>1, <2>2, <2>3
<1>5c. /\ Layer("norm1", "NORM", rows, model.hdim, 1, 1) \in S
       /\ Layer("norm2", "NORM", rows, model.hdim, 1, 1) \in S
  <2>1. {"norm1", "norm2"} \subseteq LayerNames \ Projections /\ "NORM" \in LayerTypes
    BY DEF LayerNames, LayerTypes, Projections
  <2> QED BY <1>1, <1>2, <1>3, <2>1, LayerType
<1>6. ff \in Seq(S)
  BY <1>1, <1>2, <1>4, FeedForwardType
<1> HIDE DEF S, ff
<1>7. /\ first \in Seq(S) /\ first # <<>> /\ to \in Seq(S) /\ attn \in Seq(S) /\ from \in Seq(S)
      /\ proj \in Seq(S) /\ Reduce("norm1") \in Seq(S) /\ Reduce("norm2") \in Seq(S)
  BY <1>5, <1>5a, <1>5b, <1>5c
<1>8. decoder(model, devs, batch, q, kv, gen, attn_on_hetero)
        = first \o to \o attn \o from \o proj \o Reduce("norm1") \o ff \o Reduce("norm2")
  BY DEF decoder, part, dhead, nhead, rows, ff
<1> HIDE DEF first, to, attn, from, proj, Reduce
<1> DEFINE s2 == first \o to
           s3 == s2 \o attn
           s4 == s3 \o from
           s5 == s4 \o proj
           s6 == s5 \o Reduce("norm1")
           s7 == s6 \o ff
           s8 == s7 \o Reduce("norm2")
<1>9. s2 \in Seq(S) /\ s2 # <<>>
  BY <1>7, JoinedLayers
<1> HIDE DEF s2
<1>10. s3 \in Seq(S) /\ s3 # <<>>
  BY <1>7, <1>9, JoinedLayers
<1> HIDE DEF s3
<1>11. s4 \in Seq(S) /\ s4 # <<>>
  BY <1>7, <1>10, JoinedLayers
<1> HIDE DEF s4
<1>12. s5 \in Seq(S) /\ s5 # <<>>
  BY <1>7, <1>11, JoinedLayers
<1> HIDE DEF s5
<1>13. s6 \in Seq(S) /\ s6 # <<>>
  BY <1>7, <1>12, JoinedLayers
<1> HIDE DEF s6
<1>14. s7 \in Seq(S) /\ s7 # <<>>
  BY <1>6, <1>13, JoinedLayers
<1> HIDE DEF s7
<1>15. s8 \in Seq(S) /\ s8 # <<>>
  BY <1>7, <1>14, JoinedLayers
<1> QED BY <1>8, <1>15 DEF Decoder, S, nhead, part, s2, s3, s4, s5, s6, s7

-----------------------------------------------------------------------------
(* What a step does to the layers.                                         *)

LEMMA MoreKnown ==
  ASSUME NEW h, NEW w, NEW V, NEW W, V \subseteq W
  PROVE  Layers(h, w, V) \subseteq Layers(h, w, W)
BY DEF Layers

LEMMA MoreKnownDecoder ==
  ASSUME NEW h, NEW w, NEW V, NEW W, V \subseteq W
  PROVE  Decoder(h, w, V) \subseteq Decoder(h, w, W)
<1>1. Seq(Layers(h, w, V)) \subseteq Seq(Layers(h, w, W))
  <2> DEFINE S == Layers(h, w, V)
             T == Layers(h, w, W)
  <2>1. S \subseteq T
    BY MoreKnown
  <2> HIDE DEF S, T
  <2>2. Seq(S) \subseteq Seq(T)
    BY <2>1
  <2> QED BY <2>2 DEF S, T
<1> QED BY <1>1 DEF Decoder

\* A layer of which more is known is a layer as before.
LEMMA KnownLayer ==
  ASSUME NEW h, NEW w, NEW V, NEW x \in Layers(h, w, V), NEW t, NEW o, NEW b \in {"compute", "memory"}
  PROVE  [x EXCEPT !.exec_time = t, !.bound = b, !.off_traffic = o] \in Layers(h, w, V \cup {t, o})
BY DEF Layers

LEMMA TimedLayer ==
  ASSUME NEW h, NEW w, NEW V, NEW x \in Layers(h, w, V), NEW t
  PROVE  [x EXCEPT !.exec_time = t] \in Layers(h, w, V \cup {t})
BY DEF Layers

LEMMA ReplacedLayer ==
  ASSUME NEW S, NEW s \in Seq(S), NEW i \in DOMAIN s, NEW x \in S
  PROVE  /\ [s EXCEPT ![i] = x] \in Seq(S)
         /\ DOMAIN [s EXCEPT ![i] = x] = DOMAIN s /\ Len([s EXCEPT ![i] = x]) = Len(s)
OBVIOUS

LEMMA CostType ==
  ASSUME args \in Args, cost \in Costs[args.system]
  PROVE  cost \in [xPUs \cup {"PIM"} -> [LayerNames -> Cost]]
BY SimulationAssumption

LEMMA AnswerType ==
  ASSUME args \in Args, cost \in Costs[args.system], NEW d \in xPUs \cup {"PIM"},
         NEW x, x.name \in LayerNames
  PROVE  Answer(d, x).time \in Nat /\ Answer(d, x).energy \in Amounts
<1>1. cost[d][x.name] \in Cost
  BY CostType
<1>2. /\ cost[d][x.name].time \in Nat /\ cost[d][x.name].comm \in Nat
      /\ cost[d][x.name].mem \in Nat /\ cost[d][x.name].comp \in Nat
  BY <1>1 DEF Cost
<1> DEFINE c == cost[d][x.name]
           sent == [Zero EXCEPT !.comm = c.comm]
           used == [Zero EXCEPT !.mem = c.mem, !.comp = c.comp]
<1>3. sent \in Amounts /\ used \in Amounts /\ Zero \in Amounts
  BY <1>2 DEF Zero, Amounts
<1>4. \/ Answer(d, x) = [time |-> c.time, energy |-> sent]
      \/ Answer(d, x) = [time |-> c.time, energy |-> used]
      \/ Answer(d, x) = [time |-> 0, energy |-> Zero]
  <2> HIDE DEF sent, used
  <2>1. CASE d = "PIM"
    <3>1. Answer(d, x) = PimAnswer(x)
      BY <2>1 DEF Answer
    <3> QED BY <2>1, <3>1 DEF PimAnswer, sent, used
  <2>2. CASE d # "PIM"
    <3>1. Answer(d, x) = XpuAnswer(d, x)
      BY <2>2 DEF Answer
    <3> QED BY <2>2, <3>1 DEF XpuAnswer, sent, used
  <2> QED BY <2>1, <2>2
<1> HIDE DEF sent, used
<1> QED BY <1>2, <1>3, <1>4

LEMMA ComputedType ==
  ASSUME args \in Args, cost \in Costs[args.system], NEW d \in xPUs \cup {"PIM"},
         NEW h, NEW w, NEW V, NEW x \in Layers(h, w, V), NEW t
  PROVE  \E W : V \subseteq W /\ Computed(d, x, t) \in Layers(h, w, W)
<1> DEFINE b == IF Tiled(d, x) \/ x.type = "SOFTMAX" THEN cost[d][x.name].bound ELSE x.bound
           o == IF Tiled(d, x) THEN off_traffic(table_tiles'[d][TileKey(x)], x) ELSE x.off_traffic
<1>1. x.name \in LayerNames /\ x.bound \in {"compute", "memory"}
  BY DEF Layers
<1>2. cost[d][x.name].bound \in {"compute", "memory"}
  BY <1>1, CostType DEF Cost
<1>3. b \in {"compute", "memory"}
  BY <1>1, <1>2
<1>4. Computed(d, x, t) = [x EXCEPT !.exec_time = t, !.bound = b, !.off_traffic = o]
  BY DEF Computed
<1> HIDE DEF b, o
<1>5. [x EXCEPT !.exec_time = t, !.bound = b, !.off_traffic = o] \in Layers(h, w, V \cup {t, o})
  BY <1>3, KnownLayer
<1> QED BY <1>4, <1>5

LEMMA SizedFlops ==
  ASSUME NEW x, x.m \in Nat /\ x.n \in Nat /\ x.k \in Nat /\ x.numOp \in Nat
  PROVE  get_flops(x) \in Nat
<1>2. /\ 5 * x.m * x.n * x.numOp \in Nat /\ 2 * x.m * x.n * x.k * x.numOp \in Nat
      /\ 1 * x.m * x.n * x.numOp \in Nat /\ 9 * x.m * x.n * x.numOp \in Nat
      /\ 8 * x.m * x.n * x.numOp \in Nat
  BY Products5
<1>3. CASE x.type = "SOFTMAX"
  BY <1>2, <1>3 DEF get_flops
<1>4. CASE x.type = "ACT"
  BY <1>2, <1>4 DEF get_flops
<1>5. CASE x.type = "NORM"
  BY <1>2, <1>5 DEF get_flops
<1>6. CASE x.type \in {"FC", "MATMUL"}
  BY <1>2, <1>6 DEF get_flops
<1>7. CASE x.type \notin {"SOFTMAX", "ACT", "NORM", "FC", "MATMUL"}
  BY <1>7 DEF get_flops
<1> QED BY <1>3, <1>4, <1>5, <1>6, <1>7

LEMMA FlopsType ==
  ASSUME NEW h, NEW w, NEW V, NEW x \in Layers(h, w, V)
  PROVE  get_flops(x) \in Nat
BY SizedFlops DEF Layers

\* The layers of a decoder with other times.
Retimed(s, f) == [k \in DOMAIN s |-> [s[k] EXCEPT !.exec_time = f[k]]]

LEMMA RetimedType ==
  ASSUME NEW h, NEW w, NEW V, NEW s \in Decoder(h, w, V), NEW f
  PROVE  /\ \E W : V \subseteq W /\ Retimed(s, f) \in Decoder(h, w, W)
         /\ DOMAIN Retimed(s, f) = DOMAIN s /\ Len(Retimed(s, f)) = Len(s)
<1> DEFINE W == V \cup {f[k] : k \in DOMAIN s}
           r == Retimed(s, f)
           S == Layers(h, w, V)
           T == Layers(h, w, W)
<1>1. s \in Seq(S) /\ s # <<>>
  BY DEF Decoder
<1>2. \A k \in DOMAIN s : s[k] \in S
  BY <1>1
<1>3. \A k \in DOMAIN s : [s[k] EXCEPT !.exec_time = f[k]] \in T
  <2> TAKE k \in DOMAIN s
  <2>1. [s[k] EXCEPT !.exec_time = f[k]] \in Layers(h, w, V \cup {f[k]})
    BY <1>2, TimedLayer
  <2>2. V \cup {f[k]} \subseteq W
    OBVIOUS
  <2> QED BY <2>1, <2>2, MoreKnown
<1> HIDE DEF S, T
<1>4. DOMAIN s = 1 .. Len(s) /\ Len(s) \in Nat
  BY <1>1
<1>5. r = [k \in 1 .. Len(s) |-> [s[k] EXCEPT !.exec_time = f[k]]]
  BY <1>4 DEF Retimed
<1>6. r \in Seq(T)
  BY <1>3, <1>4, <1>5
<1>7. DOMAIN r = DOMAIN s /\ Len(r) = Len(s)
  BY <1>4, <1>5, <1>6
<1>8. r # <<>>
  BY <1>1, <1>4, <1>7
<1>9. r \in Decoder(h, w, W)
  BY <1>6, <1>8 DEF Decoder, T
<1> HIDE DEF W, r
<1>10. V \subseteq W
  BY DEF W
<1>11. r \in Decoder(h, w, W) /\ DOMAIN r = DOMAIN s /\ Len(r) = Len(s)
  BY <1>7, <1>9
<1> QED BY <1>10, <1>11 DEF r

\* The times in the pipeline, and those with the feed-forward layers shared.
PipelineTime(layers) ==
  LET o == Overlap(Parts(layers), args.pipeopt) IN
  [k \in DOMAIN layers |->
     CASE layers[k].name \in {"qkv", "proj"} -> o[layers[k].name]
       [] layers[k].name = "comm_x2g" -> o.x2g \div 2
       [] layers[k].name = "softmax" -> 0
       [] OTHER -> layers[k].exec_time]

SharedTime(layers) ==
  LET bs == IF itr = 0 THEN args.batch ELSE args.num_reqs % args.batch IN
  [k \in DOMAIN layers |->
     IF layers[k].name \in {"ff1", "ff2", "ff3"}
     THEN IF layers[k].bound = "compute" THEN (layers[k].exec_time * ff_compute[1]) \div ff_compute[2]
          ELSE (layers[k].exec_time * bs) \div (bs + bw_scale)
     ELSE layers[k].exec_time]

LEMMA PipelineRetimes ==
  ASSUME NEW s
  PROVE  pipeline(s) = Retimed(s, PipelineTime(s))
BY DEF pipeline, Retimed, PipelineTime

LEMMA ShareRetimes ==
  ASSUME NEW h, NEW w, NEW V, NEW s \in Decoder(h, w, V)
  PROVE  ff_parallel(s) = Retimed(s, SharedTime(s))
<1>1. \A k \in DOMAIN s : s[k] \in Layers(h, w, V)
  BY DEF Decoder
<1>2. \A k \in DOMAIN s : [s[k] EXCEPT !.exec_time = s[k].exec_time] = s[k]
  BY <1>1 DEF Layers
<1> QED BY <1>2 DEF ff_parallel, Retimed, SharedTime

\* What Pipeline makes of a stage.
Pipelined(s) == IF args.ffopt THEN ff_parallel(pipeline(s)) ELSE pipeline(s)

LEMMA PipelinedType ==
  ASSUME NEW h, NEW w, NEW V, NEW s \in Decoder(h, w, V)
  PROVE  /\ \E W : V \subseteq W /\ Pipelined(s) \in Decoder(h, w, W)
         /\ DOMAIN Pipelined(s) = DOMAIN s /\ Len(Pipelined(s)) = Len(s)
<1> DEFINE p == pipeline(s)
<1>1. /\ \E W : V \subseteq W /\ p \in Decoder(h, w, W)
      /\ DOMAIN p = DOMAIN s /\ Len(p) = Len(s)
  BY PipelineRetimes, RetimedType
<1>2. PICK W : V \subseteq W /\ p \in Decoder(h, w, W)
  BY <1>1
<1>3. /\ \E U : W \subseteq U /\ ff_parallel(p) \in Decoder(h, w, U)
      /\ DOMAIN ff_parallel(p) = DOMAIN p /\ Len(ff_parallel(p)) = Len(p)
  BY <1>2, ShareRetimes, RetimedType
<1> HIDE DEF p
<1> QED BY <1>1, <1>2, <1>3 DEF Pipelined, p

-----------------------------------------------------------------------------
(* Types.  While there are layers, every decoder has at least one, and its *)
(* layers are those of one of the tp devices.                              *)

Heads == heads(args.model, tp, args.batch)
Width == args.model.hdim \div tp

ArgsTyped == args \in Args /\ cost \in Costs[args.system]

DevicesTyped ==
  /\ pc \in {"main", "set_xpu", "set_accelerator", "build", "sum", "gen", "pipeline",
             "report", "write", "done", "failed"}
  /\ hetero_name \in {"NONE", "CPU", "PIM"}
  /\ num_xpu \in Nat /\ tp = num_xpu
  /\ pc # "main" => num_xpu \in 1 .. args.model.hdim
  /\ itr \in {0, 1}

\* The decoders, whose layers have times and traffic in V.
BuiltIn(V) == sum_decoder \in Decoder(Heads, Width, V) /\ gen_decoder \in Seq(Decoder(Heads, Width, V))

LayersTyped ==
  /\ pc \in {"sum", "gen", "pipeline", "report", "write", "done"} => \E V : BuiltIn(V)
  /\ pc \in {"main", "set_xpu", "set_accelerator", "build"} => stage = 0 /\ idx = 1
  /\ pc = "sum" => stage = 0 /\ idx \in DOMAIN sum_decoder
  /\ pc \in {"gen", "pipeline"} => stage \in DOMAIN gen_decoder /\ idx \in DOMAIN gen_decoder[stage]
  /\ pc = "report" => idx = 1

TimesTyped ==
  /\ time \in Nat /\ wrt_io_busy \in Nat /\ wrt_io_busy <= time
  /\ s_flops \in Nat /\ g_flops \in Nat

EnergiesTyped == gen_energies \in [LayerTypes -> Amounts] /\ unit_energy \in Amounts

TypeInv == ArgsTyped /\ DevicesTyped /\ LayersTyped /\ TimesTyped /\ EnergiesTyped

LEMMA InitTyped == Init => TypeInv
<1> SUFFICES ASSUME Init PROVE TypeInv
  OBVIOUS
<1>1. ArgsTyped /\ DevicesTyped
  BY DEF Init, ArgsTyped, DevicesTyped
<1>2. LayersTyped /\ TimesTyped
  BY DEF Init, LayersTyped, TimesTyped
<1>3. Zero \in Amounts
  BY DEF Zero, Amounts
<1>4. EnergiesTyped
  BY <1>3 DEF Init, EnergiesTyped
<1> QED BY <1>1, <1>2, <1>4 DEF TypeInv

LEMMA ArgumentTypes ==
  ASSUME args \in Args
  PROVE  /\ args.model \in Models /\ args.ngpu \in Nat \ {0} /\ args.batch \in Nat \ {0}
         /\ args.lin \in Nat \ {0} /\ args.lout \in Nat \ {0} /\ args.num_reqs \in Nat
         /\ args.model.hdim \in Nat \ {0} /\ args.model.num_heads \in Nat \ {0}
         /\ args.model.ndec \in Nat \ {0} /\ args.model.ff_scale \in Nat \ {0}
         /\ args.ngpu <= args.model.hdim /\ DefaultGpus <= args.model.hdim /\ DefaultGpus \in Nat \ {0}
<1>1. /\ args.model \in Models /\ args.ngpu \in Nat \ {0} /\ args.batch \in Nat \ {0}
      /\ args.lin \in Nat \ {0} /\ args.lout \in Nat \ {0} /\ args.num_reqs \in Nat
      /\ DefaultGpus \in Nat \ {0} /\ Max({args.ngpu, DefaultGpus}) <= args.model.hdim
  BY SimulationAssumption
<1>2. /\ args.model.hdim \in Nat \ {0} /\ args.model.num_heads \in Nat \ {0}
      /\ args.model.ndec \in Nat \ {0} /\ args.model.ff_scale \in Nat \ {0}
  BY <1>1 DEF Models
<1>3. /\ Max({args.ngpu, DefaultGpus}) \in {args.ngpu, DefaultGpus}
      /\ Max({args.ngpu, DefaultGpus}) >= args.ngpu /\ Max({args.ngpu, DefaultGpus}) >= DefaultGpus
  <2> DEFINE IsMax(m) == m \in {args.ngpu, DefaultGpus} /\ \A y \in {args.ngpu, DefaultGpus} : m >= y
  <2>1. \E m : IsMax(m)
    <3>1. CASE args.ngpu >= DefaultGpus
      BY <1>1, <3>1
    <3>2. CASE ~ args.ngpu >= DefaultGpus
      BY <1>1, <3>2
    <3> QED BY <3>1, <3>2
  <2>2. Max({args.ngpu, DefaultGpus})
          = CHOOSE m \in {args.ngpu, DefaultGpus} : \A y \in {args.ngpu, DefaultGpus} : m >= y
    BY DEF Max
  <2>3. IsMax(Max({args.ngpu, DefaultGpus}))
    BY <2>1, <2>2
  <2> QED BY <2>3
<1> QED BY <1>1, <1>2, <1>3

\* The steps before the layers are built.
LEMMA SetUpTyped == TypeInv /\ (NewSystem \/ set_xpu \/ set_accelerator) => TypeInv'
<1> SUFFICES ASSUME TypeInv, NewSystem \/ set_xpu \/ set_accelerator PROVE TypeInv'
  OBVIOUS
<1>1. /\ ArgsTyped' /\ EnergiesTyped' /\ TimesTyped'
  BY DEF NewSystem, set_xpu, set_accelerator, TypeInv, ArgsTyped, EnergiesTyped, TimesTyped, totals
<1>2. args' = args /\ stage = 0 /\ idx = 1 /\ stage' = stage /\ idx' = idx
  BY DEF NewSystem, set_xpu, set_accelerator, TypeInv, LayersTyped
<1>3. pc' \in {"set_xpu", "set_accelerator", "build"}
  BY DEF NewSystem, set_xpu, set_accelerator
<1>4. LayersTyped'
  BY <1>2, <1>3 DEF LayersTyped
<1>5. /\ num_xpu' \in 1 .. args.model.hdim /\ tp' = num_xpu'
      /\ hetero_name' \in {"NONE", "CPU", "PIM"} /\ itr' = itr
  <2>1. /\ args.ngpu \in 1 .. args.model.hdim /\ DefaultGpus \in 1 .. args.model.hdim
    BY ArgumentTypes DEF TypeInv, ArgsTyped
  <2> QED BY <2>1 DEF NewSystem, set_xpu, set_accelerator, TypeInv, DevicesTyped
<1>6. DevicesTyped'
  BY <1>2, <1>3, <1>5 DEF DevicesTyped, TypeInv
<1> QED BY <1>1, <1>4, <1>6 DEF TypeInv

\* Nothing is known of the layers yet.
LEMMA BuildLayers ==
  ASSUME TypeInv, Build
  PROVE  BuiltIn({0})'
<1>2. /\ pc = "build" /\ args' = args /\ tp' = tp /\ tp \in Nat \ {0}
  BY DEF Build, TypeInv, LayersTyped, DevicesTyped, devices
<1>3. /\ args.model \in Models /\ args.batch \in Nat /\ args.lin \in Nat /\ args.lout \in Nat
  BY ArgumentTypes DEF TypeInv, ArgsTyped
<1> DEFINE hetero == hetero_name \in {"CPU", "PIM"}
           D == Decoder(Heads, Width, {0})
<1>3a. hetero \in BOOLEAN /\ FALSE \in BOOLEAN /\ TRUE \in BOOLEAN
  OBVIOUS
<1>3b. /\ sum_decoder' = decoder(args.model, tp, args.batch, args.lin, args.lin, FALSE, hetero)
       /\ gen_decoder' = [s \in 1 .. args.lout - 1 |-> decoder(args.model, tp, args.batch, 1, args.lin + s, TRUE, hetero)]
  BY DEF Build, build_sum, build_gen
<1> HIDE DEF hetero
<1>4. sum_decoder' \in D
  BY <1>2, <1>3, <1>3a, <1>3b, DecoderType DEF Heads, Width
<1>5. gen_decoder' \in Seq(D)
  <2> DEFINE d(s) == decoder(args.model, tp, args.batch, 1, args.lin + s, TRUE, hetero)
  <2>1. \A s \in 1 .. args.lout - 1 : d(s) \in D
    <3> TAKE s \in 1 .. args.lout - 1
    <3>1. args.lin + s \in Nat /\ 1 \in Nat
      BY <1>3
    <3> QED BY <1>2, <1>3, <1>3a, <3>1, DecoderType DEF Heads, Width
  <2>2. gen_decoder' = [s \in 1 .. args.lout - 1 |-> d(s)]
    BY <1>3b
  <2>3. args.lout - 1 \in Nat
    BY ArgumentTypes DEF TypeInv, ArgsTyped
  <2> HIDE DEF D, d
  <2> QED BY <2>1, <2>2, <2>3
<1>6. (Heads = Heads') /\ (Width = Width')
  BY <1>2 DEF Heads, Width
<1> QED
  BY <1>4, <1>5, <1>6 DEF BuiltIn

LEMMA BuildTyped == TypeInv /\ Build => TypeInv'
<1> SUFFICES ASSUME TypeInv, Build PROVE TypeInv'
  OBVIOUS
<1>1. /\ ArgsTyped' /\ EnergiesTyped' /\ TimesTyped' /\ DevicesTyped'
  BY DEF Build, TypeInv, ArgsTyped, EnergiesTyped, TimesTyped, DevicesTyped, totals, devices
<1>2. stage' = 0 /\ idx' = 1 /\ pc' = "sum"
  BY DEF Build, TypeInv, LayersTyped
<1>3. BuiltIn({0})'
  BY BuildLayers
<1>4. 1 \in DOMAIN sum_decoder'
  BY <1>3 DEF BuiltIn, Decoder
<1>5. LayersTyped'
  BY <1>2, <1>3, <1>4 DEF LayersTyped
<1> QED BY <1>1, <1>5 DEF TypeInv

LEMMA MaxWithZero ==
  ASSUME NEW a \in Int
  PROVE  Max({a, 0}) = IF a > 0 THEN a ELSE 0
<1> DEFINE IsMax(m) == m \in {a, 0} /\ \A y \in {a, 0} : m >= y
           m0 == IF a > 0 THEN a ELSE 0
<1>1. IsMax(m0) /\ \A m : IsMax(m) => m = m0
  OBVIOUS
<1>2. Max({a, 0}) = CHOOSE m \in {a, 0} : \A y \in {a, 0} : m >= y
  BY DEF Max
<1> QED BY <1>1, <1>2

LEMMA SumLayerTyped == TypeInv /\ SumLayer => TypeInv'
<1> SUFFICES ASSUME TypeInv, SumLayer PROVE TypeInv'
  OBVIOUS
<1> DEFINE x == sum_decoder[idx]
           a == Answer("GPU", x)
           t == IF x.type = "X2G" THEN a.time + Max({wrt_io_busy - time, 0}) ELSE a.time
<1>1. /\ pc = "sum" /\ stage = 0 /\ idx \in DOMAIN sum_decoder
      /\ UNCHANGED <<args, cost, hetero_name, num_xpu, tp, gen_decoder, itr, gen_energies, unit_energy>>
      /\ g_flops' = g_flops
  BY DEF SumLayer, TypeInv, LayersTyped, devices
<1>2. PICK V : BuiltIn(V)
  BY <1>1 DEF TypeInv, LayersTyped
<1>3. /\ sum_decoder \in Seq(Layers(Heads, Width, V)) /\ sum_decoder # <<>>
      /\ gen_decoder \in Seq(Decoder(Heads, Width, V))
  BY <1>2 DEF BuiltIn, Decoder
<1>4. x \in Layers(Heads, Width, V)
  BY <1>1, <1>3
<1>5. a.time \in Nat /\ "GPU" \in xPUs \cup {"PIM"} /\ x.name \in LayerNames
  BY <1>4, AnswerType DEF TypeInv, ArgsTyped, xPUs, Layers
<1>6. t \in Nat
  <2>1. wrt_io_busy - time \in Int
    BY DEF TypeInv, TimesTyped
  <2> HIDE DEF a
  <2> QED BY <1>5, <2>1, MaxWithZero
<1> DEFINE y == Computed("GPU", x, t)
           new == [sum_decoder EXCEPT ![idx] = y]
<1>7. PICK W : V \subseteq W /\ y \in Layers(Heads, Width, W)
  BY <1>4, <1>5, ComputedType DEF TypeInv, ArgsTyped
<1>8. sum_decoder' = new
  BY DEF SumLayer
<1> HIDE DEF y
<1>9. /\ sum_decoder' \in Decoder(Heads, Width, W)
      /\ DOMAIN sum_decoder' = DOMAIN sum_decoder /\ Len(sum_decoder') = Len(sum_decoder)
  <2> DEFINE S == Layers(Heads, Width, W)
  <2>1. Layers(Heads, Width, V) \subseteq S
    BY <1>7, MoreKnown
  <2>2. y \in S
    BY <1>7
  <2> HIDE DEF S
  <2>3. sum_decoder \in Seq(S)
    BY <1>3, <2>1
  <2>4. /\ new \in Seq(S) /\ DOMAIN new = DOMAIN sum_decoder /\ Len(new) = Len(sum_decoder)
    BY <1>1, <2>2, <2>3, ReplacedLayer
  <2>5. new # <<>>
    BY <1>1, <2>4
  <2> HIDE DEF new
  <2> QED BY <1>8, <2>4, <2>5 DEF Decoder, S
<1>10. BuiltIn(W)'
  <2>1. gen_decoder' \in Seq(Decoder(Heads, Width, W))
    <3> DEFINE D == Decoder(Heads, Width, V)
               E == Decoder(Heads, Width, W)
    <3>1. D \subseteq E
      BY <1>7, MoreKnownDecoder
    <3> HIDE DEF D, E
    <3>2. Seq(D) \subseteq Seq(E)
      BY <3>1
    <3> QED BY <1>1, <1>3, <3>2 DEF D, E
  <2>2. Heads' = Heads /\ Width' = Width
    BY <1>1 DEF Heads, Width
  <2> QED BY <1>9, <2>1, <2>2 DEF BuiltIn
<1> HIDE DEF new, t, x, a
<1>11. /\ idx < Len(sum_decoder) => idx' = idx + 1 /\ pc' = pc /\ stage' = stage
       /\ ~ idx < Len(sum_decoder) =>
            idx' = 1 /\ stage' = 1 /\ pc' = IF gen_decoder = <<>> THEN "report" ELSE "gen"
  BY DEF SumLayer
<1>12. LayersTyped'
  <2>1. CASE idx < Len(sum_decoder)
    <3>1. idx' \in DOMAIN sum_decoder'
      BY <1>1, <1>3, <1>9, <1>11, <2>1
    <3> QED BY <1>1, <1>10, <1>11, <2>1, <3>1 DEF LayersTyped
  <2>2. CASE ~ idx < Len(sum_decoder) /\ gen_decoder = <<>>
    BY <1>1, <1>10, <1>11, <2>2 DEF LayersTyped
  <2>3. CASE ~ idx < Len(sum_decoder) /\ gen_decoder # <<>>
    <3>1. 1 \in DOMAIN gen_decoder
      BY <1>3, <2>3
    <3>2. gen_decoder[1] \in Decoder(Heads, Width, V)
      BY <1>3, <3>1
    <3>3. 1 \in DOMAIN gen_decoder[1]
      BY <3>2 DEF Decoder
    <3> QED BY <1>1, <1>10, <1>11, <2>3, <3>1, <3>3 DEF LayersTyped
  <2> QED BY <2>1, <2>2, <2>3
<1>13. TimesTyped'
  <2>1. /\ time' = time + t /\ wrt_io_busy' = (IF x.type = "X2G" THEN time + t ELSE wrt_io_busy)
        /\ s_flops' = s_flops + get_flops(x) * num_xpu
    BY DEF SumLayer, t, x, a
  <2>2. get_flops(x) * num_xpu \in Nat
    BY <1>4, FlopsType, Products2 DEF TypeInv, DevicesTyped
  <2> QED BY <1>1, <1>6, <2>1, <2>2 DEF TypeInv, TimesTyped
<1>14. DevicesTyped'
  BY <1>1, <1>11 DEF TypeInv, DevicesTyped
<1>15. ArgsTyped' /\ EnergiesTyped'
  BY <1>1 DEF TypeInv, ArgsTyped, EnergiesTyped
<1> QED BY <1>12, <1>13, <1>14, <1>15 DEF TypeInv

\* After a stage of the generation comes the next one, or the report.
LEMMA NextStageTyped ==
  ASSUME NEW h, NEW w, NEW V, gen_decoder \in Seq(Decoder(h, w, V)), stage \in DOMAIN gen_decoder,
         NextStage, DOMAIN gen_decoder' = DOMAIN gen_decoder,
         gen_decoder' \in Seq(Decoder(h, w, V))
  PROVE  /\ idx' = 1 /\ pc' \in {"gen", "report"}
         /\ pc' = "gen" => stage' \in DOMAIN gen_decoder' /\ 1 \in DOMAIN gen_decoder'[stage']
<1>1. /\ idx' = 1 /\ stage' = stage + 1
      /\ pc' = IF stage < Len(gen_decoder) THEN "gen" ELSE "report"
  BY DEF NextStage
<1> SUFFICES ASSUME stage < Len(gen_decoder)
             PROVE  stage' \in DOMAIN gen_decoder' /\ 1 \in DOMAIN gen_decoder'[stage']
  BY <1>1
<1>2. stage' \in DOMAIN gen_decoder'
  BY <1>1
<1>3. gen_decoder'[stage'] \in Decoder(h, w, V)
  BY <1>2
<1> QED BY <1>2, <1>3 DEF Decoder

LEMMA AccType == ASSUME TypeInv PROVE Acc \in xPUs \cup {"PIM"} /\ "GPU" \in xPUs \cup {"PIM"}
BY DEF Acc, TypeInv, DevicesTyped, xPUs

\* What a step with a layer of the generation does to the layers.
LEMMA GenLayers ==
  ASSUME TypeInv, GenLayer, NEW V, BuiltIn(V)
  PROVE  /\ gen_decoder[stage] \in Decoder(Heads, Width, V)
         /\ gen_decoder[stage][idx] \in Layers(Heads, Width, V)
         /\ \E W : V \subseteq W /\ gen_decoder' \in Seq(Decoder(Heads, Width, W))
         /\ DOMAIN gen_decoder' = DOMAIN gen_decoder
         /\ DOMAIN gen_decoder'[stage] = DOMAIN gen_decoder[stage]
<1> DEFINE s == gen_decoder[stage]
           x == s[idx]
           d == IF OnAcc(x) THEN Acc ELSE "GPU"
           y == Computed(d, x, Answer(d, x).time)
           new == [s EXCEPT ![idx] = y]
<1>1. /\ stage \in DOMAIN gen_decoder /\ idx \in DOMAIN s
      /\ gen_decoder \in Seq(Decoder(Heads, Width, V))
  BY DEF GenLayer, TypeInv, LayersTyped, BuiltIn
<1>2. s \in Decoder(Heads, Width, V) /\ s \in Seq(Layers(Heads, Width, V))
  BY <1>1 DEF Decoder
<1>3. x \in Layers(Heads, Width, V)
  BY <1>1, <1>2
<1>4. d \in xPUs \cup {"PIM"}
  BY AccType
<1>5. PICK W : V \subseteq W /\ y \in Layers(Heads, Width, W)
  BY <1>3, <1>4, ComputedType DEF TypeInv, ArgsTyped
<1>6. gen_decoder' = [gen_decoder EXCEPT ![stage] = new]
  BY DEF GenLayer
<1> HIDE DEF y
<1>7. new \in Decoder(Heads, Width, W) /\ DOMAIN new = DOMAIN s
  <2> DEFINE S == Layers(Heads, Width, W)
  <2>1. Layers(Heads, Width, V) \subseteq S
    BY <1>5, MoreKnown
  <2>2. y \in S
    BY <1>5
  <2> HIDE DEF S
  <2>3. s \in Seq(S)
    BY <1>2, <2>1
  <2>4. new \in Seq(S) /\ DOMAIN new = DOMAIN s
    <3> HIDE DEF s
    <3> QED BY <1>1, <2>2, <2>3, ReplacedLayer
  <2>5. new # <<>>
    BY <1>1, <2>4
  <2> HIDE DEF new, s
  <2> QED BY <2>4, <2>5 DEF Decoder, S
<1>8. gen_decoder' \in Seq(Decoder(Heads, Width, W)) /\ DOMAIN gen_decoder' = DOMAIN gen_decoder
  <2> DEFINE E == Decoder(Heads, Width, W)
  <2>1. Decoder(Heads, Width, V) \subseteq E
    BY <1>5, MoreKnownDecoder
  <2>2. new \in E
    BY <1>7
  <2> HIDE DEF E, new
  <2>3. gen_decoder \in Seq(E)
    BY <1>1, <2>1
  <2>4. [gen_decoder EXCEPT ![stage] = new] \in Seq(E)
    BY <1>1, <2>2, <2>3, ReplacedLayer
  <2> QED BY <1>1, <1>6, <2>4 DEF E
<1>9. gen_decoder'[stage] = new
  <2> HIDE DEF new
  <2> QED BY <1>1, <1>6
<1> HIDE DEF new, x, s
<1>10. DOMAIN gen_decoder'[stage] = DOMAIN s
  BY <1>7, <1>9
<1>11. \E U : V \subseteq U /\ gen_decoder' \in Seq(Decoder(Heads, Width, U))
  BY <1>5, <1>8
<1> QED BY <1>2, <1>3, <1>8, <1>10, <1>11 DEF s, x

LEMMA GenLayerTyped == TypeInv /\ GenLayer => TypeInv'
<1> SUFFICES ASSUME TypeInv, GenLayer PROVE TypeInv'
  OBVIOUS
<1> DEFINE s == gen_decoder[stage]
           x == s[idx]
           d == IF OnAcc(x) THEN Acc ELSE "GPU"
           a == Answer(d, x)
<1>1. /\ pc = "gen" /\ stage \in DOMAIN gen_decoder /\ idx \in DOMAIN s
      /\ UNCHANGED <<args, cost, hetero_name, num_xpu, tp, sum_decoder, itr, wrt_io_busy, s_flops>>
      /\ time' = time + a.time /\ g_flops' = g_flops + get_flops(x) * num_xpu
      /\ gen_energies' = acc_energy(x, a.energy) /\ unit_energy' = Plus(unit_energy, a.energy)
  BY DEF GenLayer, TypeInv, LayersTyped, devices
<1>2. PICK V : BuiltIn(V)
  BY <1>1 DEF TypeInv, LayersTyped
<1>3. /\ s \in Decoder(Heads, Width, V) /\ x \in Layers(Heads, Width, V)
      /\ \E W : V \subseteq W /\ gen_decoder' \in Seq(Decoder(Heads, Width, W))
      /\ DOMAIN gen_decoder' = DOMAIN gen_decoder
      /\ DOMAIN gen_decoder'[stage] = DOMAIN s
  BY <1>2, GenLayers
<1>4. PICK W : V \subseteq W /\ gen_decoder' \in Seq(Decoder(Heads, Width, W))
  BY <1>3
<1>5. a.time \in Nat /\ a.energy \in Amounts /\ x.type \in LayerTypes
  BY <1>3, AccType, AnswerType DEF TypeInv, ArgsTyped, Layers
<1>6. /\ sum_decoder \in Decoder(Heads, Width, W) /\ gen_decoder \in Seq(Decoder(Heads, Width, W))
  <2> DEFINE D == Decoder(Heads, Width, V)
             E == Decoder(Heads, Width, W)
  <2>1. sum_decoder \in D /\ gen_decoder \in Seq(D)
    BY <1>2 DEF BuiltIn
  <2>2. D \subseteq E
    BY <1>4, MoreKnownDecoder
  <2> HIDE DEF D, E
  <2>3. sum_decoder \in E /\ gen_decoder \in Seq(E)
    BY <2>1, <2>2
  <2> QED BY <2>3 DEF E
<1>7. Heads' = Heads /\ Width' = Width
  BY <1>1 DEF Heads, Width
<1>8. BuiltIn(W)'
  BY <1>1, <1>4, <1>6, <1>7 DEF BuiltIn
<1> HIDE DEF a, d, x
<1>9. \/ idx < Len(s) /\ idx' = idx + 1 /\ pc' = pc /\ stage' = stage
      \/ idx = Len(s) /\ pc' = "pipeline" /\ idx' = idx /\ stage' = stage
      \/ NextStage
  BY DEF GenLayer
<1>10. /\ pc' \in {"gen", "pipeline", "report"}
       /\ pc' \in {"gen", "pipeline"} => stage' \in DOMAIN gen_decoder' /\ idx' \in DOMAIN gen_decoder'[stage']
       /\ pc' = "report" => idx' = 1
  <2>1. CASE idx < Len(s) /\ idx' = idx + 1 /\ pc' = pc /\ stage' = stage
    <3>1. idx + 1 \in DOMAIN s
      BY <1>1, <1>3, <2>1 DEF Decoder
    <3> QED BY <1>1, <1>3, <2>1, <3>1
  <2>2. CASE idx = Len(s) /\ pc' = "pipeline" /\ idx' = idx /\ stage' = stage
    BY <1>1, <1>3, <2>2
  <2>3. CASE NextStage
    BY <1>1, <1>3, <1>4, <1>6, <2>3, NextStageTyped
  <2> QED BY <1>9, <2>1, <2>2, <2>3
<1>11. LayersTyped'
  BY <1>8, <1>10 DEF LayersTyped
<1>12. TimesTyped'
  <2>1. get_flops(x) * num_xpu \in Nat
    BY <1>3, FlopsType, Products2 DEF TypeInv, DevicesTyped
  <2> QED BY <1>1, <1>5, <2>1 DEF TypeInv, TimesTyped
<1>13. EnergiesTyped'
  <2>1. \A e \in Amounts, f \in Amounts : Plus(e, f) \in Amounts
    BY DEF Plus, Amounts
  <2>2. gen_energies' = [gen_energies EXCEPT ![x.type] = Plus(gen_energies[x.type], a.energy)]
    BY <1>1 DEF acc_energy
  <2>3. gen_energies \in [LayerTypes -> Amounts] /\ unit_energy \in Amounts
    BY DEF TypeInv, EnergiesTyped
  <2>4. Plus(gen_energies[x.type], a.energy) \in Amounts /\ Plus(unit_energy, a.energy) \in Amounts
    BY <1>5, <2>1, <2>3
  <2> HIDE DEF s
  <2> QED BY <1>1, <2>2, <2>3, <2>4 DEF EnergiesTyped
<1>14. DevicesTyped'
  BY <1>1, <1>10 DEF TypeInv, DevicesTyped
<1>15. ArgsTyped'
  BY <1>1 DEF TypeInv, ArgsTyped
<1> QED BY <1>11, <1>12, <1>13, <1>14, <1>15 DEF TypeInv

LEMMA PipelineTyped == TypeInv /\ Pipeline => TypeInv'
<1> SUFFICES ASSUME TypeInv, Pipeline PROVE TypeInv'
  OBVIOUS
<1> DEFINE s == gen_decoder[stage]
<1>1. /\ pc = "pipeline" /\ stage \in DOMAIN gen_decoder
      /\ UNCHANGED <<args, cost, hetero_name, num_xpu, tp, sum_decoder, itr>> /\ UNCHANGED totals
      /\ gen_decoder' = [gen_decoder EXCEPT ![stage] = Pipelined(s)] /\ NextStage
  BY DEF Pipeline, TypeInv, LayersTyped, devices, Pipelined
<1>2. PICK V : BuiltIn(V)
  BY <1>1 DEF TypeInv, LayersTyped
<1>3. s \in Decoder(Heads, Width, V)
  BY <1>1, <1>2 DEF BuiltIn
<1>4. PICK W : V \subseteq W /\ Pipelined(s) \in Decoder(Heads, Width, W)
  BY <1>3, PipelinedType
<1>5. /\ sum_decoder \in Decoder(Heads, Width, W) /\ gen_decoder \in Seq(Decoder(Heads, Width, W))
      /\ gen_decoder' \in Seq(Decoder(Heads, Width, W)) /\ DOMAIN gen_decoder' = DOMAIN gen_decoder
  <2> DEFINE D == Decoder(Heads, Width, V)
             E == Decoder(Heads, Width, W)
             p == Pipelined(s)
  <2>1. sum_decoder \in D /\ gen_decoder \in Seq(D) /\ p \in E
    BY <1>2, <1>4 DEF BuiltIn
  <2>2. D \subseteq E
    BY <1>4, MoreKnownDecoder
  <2>3. gen_decoder' = [gen_decoder EXCEPT ![stage] = p]
    BY <1>1
  <2> HIDE DEF D, E, p
  <2>4. sum_decoder \in E /\ gen_decoder \in Seq(E)
    BY <2>1, <2>2
  <2>5. gen_decoder' \in Seq(E) /\ DOMAIN gen_decoder' = DOMAIN gen_decoder
    BY <1>1, <2>1, <2>3, <2>4
  <2> QED BY <2>4, <2>5 DEF E
<1>6. Heads' = Heads /\ Width' = Width
  BY <1>1 DEF Heads, Width
<1>7. BuiltIn(W)'
  BY <1>1, <1>5, <1>6 DEF BuiltIn
<1>8. /\ idx' = 1 /\ pc' \in {"gen", "report"}
      /\ pc' = "gen" => stage' \in DOMAIN gen_decoder' /\ 1 \in DOMAIN gen_decoder'[stage']
  BY <1>1, <1>5, NextStageTyped
<1>9. LayersTyped'
  BY <1>7, <1>8 DEF LayersTyped
<1>10. DevicesTyped'
  BY <1>1, <1>8 DEF TypeInv, DevicesTyped
<1>11. ArgsTyped' /\ TimesTyped' /\ EnergiesTyped'
  BY <1>1 DEF TypeInv, ArgsTyped, TimesTyped, EnergiesTyped, totals
<1> QED BY <1>9, <1>10, <1>11 DEF TypeInv

\* The report, and the steps that end the program.
LEMMA RestTyped == TypeInv /\ (Report \/ ReportFails \/ LayerFails \/ write_csv) => TypeInv'
<1>1. ASSUME TypeInv, Report PROVE TypeInv'
  <2>1. /\ pc = "report" /\ idx = 1 /\ stage' = 0 /\ itr' = 1 /\ pc' \in {"sum", "write"}
        /\ UNCHANGED <<args, cost, hetero_name, num_xpu, tp, sum_decoder, gen_decoder, idx, s_flops, g_flops>>
        /\ UNCHANGED <<gen_energies, unit_energy>>
        /\ \/ time' = 0 /\ wrt_io_busy' = 0
           \/ UNCHANGED <<time, wrt_io_busy>>
    BY <1>1 DEF Report, TypeInv, LayersTyped, devices, decoders
  <2>2. PICK V : BuiltIn(V)
    BY <1>1, <2>1 DEF TypeInv, LayersTyped
  <2>3. Heads' = Heads /\ Width' = Width
    BY <2>1 DEF Heads, Width
  <2>4. BuiltIn(V)'
    BY <2>1, <2>2, <2>3 DEF BuiltIn
  <2>5. 1 \in DOMAIN sum_decoder'
    BY <2>1, <2>2 DEF BuiltIn, Decoder
  <2>6. LayersTyped'
    BY <2>1, <2>4, <2>5 DEF LayersTyped
  <2>7. DevicesTyped'
    BY <1>1, <2>1 DEF TypeInv, DevicesTyped
  <2>8. ArgsTyped' /\ TimesTyped' /\ EnergiesTyped'
    BY <1>1, <2>1 DEF TypeInv, ArgsTyped, TimesTyped, EnergiesTyped
  <2> QED BY <2>6, <2>7, <2>8 DEF TypeInv
<1>2. ASSUME TypeInv, ReportFails \/ LayerFails \/ write_csv PROVE TypeInv'
  <2>1. /\ pc # "main" /\ pc' \in {"failed", "done"} /\ (pc' = "done" => pc = "write")
        /\ UNCHANGED <<args, cost, hetero_name, num_xpu, tp, itr, sum_decoder, gen_decoder>>
        /\ UNCHANGED totals
    BY <1>2 DEF ReportFails, LayerFails, Fail, write_csv, devices, decoders
  <2>2. LayersTyped'
    <3>1. Heads' = Heads /\ Width' = Width
      BY <2>1 DEF Heads, Width
    <3> QED BY <1>2, <2>1, <3>1 DEF TypeInv, LayersTyped, BuiltIn
  <2>3. DevicesTyped'
    BY <1>2, <2>1 DEF TypeInv, DevicesTyped
  <2>4. ArgsTyped' /\ TimesTyped' /\ EnergiesTyped'
    BY <1>2, <2>1 DEF TypeInv, ArgsTyped, TimesTyped, EnergiesTyped, totals
  <2> QED BY <2>2, <2>3, <2>4 DEF TypeInv
<1> QED BY <1>1, <1>2

LEMMA NextTyped == TypeInv /\ [Next]_vars => TypeInv'
<1>1. TypeInv /\ UNCHANGED vars => TypeInv'
  <2> SUFFICES ASSUME TypeInv, UNCHANGED vars PROVE TypeInv'
    OBVIOUS
  <2>1. /\ UNCHANGED <<args, cost, pc, hetero_name, num_xpu, tp, sum_decoder, gen_decoder, itr, stage, idx>>
        /\ UNCHANGED totals
    BY DEF vars, devices, decoders
  <2>2. Heads' = Heads /\ Width' = Width
    BY <2>1 DEF Heads, Width
  <2>3. LayersTyped'
    BY <2>1, <2>2 DEF TypeInv, LayersTyped, BuiltIn
  <2>4. ArgsTyped' /\ DevicesTyped' /\ TimesTyped' /\ EnergiesTyped'
    BY <2>1 DEF TypeInv, ArgsTyped, DevicesTyped, TimesTyped, EnergiesTyped, totals
  <2> QED BY <2>3, <2>4 DEF TypeInv
<1> QED BY <1>1, SetUpTyped, BuildTyped, SumLayerTyped, GenLayerTyped, PipelineTyped, RestTyped DEF Next

LEMMA Typed == Spec => []TypeInv
<1> QED BY InitTyped, NextTyped, PTL DEF Spec

\* A layer, and of the generation a stage, comes next as long as the
\* simulation is among the layers; times, work and energies are never less
\* than nothing, and a transfer that is waited for ends at the latest now.
THEOREM SimulationTyped == Spec => []TypeOK
<1>1. TypeInv => TypeOK
  BY DEF TypeInv, TypeOK, ArgsTyped, DevicesTyped, LayersTyped, TimesTyped, EnergiesTyped
<1> QED BY <1>1, Typed, PTL

-----------------------------------------------------------------------------
(* Energies.                                                               *)

OverTypes(g, f) ==
  g["FC"][f] + g["MATMUL"][f] + g["ACT"][f] + g["SOFTMAX"][f] + g["NORM"][f] + g["G2G"][f] + g["X2G"][f]

\* Adding an amount to one type adds it to the sum over the types.
LEMMA OneTypeMore ==
  ASSUME NEW g \in [LayerTypes -> Amounts], NEW t \in LayerTypes, NEW e \in Amounts,
         NEW f \in {"mem", "comp", "comm"},
         NEW g2, g2 = [g EXCEPT ![t] = Plus(g[t], e)]
  PROVE  OverTypes(g2, f) = OverTypes(g, f) + e[f]
<1>1. g2[t] = Plus(g[t], e) /\ \A u \in LayerTypes : u # t => g2[u] = g[u]
  OBVIOUS
<1>2. \A u \in LayerTypes : g[u][f] \in Nat
  BY DEF Amounts
<1>3. e[f] \in Nat /\ Plus(g[t], e)[f] = g[t][f] + e[f]
  BY DEF Plus, Amounts
<1>4. g2[t][f] = g[t][f] + e[f] /\ \A u \in LayerTypes : u # t => g2[u][f] = g[u][f]
  BY <1>1, <1>3
<1>5. LayerTypes = {"FC", "MATMUL", "ACT", "SOFTMAX", "NORM", "G2G", "X2G"}
  BY DEF LayerTypes
<1> DEFINE a(u) == g[u][f]
           b(u) == g2[u][f]
<1>6. /\ \A u \in LayerTypes : a(u) \in Nat
      /\ b(t) = a(t) + e[f] /\ \A u \in LayerTypes : u # t => b(u) = a(u)
  BY <1>2, <1>4
<1> HIDE DEF a, b
<1>7. b("FC") + b("MATMUL") + b("ACT") + b("SOFTMAX") + b("NORM") + b("G2G") + b("X2G")
        = a("FC") + a("MATMUL") + a("ACT") + a("SOFTMAX") + a("NORM") + a("G2G") + a("X2G") + e[f]
  BY <1>3, <1>5, <1>6
<1> QED BY <1>7 DEF a, b, OverTypes

LEMMA EnergiesInductive ==
  /\ Init => EnergiesAddUp
  /\ TypeInv /\ EnergiesAddUp /\ [Next]_vars => EnergiesAddUp'
<1>1. Init => EnergiesAddUp
  BY DEF Init, EnergiesAddUp, OfAllTypes, Zero, LayerTypes
<1>2. ASSUME TypeInv, EnergiesAddUp, GenLayer PROVE EnergiesAddUp'
  <2> DEFINE x == gen_decoder[stage][idx]
             e == Answer(IF OnAcc(x) THEN Acc ELSE "GPU", x).energy
  <2>1. PICK V : BuiltIn(V)
    BY <1>2 DEF GenLayer, TypeInv, LayersTyped
  <2>2. x \in Layers(Heads, Width, V)
    BY <1>2, <2>1, GenLayers
  <2>3. e \in Amounts /\ x.type \in LayerTypes
    BY <1>2, <2>2, AccType, AnswerType DEF TypeInv, ArgsTyped, Layers
  <2>4. /\ gen_energies' = [gen_energies EXCEPT ![x.type] = Plus(gen_energies[x.type], e)]
        /\ unit_energy' = Plus(unit_energy, e)
    BY <1>2 DEF GenLayer, acc_energy
  <2>5. gen_energies \in [LayerTypes -> Amounts] /\ unit_energy \in Amounts
    BY <1>2 DEF TypeInv, EnergiesTyped
  <2> HIDE DEF x, e
  <2>6. \A f \in {"mem", "comp", "comm"} : OverTypes(gen_energies', f) = OverTypes(gen_energies, f) + e[f]
    <3> TAKE f \in {"mem", "comp", "comm"}
    <3> DEFINE g2 == gen_energies'
    <3>1. PICK t \in LayerTypes : t = x.type
      BY <2>3
    <3>2. g2 = [gen_energies EXCEPT ![t] = Plus(gen_energies[t], e)]
      BY <2>4, <3>1
    <3>3. gen_energies \in [LayerTypes -> Amounts] /\ e \in Amounts
      BY <2>3, <2>5
    <3> HIDE DEF g2
    <3>4. OverTypes(g2, f) = OverTypes(gen_energies, f) + e[f]
      BY <3>2, <3>3, OneTypeMore
    <3> QED BY <3>4 DEF g2
  <2>7. /\ unit_energy'.mem = unit_energy.mem + e.mem /\ unit_energy'.comp = unit_energy.comp + e.comp
        /\ unit_energy'.comm = unit_energy.comm + e.comm
    BY <2>4 DEF Plus
  <2>8. /\ unit_energy.mem = OverTypes(gen_energies, "mem")
        /\ unit_energy.comp = OverTypes(gen_energies, "comp")
        /\ unit_energy.comm = OverTypes(gen_energies, "comm")
    BY <1>2 DEF EnergiesAddUp, OfAllTypes, OverTypes
  <2>9. /\ unit_energy'.mem = OverTypes(gen_energies', "mem")
        /\ unit_energy'.comp = OverTypes(gen_energies', "comp")
        /\ unit_energy'.comm = OverTypes(gen_energies', "comm")
    BY <2>6, <2>7, <2>8
  <2> QED BY <2>9 DEF EnergiesAddUp, OfAllTypes, OverTypes
<1>3. ASSUME EnergiesAddUp, UNCHANGED <<gen_energies, unit_energy>> PROVE EnergiesAddUp'
  BY <1>3 DEF EnergiesAddUp, OfAllTypes
<1>4. ASSUME [Next]_vars PROVE GenLayer \/ UNCHANGED <<gen_energies, unit_energy>>
  BY <1>4 DEF Next, vars, NewSystem, set_xpu, set_accelerator, Build, SumLayer, LayerFails, Fail, Pipeline,
     Report, ReportFails, write_csv, totals
<1> QED BY <1>1, <1>2, <1>3, <1>4

\* The energy of a generation is the same added up layer by layer, and type by
\* type: the total of the table's rows and its columns agree.
THEOREM EnergyByType == Spec => []EnergiesAddUp
BY EnergiesInductive, Typed, PTL DEF Spec

-----------------------------------------------------------------------------
(* Tiles.  What the key of a table leaves out, the type, can be told from  *)
(* it: of the layers with one operation, those of depth 1 are no products. *)

OfKey(key) ==
  Layer("qkv", IF key[4] = 1 /\ key[3] > 1 THEN "FC" ELSE "MATMUL", key[1], key[2], key[3], key[4])

\* The best tiles depend on no more than the sizes, and on whether it is FC.
LEMMA TileOfSizes ==
  ASSUME NEW d, NEW x, NEW y, TileKey(x) = TileKey(y), x.type = "FC" <=> y.type = "FC"
  PROVE  optimal_tile(d, x) = optimal_tile(d, y)
<1>1. x.m = y.m /\ x.n = y.n /\ x.k = y.k /\ x.numOp = y.numOp
  BY DEF TileKey
<1>2. \A t : traffic_for_tile(t, x) = traffic_for_tile(t, y)
  BY <1>1 DEF traffic_for_tile
<1>3. \A t : num_threadblock(t, x) = num_threadblock(t, y)
  BY <1>1 DEF num_threadblock
<1>4. \A t : l1_cost(d, x, t) = l1_cost(d, y, t)
  <2> TAKE t
  <2>1. traffic_for_tile(t, x) = traffic_for_tile(t, y) /\ num_threadblock(t, x) = num_threadblock(t, y)
    BY <1>2, <1>3
  <2> QED BY <2>1 DEF l1_cost
<1>5. l1_tile(d, x) = l1_tile(d, y)
  BY ZenonT(40), <1>1, <1>4 DEF l1_tile
<1>6. \A l1, t : l2_fits(d, x, l1, t) = l2_fits(d, y, l1, t)
  BY <1>1 DEF l2_fits
<1>7. \A l1 : l2_tile(d, x, l1) = l2_tile(d, y, l1)
  BY <1>1, <1>2, <1>6 DEF l2_tile
<1> QED BY <1>5, <1>7 DEF optimal_tile

LEMMA TileOfKey ==
  ASSUME NEW d, NEW h \in Nat, NEW w \in Nat, NEW V, NEW x \in Layers(h, w, V),
         h > 1, w > 1, x.type \notin Transfers
  PROVE  optimal_tile(d, x) = optimal_tile(d, OfKey(TileKey(x)))
<1> DEFINE y == OfKey(TileKey(x))
<1>1. TileKey(y) = TileKey(x)
  BY DEF OfKey, TileKey, Layer
<1>2. y.type = IF x.numOp = 1 /\ x.k > 1 THEN "FC" ELSE "MATMUL"
  BY DEF OfKey, TileKey, Layer
<1>3. /\ x.type \in {"FC", "MATMUL", "ACT", "SOFTMAX", "NORM"} /\ x.k \in Nat
      /\ x.type = "FC" => x.numOp = 1 /\ x.k >= w
      /\ x.type \in {"MATMUL", "SOFTMAX"} => x.numOp = h
      /\ x.type \in {"ACT", "NORM"} => x.numOp = 1 /\ x.k = 1
  BY DEF Layers, LayerTypes, Transfers
<1>4. x.type = "FC" <=> y.type = "FC"
  <2> HIDE DEF y
  <2> QED BY <1>2, <1>3
<1> QED BY <1>1, <1>4, TileOfSizes

LEMMA HeadsType == ASSUME TypeInv, pc # "main" PROVE Heads \in Nat /\ Width \in Nat
<1>1. /\ tp \in Nat \ {0} /\ args.model.hdim \in Nat /\ args.model.num_heads \in Nat
      /\ args.batch \in Nat
  BY ArgumentTypes DEF TypeInv, ArgsTyped, DevicesTyped
<1>2. args.model.num_heads \div tp \in Nat /\ args.model.hdim \div tp \in Nat
  BY <1>1
<1> QED BY <1>1, <1>2, Products2 DEF Heads, heads, Width

LEMMA WidthBound ==
  ASSUME HeadsWide, ArgsTyped, DevicesTyped, pc # "main", Heads > 1
  PROVE  Heads \in Nat /\ Width \in Nat /\ Width > 1
<1>1. /\ tp \in Nat \ {0} /\ args.model.hdim \in Nat /\ args.model.num_heads \in Nat
      /\ args.batch \in Nat /\ args.model.hdim >= 2 * args.model.num_heads
  BY ArgumentTypes DEF HeadsWide, ArgsTyped, DevicesTyped
<1> DEFINE q == args.model.num_heads \div tp
<1>2. q \in Nat
  BY <1>1
<1>3. Heads = q * args.batch
  BY DEF Heads, heads
<1> HIDE DEF q
<1>4. Heads \in Nat /\ q # 0
  BY <1>1, <1>2, <1>3
<1>5. tp <= args.model.num_heads
  BY <1>1, <1>4 DEF q
<1>6. 2 * tp <= args.model.hdim
  BY <1>1, <1>5
<1>7. Width \in Nat /\ Width > 1
  BY <1>1, <1>6 DEF Width
<1> QED BY <1>4, <1>7

\* The tiles of a table are those of their keys.
OwnTiles(d, table) == \A key \in DOMAIN table : table[key] = optimal_tile(d, OfKey(key))

LEMMA RememberOwn ==
  ASSUME NEW d, NEW table, NEW h \in Nat, NEW w \in Nat, NEW V, NEW x \in Layers(h, w, V),
         h > 1, w > 1, x.type \notin Transfers, OwnTiles(d, table)
  PROVE  OwnTiles(d, Remember(table, d, x))
<1>1. optimal_tile(d, x) = optimal_tile(d, OfKey(TileKey(x)))
  BY TileOfKey
<1> DEFINE new == Remember(table, d, x)
<1>2. new = [key \in DOMAIN table \cup {TileKey(x)} |->
               IF key \in DOMAIN table THEN table[key] ELSE optimal_tile(d, x)]
  BY DEF Remember
<1> HIDE DEF new
<1>3. \A key \in DOMAIN new : new[key] = optimal_tile(d, OfKey(key))
  BY <1>1, <1>2 DEF OwnTiles
<1> QED BY <1>3 DEF OwnTiles, new

\* Whose layer comes next.
GenDevice(x) == IF OnAcc(x) THEN Acc ELSE "GPU"

\* The layer before the next one, which device d has computed, is in its table.
Asked(d, x) == Tiled(d, x) => TileKey(x) \in DOMAIN table_tiles[d]

TilesInv ==
  /\ table_tiles = [d \in xPUs |-> table_tiles[d]]
  /\ pc \in {"main", "set_xpu", "set_accelerator", "build"} => \A d \in xPUs : DOMAIN table_tiles[d] = {}
  /\ Heads > 1 => \A d \in xPUs : OwnTiles(d, table_tiles[d])
  /\ pc = "sum" /\ idx # 1 => Asked("GPU", sum_decoder[idx - 1])
  /\ pc = "gen" /\ idx # 1 => LET x == gen_decoder[stage][idx - 1] IN Asked(GenDevice(x), x)

\* What a device does to the tables when it is asked for x.
LEMMA TilesStep ==
  ASSUME NEW d, NEW h \in Nat, NEW w \in Nat, NEW V, NEW x \in Layers(h, w, V), h > 1 => w > 1,
         table_tiles = [e \in xPUs |-> table_tiles[e]],
         h > 1 => \A e \in xPUs : OwnTiles(e, table_tiles[e]),
         Tiles(d, x)
  PROVE  /\ table_tiles' = [e \in xPUs |-> table_tiles'[e]]
         /\ h > 1 => \A e \in xPUs : OwnTiles(e, table_tiles'[e])
         /\ Tiled(d, x) => TileKey(x) \in DOMAIN table_tiles'[d]
<1>1. CASE ~ Tiled(d, x)
  BY <1>1 DEF Tiles
<1>2. CASE Tiled(d, x)
  <2> DEFINE new == Remember(table_tiles[d], d, x)
  <2>1. table_tiles' = [table_tiles EXCEPT ![d] = new]
    BY <1>2 DEF Tiles
  <2>2. d \in xPUs /\ x.type \notin Transfers
    BY <1>2 DEF Tiled
  <2>3. h > 1 => OwnTiles(d, new)
    BY <2>2, RememberOwn
  <2>4. TileKey(x) \in DOMAIN new
    BY DEF Remember
  <2> HIDE DEF new
  <2>5. table_tiles'[d] = new /\ \A e \in xPUs : e # d => table_tiles'[e] = table_tiles[e]
    BY <2>1, <2>2
  <2>6. table_tiles' = [e \in xPUs |-> table_tiles'[e]]
    BY <2>1
  <2> QED BY <2>3, <2>4, <2>5, <2>6
<1> QED BY <1>1, <1>2

\* What a layer is, without what is found out about it.
Shape(x) == Layer(x.name, x.type, x.m, x.n, x.k, x.numOp)
Shapes(s) == [k \in DOMAIN s |-> Shape(s[k])]

LEMMA ComputedShape ==
  ASSUME NEW d, NEW h, NEW w, NEW V, NEW x \in Layers(h, w, V), NEW t
  PROVE  Shape(Computed(d, x, t)) = Shape(x)
<1> DEFINE b == IF Tiled(d, x) \/ x.type = "SOFTMAX" THEN cost[d][x.name].bound ELSE x.bound
           o == IF Tiled(d, x) THEN off_traffic(table_tiles'[d][TileKey(x)], x) ELSE x.off_traffic
           y == [x EXCEPT !.exec_time = t, !.bound = b, !.off_traffic = o]
<1>1. Computed(d, x, t) = y
  BY DEF Computed
<1> HIDE DEF b, o
<1>2. /\ y.m = x.m /\ y.n = x.n /\ y.k = x.k /\ y.numOp = x.numOp /\ y.type = x.type /\ y.name = x.name
  BY DEF Layers
<1> QED BY <1>1, <1>2 DEF Shape

\* The layer keeps its key and its type.
LEMMA ComputedKey ==
  ASSUME NEW d, NEW h, NEW w, NEW V, NEW x \in Layers(h, w, V), NEW t
  PROVE  /\ TileKey(Computed(d, x, t)) = TileKey(x) /\ Computed(d, x, t).type = x.type
         /\ Computed(d, x, t).name = x.name
<1> DEFINE y == Computed(d, x, t)
<1>1. Shape(y) = Shape(x)
  BY ComputedShape
<1> HIDE DEF y
<1>2. /\ y.m = x.m /\ y.n = x.n /\ y.k = x.k /\ y.numOp = x.numOp /\ y.type = x.type /\ y.name = x.name
  BY <1>1 DEF Shape, Layer
<1>3. TileKey(y) = TileKey(x) /\ y.type = x.type /\ y.name = x.name
  BY <1>2 DEF TileKey
<1> QED BY <1>3 DEF y

LEMMA InitTiles == Init => TilesInv
<1> SUFFICES ASSUME Init PROVE TilesInv
  OBVIOUS
<1>1. /\ table_tiles = [d \in xPUs |-> <<>>] /\ pc = "main"
  BY DEF Init
<1>2. \A d \in xPUs : DOMAIN table_tiles[d] = {}
  BY <1>1
<1> QED BY <1>1, <1>2 DEF TilesInv, OwnTiles

LEMMA SetUpTiles ==
  ASSUME TypeInv, TilesInv, NewSystem \/ set_xpu \/ set_accelerator \/ Build
  PROVE  TilesInv'
<1>1. /\ \A d \in xPUs : DOMAIN table_tiles[d] = {}
      /\ table_tiles = [d \in xPUs |-> table_tiles[d]]
  BY DEF TilesInv, NewSystem, set_xpu, set_accelerator, Build
<1>2. \/ table_tiles' = table_tiles
      \/ \E d \in xPUs : table_tiles' = [table_tiles EXCEPT ![d] = <<>>]
  BY DEF NewSystem, set_xpu, set_accelerator, Build, xPUs
<1>3. DOMAIN <<>> = {}
  OBVIOUS
<1>4. /\ \A d \in xPUs : DOMAIN table_tiles'[d] = {}
      /\ table_tiles' = [d \in xPUs |-> table_tiles'[d]]
  BY <1>1, <1>2, <1>3
<1>5. pc' \in {"set_xpu", "set_accelerator", "build", "sum"} /\ (pc' = "sum" => idx' = 1)
  BY DEF NewSystem, set_xpu, set_accelerator, Build, TypeInv, LayersTyped
<1> QED BY <1>4, <1>5 DEF TilesInv, OwnTiles

LEMMA SumLayerTiles ==
  ASSUME HeadsWide, TypeInv, TilesInv, SumLayer
  PROVE  TilesInv'
<1> DEFINE x == sum_decoder[idx]
           a == Answer("GPU", x)
           t == IF x.type = "X2G" THEN a.time + Max({wrt_io_busy - time, 0}) ELSE a.time
<1>1. /\ pc = "sum" /\ idx \in DOMAIN sum_decoder /\ Tiles("GPU", x)
      /\ sum_decoder' = [sum_decoder EXCEPT ![idx] = Computed("GPU", x, t)]
      /\ \/ idx' = idx + 1 /\ pc' = "sum"
         \/ idx' = 1 /\ pc' \in {"gen", "report"}
      /\ Heads' = Heads
  BY DEF SumLayer, TypeInv, LayersTyped, Heads, devices
<1>2. PICK V : BuiltIn(V)
  BY <1>1 DEF TypeInv, LayersTyped
<1>3. x \in Layers(Heads, Width, V) /\ idx \in Nat
  BY <1>1, <1>2 DEF BuiltIn, Decoder
<1>4. Heads > 1 => Heads \in Nat /\ Width \in Nat /\ Width > 1
  BY <1>1, WidthBound DEF TypeInv
<1>5. Heads \in Nat /\ Width \in Nat
  BY <1>1, HeadsType
<1> HIDE DEF x, a, t
<1>6. /\ table_tiles' = [e \in xPUs |-> table_tiles'[e]]
      /\ Heads > 1 => \A e \in xPUs : OwnTiles(e, table_tiles'[e])
      /\ Tiled("GPU", x) => TileKey(x) \in DOMAIN table_tiles'["GPU"]
  BY <1>1, <1>3, <1>4, <1>5, TilesStep DEF TilesInv
<1>7. pc' = "sum" /\ idx' # 1 => Asked("GPU", sum_decoder[idx - 1])'
  <2> SUFFICES ASSUME pc' = "sum", idx' # 1 PROVE Asked("GPU", sum_decoder[idx - 1])'
    OBVIOUS
  <2> DEFINE y == Computed("GPU", x, t)
  <2>1. idx' - 1 = idx
    BY <1>1, <1>3
  <2>2. TileKey(y) = TileKey(x) /\ y.type = x.type
    BY <1>3, ComputedKey
  <2> HIDE DEF y
  <2>3. sum_decoder'[idx] = y
    BY <1>1 DEF y
  <2>4. Tiled("GPU", y) => TileKey(y) \in DOMAIN table_tiles'["GPU"]
    BY <1>6, <2>2 DEF Tiled
  <2> QED BY <2>1, <2>3, <2>4 DEF Asked
<1> QED BY <1>1, <1>6, <1>7 DEF TilesInv

LEMMA GenLayerTiles ==
  ASSUME HeadsWide, TypeInv, TilesInv, GenLayer
  PROVE  TilesInv'
<1> DEFINE s == gen_decoder[stage]
           x == s[idx]
           d == GenDevice(x)
           t == Answer(d, x).time
           y == Computed(d, x, t)
<1>1. /\ pc = "gen" /\ stage \in DOMAIN gen_decoder /\ idx \in DOMAIN s /\ Tiles(d, x)
      /\ gen_decoder' = [gen_decoder EXCEPT ![stage] = [s EXCEPT ![idx] = y]]
      /\ \/ idx' = idx + 1 /\ pc' = "gen" /\ stage' = stage
         \/ pc' = "pipeline"
         \/ idx' = 1 /\ pc' \in {"gen", "report"}
      /\ Heads' = Heads /\ hetero_name' = hetero_name
  BY DEF GenLayer, TypeInv, LayersTyped, Heads, devices, NextStage, GenDevice
<1>2. PICK V : BuiltIn(V)
  BY <1>1 DEF TypeInv, LayersTyped
<1>3. x \in Layers(Heads, Width, V) /\ s \in Decoder(Heads, Width, V)
  BY <1>2, GenLayers
<1>4. Heads > 1 => Heads \in Nat /\ Width \in Nat /\ Width > 1
  BY <1>1, WidthBound DEF TypeInv
<1>5. Heads \in Nat /\ Width \in Nat /\ idx \in Nat
  BY <1>1, <1>3, HeadsType DEF Decoder
<1>6. TileKey(y) = TileKey(x) /\ y.type = x.type
  BY <1>3, ComputedKey
<1> HIDE DEF y, x, s, t, d
<1>7. /\ table_tiles' = [e \in xPUs |-> table_tiles'[e]]
      /\ Heads > 1 => \A e \in xPUs : OwnTiles(e, table_tiles'[e])
      /\ Tiled(d, x) => TileKey(x) \in DOMAIN table_tiles'[d]
  BY <1>1, <1>3, <1>4, <1>5, TilesStep DEF TilesInv
<1>8. pc' = "gen" /\ idx' # 1 => (LET z == gen_decoder[stage][idx - 1] IN Asked(GenDevice(z), z))'
  <2> SUFFICES ASSUME pc' = "gen", idx' # 1
               PROVE  (LET z == gen_decoder[stage][idx - 1] IN Asked(GenDevice(z), z))'
    OBVIOUS
  <2>1. idx' - 1 = idx /\ stage' = stage
    BY <1>1, <1>5
  <2>2. gen_decoder'[stage][idx] = y
    BY <1>1 DEF s
  <2>3. Tiled(d, y) => TileKey(y) \in DOMAIN table_tiles'[d]
    BY <1>6, <1>7 DEF Tiled
  <2> DEFINE u == gen_decoder[stage][idx - 1]
  <2>4. u' = y
    BY <2>1, <2>2
  <2>5. Acc' = Acc
    BY <1>1 DEF Acc
  <2>6. GenDevice(u)' = d
    BY <1>6, <2>4, <2>5 DEF GenDevice, OnAcc, d
  <2>7. Asked(GenDevice(u), u)' = (Tiled(d, y) => TileKey(y) \in DOMAIN table_tiles'[d])
    BY <2>4, <2>6 DEF Asked, Tiled, TileKey
  <2> QED BY <2>3, <2>7
<1> QED BY <1>1, <1>7, <1>8 DEF TilesInv

LEMMA RestTiles ==
  ASSUME TypeInv, TilesInv, Pipeline \/ Report \/ ReportFails \/ LayerFails \/ write_csv \/ UNCHANGED vars
  PROVE  TilesInv'
<1>1. UNCHANGED <<args, num_xpu, tp, table_tiles, hetero_name>>
  BY DEF Pipeline, Report, ReportFails, LayerFails, Fail, write_csv, vars, devices
<1>2. \/ pc' \in {"gen", "report", "sum", "write", "failed", "done"} /\ (pc' \in {"gen", "sum"} => idx' = 1)
      \/ UNCHANGED <<pc, stage, idx, sum_decoder, gen_decoder>>
  BY DEF Pipeline, NextStage, Report, ReportFails, LayerFails, Fail, write_csv, vars, devices, decoders,
     TypeInv, LayersTyped
<1>3. Heads' = Heads
  BY <1>1 DEF Heads
<1>4. CASE pc' \in {"gen", "report", "sum", "write", "failed", "done"} /\ (pc' \in {"gen", "sum"} => idx' = 1)
  BY <1>1, <1>3, <1>4 DEF TilesInv
<1>5. CASE UNCHANGED <<pc, stage, idx, sum_decoder, gen_decoder>>
  BY <1>1, <1>3, <1>5 DEF TilesInv, Asked, GenDevice, OnAcc, Acc
<1> QED BY <1>2, <1>4, <1>5

\* A layer is computed with its own best tiles on every path, for all models
\* whose heads have more than one column: the type, which is missing from the
\* key of the remembered tiles, never makes a difference.
THEOREM TilesAreOwn == ASSUME HeadsWide PROVE Spec => []TilesOwn
<1>1. TypeInv /\ TilesInv /\ [Next]_vars => TilesInv'
  BY SetUpTiles, SumLayerTiles, GenLayerTiles, RestTiles DEF Next
<1>2. TypeInv /\ TilesInv => TilesOwn
  <2> SUFFICES ASSUME TypeInv, TilesInv, heads(args.model, tp, args.batch) > 1, NEW r \in LastAsked
               PROVE  table_tiles[r.d][TileKey(r.x)] = optimal_tile(r.d, r.x)
    BY DEF TilesOwn
  <2>1. /\ pc \in {"sum", "gen"} /\ idx # 1 /\ Tiled(r.d, r.x)
        /\ pc = "sum" => r.d = "GPU" /\ r.x = sum_decoder[idx - 1]
        /\ pc = "gen" => r.x = gen_decoder[stage][idx - 1] /\ r.d = GenDevice(r.x)
    BY DEF LastAsked, GenDevice
  <2>2. TileKey(r.x) \in DOMAIN table_tiles[r.d]
    BY <2>1 DEF TilesInv, Asked
  <2>3. r.d \in xPUs /\ r.x.type \notin Transfers
    BY <2>1 DEF Tiled
  <2>4. table_tiles[r.d][TileKey(r.x)] = optimal_tile(r.d, OfKey(TileKey(r.x)))
    BY <2>2, <2>3 DEF TilesInv, OwnTiles, Heads
  <2>5. PICK V : BuiltIn(V)
    BY <2>1 DEF TypeInv, LayersTyped
  <2>6. r.x \in Layers(Heads, Width, V)
    <3>1. CASE pc = "sum"
      <4>1. idx \in DOMAIN sum_decoder /\ sum_decoder \in Seq(Layers(Heads, Width, V))
        BY <2>5, <3>1 DEF TypeInv, LayersTyped, BuiltIn, Decoder
      <4>2. idx - 1 \in DOMAIN sum_decoder
        BY <2>1, <4>1
      <4> QED BY <2>1, <3>1, <4>1, <4>2
    <3>2. CASE pc = "gen"
      <4>1. /\ stage \in DOMAIN gen_decoder /\ idx \in DOMAIN gen_decoder[stage]
            /\ gen_decoder \in Seq(Decoder(Heads, Width, V))
        BY <2>5, <3>2 DEF TypeInv, LayersTyped, BuiltIn
      <4>2. gen_decoder[stage] \in Seq(Layers(Heads, Width, V))
        BY <4>1 DEF Decoder
      <4>3. idx - 1 \in DOMAIN gen_decoder[stage]
        BY <2>1, <4>1, <4>2
      <4> QED BY <2>1, <3>2, <4>2, <4>3
    <3> QED BY <2>1, <3>1, <3>2
  <2>7. Heads > 1 /\ Heads \in Nat /\ Width \in Nat /\ Width > 1
    BY <2>1, WidthBound DEF TypeInv, Heads
  <2> QED BY <2>3, <2>4, <2>6, <2>7, TileOfKey
<1> QED BY <1>1, <1>2, InitTiles, Typed, PTL DEF Spec

-----------------------------------------------------------------------------
(* Sums over the layers of a decoder.  F gives a layer its value.          *)

Values(S) == [S -> Int]
Valued(layers, F) == [k \in DOMAIN layers |-> F[layers[k]]]
OfLayers(types, layers, F) == Over(types, layers, Valued(layers, F))

LEMMA OneLayerMore ==
  ASSUME NEW S, NEW F \in Values(S), NEW types, NEW s \in Seq(S), NEW x \in S
  PROVE  /\ OfLayers(types, s, F) \in Int
         /\ OfLayers(types, s \o <<x>>, F) = OfLayers(types, s, F) + (IF x.type \in types THEN F[x] ELSE 0)
<1> DEFINE t == s \o <<x>>
           n == Len(s)
           D == {k \in DOMAIN s : s[k].type \in types}
           E == {k \in DOMAIN t : t[k].type \in types}
           f == Valued(s, F)
           g == Valued(t, F)
<1>1. /\ n \in Nat /\ DOMAIN s = 1 .. n /\ s \in [1 .. n -> S]
      /\ DOMAIN t = 1 .. n + 1 /\ (\A k \in 1 .. n : t[k] = s[k]) /\ t[n + 1] = x
  <2>1. <<x>> \in Seq(S) /\ Len(<<x>>) = 1 /\ <<x>>[1] = x
    OBVIOUS
  <2>2. t \in Seq(S) /\ Len(t) = n + 1 /\ n \in Nat
    BY <2>1, ConcatProperties, LenProperties
  <2>3. \A i \in 1 .. n + 1 : t[i] = IF i <= n THEN s[i] ELSE <<x>>[i - n]
    BY <2>1, ConcatProperties
  <2> QED BY <2>1, <2>2, <2>3, LenProperties
<1> HIDE DEF t, n
<1>2. /\ f = [k \in 1 .. n |-> F[s[k]]] /\ g = [k \in 1 .. n + 1 |-> F[t[k]]]
  BY <1>1 DEF Valued
<1>3. /\ \A k \in 1 .. n : f[k] \in Int /\ g[k] = f[k]
      /\ g[n + 1] = F[x] /\ F[x] \in Int
  <2>1. \A k \in 1 .. n : s[k] \in S
    BY <1>1
  <2> QED BY <1>1, <1>2, <2>1 DEF Values
<1> HIDE DEF f, g
<1>4. D \subseteq 1 .. n /\ IsFiniteSet(D)
  <2>1. D \subseteq 1 .. n /\ IsFiniteSet(1 .. n)
    BY <1>1, FS_Interval
  <2> QED BY <2>1, FS_Subset
<1>5. E = D \cup (IF x.type \in types THEN {n + 1} ELSE {})
  BY <1>1
<1>6. SumFunctionOnSet(f, D) \in Int /\ SumFunctionOnSet(g, D) = SumFunctionOnSet(f, D)
  <2>1. \A k \in D : f[k] \in Int /\ g[k] = f[k]
    BY <1>3, <1>4
  <2> HIDE DEF D
  <2>2. SumFunctionOnSet(f, D) \in Int
    BY <1>4, <2>1, SumElement
  <2>3. SumFunctionOnSet(g, D) = SumFunctionOnSet(f, D)
    BY <1>4, <2>1, SumSame
  <2> QED BY <2>2, <2>3
<1>7. SumFunctionOnSet(g, E) = SumFunctionOnSet(g, D) + (IF x.type \in types THEN F[x] ELSE 0)
  <2>1. CASE x.type \in types
    <3>1. /\ IsFiniteSet(E) /\ n + 1 \in E /\ E \ {n + 1} = D /\ \A k \in E : g[k] \in Int
      <4>1. E = D \cup {n + 1} /\ n + 1 \notin D
        BY <1>1, <1>4, <1>5, <2>1
      <4> HIDE DEF E, D
      <4>2. IsFiniteSet(D \cup {n + 1})
        BY <1>4, FS_AddElement
      <4> QED BY <1>3, <1>4, <4>1, <4>2
    <3> HIDE DEF E, D
    <3>2. SumFunctionOnSet(g, E) = g[n + 1] + SumFunctionOnSet(g, E \ {n + 1})
      BY <3>1, SumElement
    <3>3. SumFunctionOnSet(g, E) = g[n + 1] + SumFunctionOnSet(g, D)
      BY <3>1, <3>2
    <3> QED BY <1>3, <1>6, <2>1, <3>3
  <2>2. CASE x.type \notin types
    <3>1. E = D
      BY <1>5, <2>2
    <3> HIDE DEF E, D
    <3> QED BY <1>6, <2>2, <3>1
  <2> QED BY <2>1, <2>2
<1> QED BY <1>6, <1>7 DEF OfLayers, Over, D, E, f, g, t

LEMMA LayersJoined ==
  ASSUME NEW S, NEW F \in Values(S), NEW types, NEW s \in Seq(S), NEW t \in Seq(S)
  PROVE  OfLayers(types, s \o t, F) = OfLayers(types, s, F) + OfLayers(types, t, F)
<1> DEFINE sum(u) == OfLayers(types, u, F)
           T == {n \in Nat : \A u \in Seq(S) : Len(u) = n => sum(s \o u) = sum(s) + sum(u)}
<1>1. \A u \in Seq(S) : sum(u) \in Int
  <2> SUFFICES ASSUME NEW u \in Seq(S) PROVE sum(u) \in Int
    OBVIOUS
  <2>1. CASE u = <<>>
    <3>1. {k \in DOMAIN u : u[k].type \in types} = {}
      BY <2>1
    <3>2. sum(u) = SumFunctionOnSet(Valued(u, F), {})
      BY <3>1 DEF OfLayers, Over
    <3>3. sum(u) = 0
      BY <3>2, SumEmpty
    <3> QED BY <3>3
  <2>2. CASE u # <<>>
    <3>1. u[1] \in S
      BY <2>2
    <3> QED BY <3>1, OneLayerMore
  <2> QED BY <2>1, <2>2
<1>2. sum(<<>>) = 0
  <2>1. {k \in DOMAIN <<>> : <<>>[k].type \in types} = {}
    OBVIOUS
  <2> QED BY <2>1, SumEmpty DEF OfLayers, Over
<1>3. 0 \in T
  <2> SUFFICES ASSUME NEW u \in Seq(S), Len(u) = 0 PROVE sum(s \o u) = sum(s) + sum(u)
    OBVIOUS
  <2>1. u = <<>>
    BY EmptySeq
  <2>2. s \o u = s
    BY <2>1, ConcatEmptySeq
  <2> HIDE DEF sum
  <2> QED BY <1>1, <1>2, <2>1, <2>2
<1>4. ASSUME NEW n \in Nat, n \in T PROVE n + 1 \in T
  <2> SUFFICES ASSUME NEW u \in Seq(S), Len(u) = n + 1 PROVE sum(s \o u) = sum(s) + sum(u)
    OBVIOUS
  <2> DEFINE x == u[n + 1]
             v == SubSeq(u, 1, n)
  <2>1. x \in S
    BY ElementOfSeq
  <2>2. v \in Seq(S) /\ Len(v) = n
    <3>1. \A i \in 1 .. n : u[i] \in S
      BY ElementOfSeq
    <3> QED BY <3>1, SubSeqProperties
  <2>3. u = v \o <<x>>
    <3>1. SubSeq(u, 1, n + 1) = SubSeq(u, 1, (n + 1) - 1) \o <<u[n + 1]>>
      BY SubSeqRecursiveSecond
    <3>2. SubSeq(u, 1, n + 1) = u
      BY SubSeqFull
    <3>3. (n + 1) - 1 = n
      OBVIOUS
    <3> QED BY <3>1, <3>2, <3>3
  <2> HIDE DEF x, v
  <2>4. s \o u = (s \o v) \o <<x>>
    <3>1. <<x>> \in Seq(S)
      BY <2>1
    <3> QED BY <2>2, <2>3, <3>1, ConcatAssociative
  <2>5. sum(s \o v) = sum(s) + sum(v)
    BY <1>4, <2>2
  <2>6. s \o v \in Seq(S)
    BY <2>2, ConcatProperties
  <2> DEFINE d == IF x.type \in types THEN F[x] ELSE 0
             w == s \o v
  <2>7. sum(w) = sum(s) + sum(v)
    BY <2>5
  <2>7a. w \in Seq(S)
    BY <2>6
  <2> HIDE DEF w
  <2>8. \A r \in Seq(S) : sum(r \o <<x>>) = sum(r) + d
    BY <2>1, OneLayerMore
  <2>10. d \in Int /\ sum(s) \in Int /\ sum(v) \in Int
    BY <1>1, <2>1, <2>2 DEF Values
  <2>11. sum(w \o <<x>>) = sum(w) + d /\ sum(v \o <<x>>) = sum(v) + d
    BY <2>2, <2>7a, <2>8
  <2> HIDE DEF sum, d
  <2>12. sum(w \o <<x>>) = sum(s) + sum(v \o <<x>>)
    BY <2>7, <2>10, <2>11
  <2> QED BY <2>3, <2>4, <2>12 DEF w
<1> HIDE DEF T
<1>5. Nat \subseteq T
  BY <1>3, <1>4, SetInduction
<1>6. Len(t) \in T
  BY <1>5, LenProperties
<1> QED BY <1>6 DEF T

LEMMA OneLayer ==
  ASSUME NEW S, NEW F \in Values(S), NEW types, NEW x \in S
  PROVE  OfLayers(types, <<x>>, F) = IF x.type \in types THEN F[x] ELSE 0
<1>1. <<>> \in Seq(S) /\ <<>> \o <<x>> = <<x>>
  OBVIOUS
<1> DEFINE e == <<>>
<1>2. OfLayers(types, e, F) = 0
  <2>1. {k \in DOMAIN <<>> : <<>>[k].type \in types} = {}
    OBVIOUS
  <2> QED BY <2>1, SumEmpty DEF OfLayers, Over
<1>2a. e \in Seq(S) /\ e \o <<x>> = <<x>>
  BY <1>1
<1> HIDE DEF e
<1>3. OfLayers(types, e \o <<x>>, F) = OfLayers(types, e, F) + (IF x.type \in types THEN F[x] ELSE 0)
  BY <1>2a, OneLayerMore
<1> DEFINE d == IF x.type \in types THEN F[x] ELSE 0
<1>4. d \in Int
  BY DEF Values
<1>5. OfLayers(types, e \o <<x>>, F) = OfLayers(types, e, F) + d
  BY <1>3
<1> HIDE DEF d
<1>6. OfLayers(types, e \o <<x>>, F) = d
  BY <1>2, <1>4, <1>5
<1>7. OfLayers(types, <<x>>, F) = d
  BY <1>2a, <1>6
<1> QED BY <1>7 DEF d

LEMMA LayersJoinedType ==
  ASSUME NEW S, NEW F \in Values(S), NEW types, NEW s \in Seq(S), NEW t \in Seq(S)
  PROVE  /\ s \o t \in Seq(S)
         /\ OfLayers(types, s \o t, F) = OfLayers(types, s, F) + OfLayers(types, t, F)
BY LayersJoined, ConcatProperties

\* The layers of a decoder before anything is known of them.
Built == [name : LayerNames, type : LayerTypes, m : Nat, n : Nat, k : Nat, numOp : Nat,
          bound : {"compute"}, exec_time : {0}, off_traffic : {0}]

LEMMA BuiltLayer ==
  ASSUME NEW name \in LayerNames, NEW type \in LayerTypes, NEW m \in Nat, NEW n \in Nat,
         NEW k \in Nat, NEW numOp \in Nat, NEW F \in Values(Built), NEW types,
         NEW x, x = Layer(name, type, m, n, k, numOp)
  PROVE  /\ x \in Built /\ x.type = type /\ F[x] \in Int /\ <<x>> \in Seq(Built)
         /\ OfLayers(types, <<x>>, F) = IF type \in types THEN F[x] ELSE 0
<1>1. x \in Built /\ x.type = type
  BY DEF Layer, Built
<1>2. F[x] \in Int /\ <<x>> \in Seq(Built)
  BY <1>1 DEF Values
<1>3. OfLayers(types, <<x>>, F) = IF x.type \in types THEN F[x] ELSE 0
  BY <1>1, OneLayer
<1> QED BY <1>1, <1>2, <1>3

Products == {"FC", "MATMUL"}

FeedForwardSum(model, rows, ff, F) ==
  F[Layer("ff1", "FC", rows, ff, model.hdim, 1)]
    + (IF model.name = "LLAMA"
       THEN F[Layer("ff2", "FC", rows, ff, model.hdim, 1)] + F[Layer("ff3", "FC", rows, model.hdim, ff, 1)]
       ELSE F[Layer("ff2", "FC", rows, model.hdim, ff, 1)])

LEMMA AddedLast ==
  ASSUME NEW S, NEW s \in Seq(S), NEW x \in S, NEW t \in Seq(S), Len(t) = Len(s) + 1,
         \A k \in 1 .. Len(s) : t[k] = s[k], t[Len(s) + 1] = x
  PROVE  s \o <<x>> = t
<1>1. <<x>> \in Seq(S) /\ Len(<<x>>) = 1 /\ <<x>>[1] = x
  OBVIOUS
<1>2. /\ s \o <<x>> \in Seq(S) /\ Len(s \o <<x>>) = Len(t) /\ Len(s) \in Nat
      /\ \A i \in 1 .. Len(t) : (s \o <<x>>)[i] = IF i <= Len(s) THEN s[i] ELSE <<x>>[i - Len(s)]
  BY <1>1, ConcatProperties, LenProperties
<1>3. \A i \in 1 .. Len(t) : (s \o <<x>>)[i] = t[i]
  BY <1>1, <1>2
<1> QED BY <1>2, <1>3, SeqEqual

LEMMA FewLayers ==
  ASSUME NEW F \in Values(Built), NEW types, NEW a \in Built, NEW b \in Built, NEW c \in Built,
         NEW d \in Built, NEW two, two = <<a, b>>, NEW three, three = <<a, b, c>>, NEW four, four = <<a, b, c, d>>
  PROVE  /\ two \in Seq(Built) /\ three \in Seq(Built) /\ four \in Seq(Built)
         /\ OfLayers(types, two, F) = OfLayers(types, <<a>>, F) + OfLayers(types, <<b>>, F)
         /\ OfLayers(types, three, F)
              = (OfLayers(types, <<a>>, F) + OfLayers(types, <<b>>, F)) + OfLayers(types, <<c>>, F)
         /\ OfLayers(types, four, F)
              = ((OfLayers(types, <<a>>, F) + OfLayers(types, <<b>>, F)) + OfLayers(types, <<c>>, F))
                  + OfLayers(types, <<d>>, F)
<1> DEFINE Of(s) == OfLayers(types, s, F)
           s1 == <<a>>
           s2 == <<a, b>>
           s3 == <<a, b, c>>
           s4 == <<a, b, c, d>>
           tb == <<b>>
           tc == <<c>>
           td == <<d>>
<1>1. /\ s1 \in Seq(Built) /\ s2 \in Seq(Built) /\ s3 \in Seq(Built) /\ s4 \in Seq(Built)
      /\ tb \in Seq(Built) /\ tc \in Seq(Built) /\ td \in Seq(Built)
      /\ Len(s1) = 1 /\ Len(s2) = 2 /\ Len(s3) = 3 /\ Len(s4) = 4
  OBVIOUS
<1>2. /\ s1[1] = a /\ s2[1] = a /\ s2[2] = b /\ s3[1] = a /\ s3[2] = b /\ s3[3] = c
      /\ s4[1] = a /\ s4[2] = b /\ s4[3] = c /\ s4[4] = d
  OBVIOUS
<1>0. two = s2 /\ three = s3 /\ four = s4
  OBVIOUS
<1> HIDE DEF s1, s2, s3, s4, Of
<1>3. s1 \o tb = s2
  <2>1. Len(s2) = Len(s1) + 1 /\ (\A k \in 1 .. Len(s1) : s2[k] = s1[k]) /\ s2[Len(s1) + 1] = b
    BY <1>1, <1>2
  <2> QED BY <1>1, <2>1, AddedLast, ZenonT(30)
<1>4. s2 \o tc = s3
  <2>1. Len(s3) = Len(s2) + 1 /\ (\A k \in 1 .. Len(s2) : s3[k] = s2[k]) /\ s3[Len(s2) + 1] = c
    BY <1>1, <1>2
  <2> QED BY <1>1, <2>1, AddedLast, ZenonT(30)
<1>5. s3 \o td = s4
  <2>1. Len(s4) = Len(s3) + 1 /\ (\A k \in 1 .. Len(s3) : s4[k] = s3[k]) /\ s4[Len(s3) + 1] = d
    BY <1>1, <1>2
  <2> QED BY <1>1, <2>1, AddedLast, ZenonT(30)
<1> HIDE DEF tb, tc, td
<1>6. \A s, t \in Seq(Built) : Of(s \o t) = Of(s) + Of(t)
  BY LayersJoined DEF Of
<1>7. Of(s2) = Of(s1) + Of(tb) /\ Of(s3) = Of(s2) + Of(tc) /\ Of(s4) = Of(s3) + Of(td)
  BY <1>1, <1>3, <1>4, <1>5, <1>6
<1>8. Of(s3) = (Of(s1) + Of(tb)) + Of(tc) /\ Of(s4) = ((Of(s1) + Of(tb)) + Of(tc)) + Of(td)
  BY <1>7
<1> QED BY <1>0, <1>1, <1>7, <1>8 DEF Of, s1, s2, s3, s4, tb, tc, td

LEMMA FeedForwardLayers ==
  ASSUME NEW model \in Models, NEW r \in Nat, NEW c \in Nat, NEW F \in Values(Built),
         NEW types, types \subseteq Products
  PROVE  /\ feed_forward(model, r, c) \in Seq(Built)
         /\ FeedForwardSum(model, r, c, F) \in Int
         /\ OfLayers(types, feed_forward(model, r, c), F)
              = IF "FC" \in types THEN FeedForwardSum(model, r, c, F) ELSE 0
<1> DEFINE f1 == Layer("ff1", "FC", r, c, model.hdim, 1)
           f2 == Layer("ff2", "FC", r, c, model.hdim, 1)
           f3 == Layer("ff3", "FC", r, model.hdim, c, 1)
           g2 == Layer("ff2", "FC", r, model.hdim, c, 1)
           Act(name) == Layer(name, "ACT", r, c, 1, 1)
           v(x) == IF "FC" \in types THEN F[x] ELSE 0
           Of(s) == OfLayers(types, s, F)
<1>0. /\ model.hdim \in Nat /\ 1 \in Nat /\ {"ff1", "ff2", "ff3", "glu", "relu", "gelu"} \subseteq LayerNames
      /\ "FC" \in LayerTypes /\ "ACT" \in LayerTypes /\ "ACT" \notin types
  BY DEF Models, LayerNames, LayerTypes, Products
<1> DEFINE Good(x) == x \in Built /\ <<x>> \in Seq(Built) /\ F[x] \in Int /\ Of(<<x>>) = v(x)
<1>1. Good(f1) /\ Good(f2) /\ Good(f3) /\ Good(g2)
  <2>1. ASSUME NEW name \in LayerNames, NEW n \in Nat, NEW k \in Nat, NEW x,
               x = Layer(name, "FC", r, n, k, 1)
        PROVE  Good(x)
    <3>1. "FC" \in LayerTypes /\ 1 \in Nat
      BY <1>0
    <3>2. /\ x \in Built /\ F[x] \in Int /\ <<x>> \in Seq(Built)
          /\ OfLayers(types, <<x>>, F) = IF "FC" \in types THEN F[x] ELSE 0
      BY <2>1, <3>1, BuiltLayer
    <3> QED BY <3>2
  <2> HIDE DEF Good
  <2> QED BY <1>0, <2>1
<1>2. \A name \in {"glu", "relu", "gelu"} :
        Act(name) \in Built /\ <<Act(name)>> \in Seq(Built) /\ Of(<<Act(name)>>) = 0
  <2> TAKE name \in {"glu", "relu", "gelu"}
  <2>1. PICK x : x = Act(name)
    OBVIOUS
  <2>2. PICK type \in LayerTypes, one \in Nat : type = "ACT" /\ one = 1
    BY <1>0
  <2>3. x = Layer(name, type, r, c, one, one) /\ name \in LayerNames
    BY <1>0, <2>1, <2>2
  <2>4. /\ x \in Built /\ <<x>> \in Seq(Built)
        /\ OfLayers(types, <<x>>, F) = IF type \in types THEN F[x] ELSE 0
    BY <2>3, BuiltLayer
  <2> QED BY <1>0, <2>1, <2>2, <2>4
<1>3. /\ model.name = "LLAMA" => feed_forward(model, r, c) = <<f1, f2, Act("glu"), f3>>
      /\ model.name = "OPT" => feed_forward(model, r, c) = <<f1, Act("relu"), g2>>
      /\ model.name \notin {"LLAMA", "OPT"} => feed_forward(model, r, c) = <<f1, Act("gelu"), g2>>
  BY DEF feed_forward
<1>4. FeedForwardSum(model, r, c, F) = F[f1] + (IF model.name = "LLAMA" THEN F[f2] + F[f3] ELSE F[g2])
  BY DEF FeedForwardSum
<1> HIDE DEF f1, f2, f3, g2, Act, Of, v
<1>9. CASE model.name = "LLAMA"
  <2>1. /\ <<f1, f2, Act("glu"), f3>> \in Seq(Built)
        /\ Of(<<f1, f2, Act("glu"), f3>>) = ((Of(<<f1>>) + Of(<<f2>>)) + Of(<<Act("glu")>>)) + Of(<<f3>>)
    <3> DEFINE a == Act("glu")
    <3>1. f1 \in Built /\ f2 \in Built /\ a \in Built /\ f3 \in Built
      BY <1>1, <1>2
    <3> HIDE DEF a
    <3>2. /\ <<f1, f2, a, f3>> \in Seq(Built)
          /\ Of(<<f1, f2, a, f3>>) = ((Of(<<f1>>) + Of(<<f2>>)) + Of(<<a>>)) + Of(<<f3>>)
      <4> DEFINE s2 == <<f1, f2>>
                 s3 == <<f1, f2, a>>
                 s4 == <<f1, f2, a, f3>>
      <4>1. s2 = <<f1, f2>> /\ s3 = <<f1, f2, a>> /\ s4 = <<f1, f2, a, f3>>
        OBVIOUS
      <4> HIDE DEF s2, s3, s4
      <4>2. s4 \in Seq(Built) /\ Of(s4) = ((Of(<<f1>>) + Of(<<f2>>)) + Of(<<a>>)) + Of(<<f3>>)
        <5>1. /\ s4 \in Seq(Built)
              /\ OfLayers(types, s4, F)
                   = ((OfLayers(types, <<f1>>, F) + OfLayers(types, <<f2>>, F)) + OfLayers(types, <<a>>, F))
                       + OfLayers(types, <<f3>>, F)
          BY <3>1, <4>1, FewLayers
        <5> QED BY <5>1 DEF Of
      <4> QED BY <4>1, <4>2
    <3> QED BY <3>2 DEF a
  <2>2. /\ feed_forward(model, r, c) \in Seq(Built)
        /\ Of(feed_forward(model, r, c)) = ((v(f1) + v(f2)) + 0) + v(f3)
    BY <1>1, <1>2, <1>3, <1>9, <2>1
  <2> QED BY SMTT(40), <1>1, <1>4, <1>9, <2>2 DEF Of, v
<1>10. CASE model.name # "LLAMA"
  <2>1. PICK a \in {Act("relu"), Act("gelu")} : feed_forward(model, r, c) = <<f1, a, g2>>
    BY <1>3, <1>10
  <2>2. a \in Built /\ <<a>> \in Seq(Built) /\ Of(<<a>>) = 0
    BY <1>2, <2>1
  <2>3. <<f1, a, g2>> \in Seq(Built) /\ Of(<<f1, a, g2>>) = (Of(<<f1>>) + Of(<<a>>)) + Of(<<g2>>)
    <3>1. f1 \in Built /\ a \in Built /\ g2 \in Built
      BY <1>1, <2>2
    <3> DEFINE s2 == <<f1, a>>
               s3 == <<f1, a, g2>>
               s4 == <<f1, a, g2, g2>>
    <3>2. s2 = <<f1, a>> /\ s3 = <<f1, a, g2>> /\ s4 = <<f1, a, g2, g2>>
      OBVIOUS
    <3> HIDE DEF s2, s3, s4
    <3>3. s3 \in Seq(Built) /\ Of(s3) = (Of(<<f1>>) + Of(<<a>>)) + Of(<<g2>>)
      BY <3>1, <3>2, FewLayers DEF Of
    <3> QED BY <3>2, <3>3
  <2>4. /\ feed_forward(model, r, c) \in Seq(Built)
        /\ Of(feed_forward(model, r, c)) = (v(f1) + 0) + v(g2)
    BY <1>1, <2>1, <2>2, <2>3
  <2> QED BY <1>1, <1>4, <1>10, <2>4 DEF Of, v
<1> QED BY <1>9, <1>10

AttentionSum(q, kv, dhead, nhead, F) ==
  F[Layer("score", "MATMUL", q, kv, dhead, nhead)] + F[Layer("context", "MATMUL", q, dhead, kv, nhead)]

ProjectionSum(model, rows, part, F) ==
  F[Layer("qkv", "FC", rows, 3 * part, model.hdim, 1)] + F[Layer("proj", "FC", rows, model.hdim, part, 1)]

Weights(model, rows, part, F) ==
  ProjectionSum(model, rows, part, F) + FeedForwardSum(model, rows, model.ff_scale * part, F)

\* What the products with weights and those of the attention sum up to.
WeightsSum(model, devs, batch, q, F) == Weights(model, batch * q, model.hdim \div devs, F)
HeadsSum(model, devs, batch, q, kv, F) ==
  AttentionSum(q, kv, model.hdim \div model.num_heads, heads(model, devs, batch), F)

\* What a decoder sums up to, wherever the attention runs.
LEMMA DecoderLayers ==
  ASSUME NEW model \in Models, NEW devs \in Nat \ {0}, NEW batch \in Nat, NEW q \in Nat,
         NEW kv \in Nat, NEW gen \in BOOLEAN, NEW attn_on_hetero \in BOOLEAN,
         NEW F \in Values(Built), NEW types, types \subseteq Products
  PROVE  /\ decoder(model, devs, batch, q, kv, gen, attn_on_hetero) \in Seq(Built)
         /\ WeightsSum(model, devs, batch, q, F) \in Int /\ HeadsSum(model, devs, batch, q, kv, F) \in Int
         /\ OfLayers(types, decoder(model, devs, batch, q, kv, gen, attn_on_hetero), F)
              = (IF "FC" \in types THEN WeightsSum(model, devs, batch, q, F) ELSE 0)
                + (IF "MATMUL" \in types THEN HeadsSum(model, devs, batch, q, kv, F) ELSE 0)
<1> DEFINE part == model.hdim \div devs
           dhead == model.hdim \div model.num_heads
           nhead == heads(model, devs, batch)
           rows == batch * q
           S == Built
           Of(s) == OfLayers(types, s, F)
           g2g == Layer("comm_g2g", "G2G", rows, model.hdim, 1, 1)
           Norm(norm) == Layer(norm, "NORM", rows, model.hdim, 1, 1)
           Reduce(norm) == <<g2g, Norm(norm)>>
           qkv == Layer("qkv", "FC", rows, 3 * part, model.hdim, 1)
           x2g(c) == Layer("comm_x2g", "X2G", rows, c * part, 1, 1)
           g2x == Layer("comm_x2g", "X2G", 1, dhead, 1, nhead)
           score == Layer("score", "MATMUL", q, kv, dhead, nhead)
           softmax == Layer("softmax", "SOFTMAX", q, kv, 1, nhead)
           context == Layer("context", "MATMUL", q, dhead, kv, nhead)
           proj == Layer("proj", "FC", rows, model.hdim, part, 1)
           first == <<qkv>>
           to == IF attn_on_hetero THEN <<x2g(IF gen THEN 3 ELSE 2)>> ELSE <<>>
           attn == <<score, softmax, context>>
           from == IF attn_on_hetero /\ gen THEN <<g2x>> ELSE <<>>
           last == <<proj>>
           ff == feed_forward(model, rows, model.ff_scale * part)
<1>1. /\ model.hdim \in Nat \ {0} /\ model.num_heads \in Nat \ {0} /\ model.ff_scale \in Nat \ {0}
  BY DEF Models
<1>2. /\ part \in Nat /\ dhead \in Nat /\ rows \in Nat /\ 3 * part \in Nat /\ 2 * part \in Nat
      /\ model.hdim \in Nat /\ 1 \in Nat
  BY <1>1
<1>3. nhead \in Nat /\ model.ff_scale * part \in Nat
  <2>1. model.num_heads \div devs \in Nat
    BY <1>1
  <2> QED BY <1>1, <1>2, <2>1, Products2 DEF heads
<1>4. decoder(model, devs, batch, q, kv, gen, attn_on_hetero)
        = first \o to \o attn \o from \o last \o Reduce("norm1") \o ff \o Reduce("norm2")
  BY DEF decoder
<1> HIDE DEF rows, part, dhead, nhead
<1>5. /\ {"qkv", "comm_x2g", "score", "softmax", "context", "proj", "comm_g2g", "norm1", "norm2"} \subseteq LayerNames
      /\ {"FC", "MATMUL", "SOFTMAX", "NORM", "G2G", "X2G"} \subseteq LayerTypes
      /\ "SOFTMAX" \notin types /\ "NORM" \notin types /\ "G2G" \notin types /\ "X2G" \notin types
  BY DEF LayerNames, LayerTypes, Products
<1> DEFINE Val(type, x) == IF type \in types THEN F[x] ELSE 0
           Good(x, type) == x \in S /\ <<x>> \in Seq(S) /\ F[x] \in Int /\ Of(<<x>>) = Val(type, x)
<1>6. ASSUME NEW name \in LayerNames, NEW type \in LayerTypes, NEW m \in Nat, NEW n \in Nat,
             NEW k \in Nat, NEW numOp \in Nat
      PROVE  Good(Layer(name, type, m, n, k, numOp), type)
  BY BuiltLayer
<1> HIDE DEF Good
<1>7. /\ Good(qkv, "FC") /\ Good(proj, "FC")
      /\ Good(score, "MATMUL") /\ Good(context, "MATMUL") /\ Good(softmax, "SOFTMAX")
  BY <1>2, <1>3, <1>5, <1>6
<1>8. /\ Good(x2g(3), "X2G") /\ Good(x2g(2), "X2G") /\ Good(g2x, "X2G") /\ Good(g2g, "G2G")
      /\ Good(Norm("norm1"), "NORM") /\ Good(Norm("norm2"), "NORM")
  BY <1>2, <1>3, <1>5, <1>6
<1> USE DEF Good
<1> HIDE DEF qkv, proj, score, softmax, context, x2g, g2x, g2g, Norm, S
<1>10. Of(<<>>) = 0 /\ <<>> \in Seq(S)
  <2>1. {k \in DOMAIN <<>> : <<>>[k].type \in types} = {}
    OBVIOUS
  <2>2. Of(<<>>) = SumFunctionOnSet(Valued(<<>>, F), {})
    BY <2>1 DEF OfLayers, Over
  <2> QED BY <2>2, SumEmpty
<1>9. Val("SOFTMAX", softmax) = 0 /\ \A x : Val("X2G", x) = 0 /\ Val("G2G", x) = 0 /\ Val("NORM", x) = 0
  BY <1>5
<1> HIDE DEF Of, Val
<1> DEFINE Is(s, v) == s \in Seq(S) /\ Of(s) = v
<1>11. Is(first, Val("FC", qkv)) /\ Is(last, Val("FC", proj)) /\ Is(to, 0) /\ Is(from, 0)
  <2>1. x2g(IF gen THEN 3 ELSE 2) = IF gen THEN x2g(3) ELSE x2g(2)
    OBVIOUS
  <2>2. Is(to, 0)
    <3>1. CASE attn_on_hetero
      <4>1. to = <<x2g(3)>> \/ to = <<x2g(2)>>
        BY <2>1, <3>1
      <4> QED BY <1>8, <1>9, <4>1
    <3>2. CASE ~ attn_on_hetero
      BY <1>10, <3>2
    <3> QED BY <3>1, <3>2
  <2>3. Is(from, 0)
    <3>1. CASE attn_on_hetero /\ gen
      BY <1>8, <1>9, <3>1
    <3>2. CASE ~ (attn_on_hetero /\ gen)
      BY <1>10, <3>2
    <3> QED BY <3>1, <3>2
  <2> QED BY <1>7, <2>2, <2>3
<1>12. Is(attn, Val("MATMUL", score) + 0 + Val("MATMUL", context))
  <2> DEFINE s2 == <<score, softmax>>
             s4 == <<score, softmax, context, context>>
  <2>1. s2 = <<score, softmax>> /\ attn = <<score, softmax, context>>
          /\ s4 = <<score, softmax, context, context>>
    OBVIOUS
  <2>2. score \in Built /\ softmax \in Built /\ context \in Built
    BY <1>7 DEF S
  <2> HIDE DEF s2, attn, s4
  <2>3. attn \in Seq(Built) /\ Of(attn) = (Of(<<score>>) + Of(<<softmax>>)) + Of(<<context>>)
    BY <2>1, <2>2, FewLayers DEF Of
  <2>4. Of(<<score>>) = Val("MATMUL", score) /\ Of(<<softmax>>) = 0 /\ Of(<<context>>) = Val("MATMUL", context)
    BY <1>7, <1>9
  <2> QED BY <2>3, <2>4 DEF S
<1>13. Is(Reduce("norm1"), 0) /\ Is(Reduce("norm2"), 0)
  <2> SUFFICES ASSUME NEW norm \in {"norm1", "norm2"} PROVE Is(Reduce(norm), 0)
    OBVIOUS
  <2> DEFINE a == Norm(norm)
             s2 == <<g2g, a>>
             s3 == <<g2g, a, a>>
             s4 == <<g2g, a, a, a>>
  <2>1. s2 = <<g2g, a>> /\ s3 = <<g2g, a, a>> /\ s4 = <<g2g, a, a, a>>
    OBVIOUS
  <2>2. g2g \in Built /\ a \in Built /\ Of(<<g2g>>) = 0 /\ Of(<<a>>) = 0 /\ Reduce(norm) = s2
    BY <1>8, <1>9 DEF S
  <2> HIDE DEF s2, s3, s4, a, Reduce
  <2>3. s2 \in Seq(Built) /\ Of(s2) = Of(<<g2g>>) + Of(<<a>>)
    BY <2>1, <2>2, FewLayers DEF Of
  <2> QED BY <2>2, <2>3 DEF S
<1> DEFINE ffsum == FeedForwardSum(model, rows, model.ff_scale * part, F)
           ffval == IF "FC" \in types THEN ffsum ELSE 0
<1>14. Is(ff, ffval) /\ ffsum \in Int
  <2> DEFINE wide == model.ff_scale * part
  <2>1. wide \in Nat /\ rows \in Nat
    BY <1>2, <1>3
  <2> HIDE DEF wide
  <2>2. ASSUME NEW r \in Nat, NEW c \in Nat
        PROVE  /\ feed_forward(model, r, c) \in Seq(Built)
               /\ FeedForwardSum(model, r, c, F) \in Int
               /\ OfLayers(types, feed_forward(model, r, c), F)
                    = IF "FC" \in types THEN FeedForwardSum(model, r, c, F) ELSE 0
    <3>1. feed_forward(model, r, c) \in Seq(Built)
      BY FeedForwardLayers
    <3>2. FeedForwardSum(model, r, c, F) \in Int
      BY FeedForwardLayers
    <3>3. OfLayers(types, feed_forward(model, r, c), F)
            = IF "FC" \in types THEN FeedForwardSum(model, r, c, F) ELSE 0
      <4>1. CASE "FC" \in types
        BY <4>1, FeedForwardLayers
      <4>2. CASE "FC" \notin types
        BY <4>2, FeedForwardLayers
      <4> QED BY <4>1, <4>2
    <3> QED BY <3>1, <3>2, <3>3
  <2>3. /\ feed_forward(model, rows, wide) \in Seq(Built)
        /\ FeedForwardSum(model, rows, wide, F) \in Int
        /\ OfLayers(types, feed_forward(model, rows, wide), F)
             = IF "FC" \in types THEN FeedForwardSum(model, rows, wide, F) ELSE 0
    BY <2>1, <2>2
  <2> QED BY <2>3 DEF S, Of, wide
<1>15. \A s, t \in Seq(S) : s \o t \in Seq(S) /\ Of(s \o t) = Of(s) + Of(t)
  BY LayersJoinedType DEF S, Of
<1> HIDE DEF first, to, attn, from, last, ff, Reduce, ffsum, ffval
<1> DEFINE s2 == first \o to
           s3 == s2 \o attn
           s4 == s3 \o from
           s5 == s4 \o last
           s6 == s5 \o Reduce("norm1")
           s7 == s6 \o ff
           s8 == s7 \o Reduce("norm2")
<1>16. s2 \in Seq(S) /\ Of(s2) = Of(first) + Of(to)
  BY <1>11, <1>15
<1> HIDE DEF s2
<1>17. s3 \in Seq(S) /\ Of(s3) = Of(s2) + Of(attn)
  BY <1>12, <1>15, <1>16
<1> HIDE DEF s3
<1>18. s4 \in Seq(S) /\ Of(s4) = Of(s3) + Of(from)
  BY <1>11, <1>15, <1>17
<1> HIDE DEF s4
<1>19. s5 \in Seq(S) /\ Of(s5) = Of(s4) + Of(last)
  BY <1>11, <1>15, <1>18
<1> HIDE DEF s5
<1>20. s6 \in Seq(S) /\ Of(s6) = Of(s5) + Of(Reduce("norm1"))
  BY <1>13, <1>15, <1>19
<1> HIDE DEF s6
<1>21. s7 \in Seq(S) /\ Of(s7) = Of(s6) + Of(ff)
  BY <1>14, <1>15, <1>20
<1> HIDE DEF s7
<1>22. s8 \in Seq(S) /\ Of(s8) = Of(s7) + Of(Reduce("norm2"))
  BY <1>13, <1>15, <1>21
<1> HIDE DEF s8
<1>23. decoder(model, devs, batch, q, kv, gen, attn_on_hetero) = s8
  BY <1>4 DEF s2, s3, s4, s5, s6, s7, s8, last, proj
<1>24. F[qkv] \in Int /\ F[proj] \in Int /\ F[score] \in Int /\ F[context] \in Int
  BY <1>7
<1> DEFINE fc == IF "FC" \in types THEN (F[qkv] + F[proj]) + ffsum ELSE 0
           mm == IF "MATMUL" \in types THEN F[score] + F[context] ELSE 0
<1>25. Of(s8) = fc + mm
  <2>1. Of(s8) = Val("FC", qkv) + (Val("MATMUL", score) + 0 + Val("MATMUL", context)) + Val("FC", proj) + ffval
    <3>1. /\ Val("FC", qkv) \in Int /\ Val("FC", proj) \in Int /\ ffval \in Int
          /\ Val("MATMUL", score) \in Int /\ Val("MATMUL", context) \in Int
      BY <1>14, <1>24 DEF Val, ffval
    <3> HIDE DEF Is
    <3>2. /\ Of(first) = Val("FC", qkv) /\ Of(last) = Val("FC", proj) /\ Of(to) = 0 /\ Of(from) = 0
          /\ Of(attn) = Val("MATMUL", score) + 0 + Val("MATMUL", context)
          /\ Of(Reduce("norm1")) = 0 /\ Of(Reduce("norm2")) = 0 /\ Of(ff) = ffval
      BY <1>11, <1>12, <1>13, <1>14 DEF Is
    <3> QED BY <1>16, <1>17, <1>18, <1>19, <1>20, <1>21, <1>22, <3>1, <3>2
  <2>2. CASE "FC" \in types
    <3>1. CASE "MATMUL" \in types
      BY <1>14, <1>24, <2>1, <2>2, <3>1 DEF Val, ffval
    <3>2. CASE "MATMUL" \notin types
      BY <1>14, <1>24, <2>1, <2>2, <3>2 DEF Val, ffval
    <3> QED BY <3>1, <3>2
  <2>3. CASE "FC" \notin types
    <3>1. CASE "MATMUL" \in types
      BY <1>14, <1>24, <2>1, <2>3, <3>1 DEF Val, ffval
    <3>2. CASE "MATMUL" \notin types
      BY <1>14, <1>24, <2>1, <2>3, <3>2 DEF Val, ffval
    <3> QED BY <3>1, <3>2
  <2> QED BY <2>2, <2>3
<1>26. /\ (F[qkv] + F[proj]) + ffsum = WeightsSum(model, devs, batch, q, F)
       /\ F[score] + F[context] = HeadsSum(model, devs, batch, q, kv, F)
  BY DEF ffsum, ProjectionSum, AttentionSum, WeightsSum, Weights, HeadsSum, qkv, proj, score, context, rows, part, dhead, nhead
<1>27. (F[qkv] + F[proj]) + ffsum \in Int /\ F[score] + F[context] \in Int
  BY <1>14, <1>24
<1> QED BY <1>22, <1>23, <1>25, <1>26, <1>27 DEF S, Of

LEMMA DecoderParts ==
  ASSUME NEW model \in Models, NEW devs \in Nat \ {0}, NEW batch \in Nat, NEW q \in Nat,
         NEW kv \in Nat, NEW gen \in BOOLEAN, NEW attn_on_hetero \in BOOLEAN, NEW F \in Values(Built),
         NEW s, s = decoder(model, devs, batch, q, kv, gen, attn_on_hetero)
  PROVE  LET fc == WeightsSum(model, devs, batch, q, F)
             mm == HeadsSum(model, devs, batch, q, kv, F)
         IN /\ s \in Seq(Built) /\ fc \in Int /\ mm \in Int
            /\ OfLayers({"FC"}, s, F) = fc /\ OfLayers({"MATMUL"}, s, F) = mm
            /\ OfLayers(Products, s, F) = fc + mm
<1> DEFINE fc == WeightsSum(model, devs, batch, q, F)
           mm == HeadsSum(model, devs, batch, q, kv, F)
<1>1. ASSUME NEW types, types \subseteq Products
      PROVE  /\ s \in Seq(Built) /\ fc \in Int /\ mm \in Int
             /\ OfLayers(types, s, F) = (IF "FC" \in types THEN fc ELSE 0) + (IF "MATMUL" \in types THEN mm ELSE 0)
  <2> DEFINE d == decoder(model, devs, batch, q, kv, gen, attn_on_hetero)
  <2>1. /\ d \in Seq(Built) /\ fc \in Int /\ mm \in Int
        /\ OfLayers(types, d, F) = (IF "FC" \in types THEN fc ELSE 0) + (IF "MATMUL" \in types THEN mm ELSE 0)
    BY <1>1, DecoderLayers
  <2> HIDE DEF d, fc, mm
  <2>2. s = d
    BY DEF d
  <2> QED BY <2>1, <2>2
<1>2. {"FC"} \subseteq Products /\ {"MATMUL"} \subseteq Products /\ Products \subseteq Products
  BY DEF Products
<1> HIDE DEF fc, mm
<1>3. s \in Seq(Built) /\ fc \in Int /\ mm \in Int
  BY <1>1, <1>2
<1>4. OfLayers({"FC"}, s, F) = fc + 0 /\ OfLayers({"MATMUL"}, s, F) = 0 + mm
        /\ OfLayers(Products, s, F) = fc + mm
  BY <1>1, <1>2 DEF Products
<1>5. fc + 0 = fc /\ 0 + mm = mm
  BY <1>3
<1>6. OfLayers({"FC"}, s, F) = fc /\ OfLayers({"MATMUL"}, s, F) = mm /\ OfLayers(Products, s, F) = fc + mm
  BY <1>4, <1>5
<1> QED BY <1>3, <1>6 DEF fc, mm

Flops == [x \in Built |-> get_flops(x)]
Second == [x \in Built |-> get_size(x)[2]]

LEMMA SizeType ==
  ASSUME NEW x \in Built
  PROVE  get_size(x)[2] \in Int
<1>1. dbyte \in Nat
  BY TileAssumption
<1>2. x.m \in Nat /\ x.n \in Nat /\ x.k \in Nat /\ x.numOp \in Nat
  BY DEF Built
<1>3. x.numOp * x.n * x.k * dbyte \in Nat /\ x.numOp * x.m * x.n * dbyte \in Nat
  BY <1>1, <1>2, Products5
<1> DEFINE elements == x.numOp * x.m * x.n * dbyte
           second == x.numOp * x.n * x.k * dbyte
<1>4. /\ x.type \in {"FC", "MATMUL"} => get_size(x)[2] = second
      /\ x.type \notin {"FC", "MATMUL"} => get_size(x)[2] = IF x.type = "NORM" \/ x.name = "glu" THEN elements ELSE 0
  BY DEF get_size
<1> HIDE DEF elements, second
<1>5. elements \in Nat /\ second \in Nat
  BY <1>3 DEF elements, second
<1> QED BY <1>4, <1>5

LEMMA BuiltFlops ==
  ASSUME NEW x \in Built
  PROVE  get_flops(x) \in Nat
BY SizedFlops DEF Built

LEMMA LayerValues == Flops \in Values(Built) /\ Second \in Values(Built)
BY SizeType, BuiltFlops DEF Flops, Second, Values

LEMMA WorkOfBuilt ==
  ASSUME NEW s \in Seq(Built), NEW type
  PROVE  /\ Work(s) = OfLayers(Products, s, Flops)
         /\ Kept(type, s) = OfLayers({type}, s, Second)
<1>1. \A k \in DOMAIN s : s[k] \in Built
  OBVIOUS
<1>2. /\ [k \in DOMAIN s |-> get_flops(s[k])] = Valued(s, Flops)
      /\ [k \in DOMAIN s |-> get_size(s[k])[2]] = Valued(s, Second)
  BY <1>1 DEF Valued, Flops, Second
<1> QED BY <1>2 DEF Work, Kept, OfLayers, Products

\* The layers that multiply matrices.
LEMMA ProductValue ==
  ASSUME NEW x \in Built, x.type \in Products
  PROVE  /\ Flops[x] = 2 * x.m * x.n * x.k * x.numOp
         /\ Second[x] = x.numOp * x.n * x.k * dbyte
<1>1. x.type \in {"FC", "MATMUL"}
  BY DEF Products
<1>2. get_flops(x) = 2 * x.m * x.n * x.k * x.numOp
  BY <1>1 DEF get_flops
<1>3. get_size(x)[2] = x.numOp * x.n * x.k * dbyte
  BY <1>1 DEF get_size
<1> QED BY <1>2, <1>3 DEF Flops, Second

LEMMA ProductLayer ==
  ASSUME NEW name \in LayerNames, NEW type \in Products, NEW m \in Nat, NEW n \in Nat,
         NEW k \in Nat, NEW numOp \in Nat
  PROVE  /\ Flops[Layer(name, type, m, n, k, numOp)] = 2 * m * n * k * numOp
         /\ Second[Layer(name, type, m, n, k, numOp)] = numOp * n * k * dbyte
<1> DEFINE x == Layer(name, type, m, n, k, numOp)
<1>1. x \in Built /\ x.type \in Products
  BY DEF Layer, Built, Products, LayerTypes
<1>2. x.m = m /\ x.n = n /\ x.k = k /\ x.numOp = numOp
  BY DEF Layer
<1> HIDE DEF x
<1>3. Flops[x] = 2 * m * n * k * numOp /\ Second[x] = numOp * n * k * dbyte
  BY <1>1, <1>2, ProductValue
<1> QED BY <1>3 DEF x

\* A factor of a product can be taken out.
LEMMA TakenOut ==
  ASSUME NEW a \in Nat, NEW b \in Nat, NEW c \in Nat, NEW d \in Nat, NEW t \in Nat
  PROVE  /\ (2 * a * b * c * d) * t = 2 * a * (b * t) * c * d
         /\ (2 * a * b * c * d) * t = 2 * a * b * (c * t) * d
         /\ (2 * a * b * c * d) * t = 2 * a * b * c * (d * t)
OBVIOUS

LEMMA Divided ==
  ASSUME NEW h \in Nat, NEW n \in Nat \ {0}, h % n = 0
  PROVE  h \div n \in Nat /\ (h \div n) * n = h /\ h \div 1 = h /\ h % 1 = 0
OBVIOUS

LEMMA Rounded ==
  ASSUME NEW h \in Nat, NEW n \in Nat \ {0}, NEW q, q = h \div n, NEW r, r = h % n
  PROVE  q * n \in Nat /\ r \in Nat /\ h = q * n + r
<1>1. q \in Nat /\ r \in Nat
  OBVIOUS
<1>2. q * n = h - r
  OBVIOUS
<1>3. q * n \in Nat
  BY <1>1
<1> QED BY <1>1, <1>2, <1>3

LEMMA ModelTypes ==
  ASSUME NEW model \in Models
  PROVE  model.hdim \in Nat /\ model.num_heads \in Nat \ {0} /\ model.ff_scale \in Nat
BY DEF Models


\* The work of the products with weights, of rows rows and part of the columns.
LEMMA WeightsWork ==
  ASSUME NEW model \in Models, NEW rows \in Nat, NEW p \in Nat, NEW t \in Nat, NEW q \in Nat, q = p * t
  PROVE  Weights(model, rows, p, Flops) * t = Weights(model, rows, q, Flops)
<1> DEFINE h == model.hdim
           fs == model.ff_scale
           A(x) == 2 * rows * (3 * x) * h * 1
           B(x) == 2 * rows * h * x * 1
           C(x) == 2 * rows * (fs * x) * h * 1
           D(x) == 2 * rows * h * (fs * x) * 1
<1>1. /\ h \in Nat /\ fs \in Nat /\ 1 \in Nat /\ model.hdim = h /\ model.ff_scale = fs
      /\ {"qkv", "proj", "ff1", "ff2", "ff3"} \subseteq LayerNames /\ "FC" \in Products
  BY ModelTypes DEF LayerNames, Products
<1> HIDE DEF h, fs
<1>2. ASSUME NEW x \in Nat
      PROVE  /\ 3 * x \in Nat /\ fs * x \in Nat
             /\ A(x) \in Nat /\ B(x) \in Nat /\ C(x) \in Nat /\ D(x) \in Nat
             /\ ProjectionSum(model, rows, x, Flops) = A(x) + B(x)
             /\ FeedForwardSum(model, rows, fs * x, Flops)
                  = C(x) + (IF model.name = "LLAMA" THEN C(x) + D(x) ELSE D(x))
  <2>1. 3 * x \in Nat /\ fs * x \in Nat
    BY <1>1
  <2>2. A(x) \in Nat /\ B(x) \in Nat /\ C(x) \in Nat /\ D(x) \in Nat
    BY <1>1, <2>1, Products5
  <2> DEFINE w == fs * x
             u == 3 * x
  <2>3. w \in Nat /\ u \in Nat
    BY <2>1
  <2> HIDE DEF A, B, C, D, w, u
  <2>4. /\ Flops[Layer("qkv", "FC", rows, u, h, 1)] = 2 * rows * u * h * 1
        /\ Flops[Layer("proj", "FC", rows, h, x, 1)] = 2 * rows * h * x * 1
        /\ Flops[Layer("ff1", "FC", rows, w, h, 1)] = 2 * rows * w * h * 1
        /\ Flops[Layer("ff2", "FC", rows, w, h, 1)] = 2 * rows * w * h * 1
        /\ Flops[Layer("ff2", "FC", rows, h, w, 1)] = 2 * rows * h * w * 1
        /\ Flops[Layer("ff3", "FC", rows, h, w, 1)] = 2 * rows * h * w * 1
    <3>1. ASSUME NEW name \in LayerNames, NEW n \in Nat, NEW k \in Nat
          PROVE  Flops[Layer(name, "FC", rows, n, k, 1)] = 2 * rows * n * k * 1
      BY <1>1, ProductLayer
    <3> QED BY <1>1, <2>3, <3>1
  <2>5. ProjectionSum(model, rows, x, Flops) = A(x) + B(x)
    BY <1>1, <2>4 DEF ProjectionSum, A, B, u
  <2>6. FeedForwardSum(model, rows, w, Flops) = C(x) + (IF model.name = "LLAMA" THEN C(x) + D(x) ELSE D(x))
    BY <1>1, <2>4 DEF FeedForwardSum, C, D, w
  <2> QED BY <2>1, <2>2, <2>5, <2>6 DEF w
<1>3. A(p) * t = A(q) /\ B(p) * t = B(q) /\ C(p) * t = C(q) /\ D(p) * t = D(q)
  <2>1. (3 * p) * t = 3 * q /\ (fs * p) * t = fs * q /\ 3 * p \in Nat /\ fs * p \in Nat
    BY <1>1
  <2>2. A(p) * t = 2 * rows * ((3 * p) * t) * h * 1
    BY <1>1, <2>1, TakenOut
  <2>3. B(p) * t = 2 * rows * h * (p * t) * 1
    BY <1>1, TakenOut
  <2>4. C(p) * t = 2 * rows * ((fs * p) * t) * h * 1
    BY <1>1, <2>1, TakenOut
  <2>5. D(p) * t = 2 * rows * h * ((fs * p) * t) * 1
    BY <1>1, <2>1, TakenOut
  <2> QED BY <2>1, <2>2, <2>3, <2>4, <2>5
<1>4. /\ A(p) \in Nat /\ B(p) \in Nat /\ C(p) \in Nat /\ D(p) \in Nat
  BY <1>2
<1>5. /\ ProjectionSum(model, rows, p, Flops) = A(p) + B(p)
      /\ ProjectionSum(model, rows, q, Flops) = A(q) + B(q)
      /\ FeedForwardSum(model, rows, fs * p, Flops) = C(p) + (IF model.name = "LLAMA" THEN C(p) + D(p) ELSE D(p))
      /\ FeedForwardSum(model, rows, fs * q, Flops) = C(q) + (IF model.name = "LLAMA" THEN C(q) + D(q) ELSE D(q))
  BY <1>2
<1> HIDE DEF A, B, C, D
<1>6. CASE model.name = "LLAMA"
  <2>1. ((A(p) + B(p)) + (C(p) + (C(p) + D(p)))) * t = (A(q) + B(q)) + (C(q) + (C(q) + D(q)))
    BY <1>3, <1>4
  <2> QED BY <1>1, <1>5, <1>6, <2>1 DEF Weights
<1>7. CASE model.name # "LLAMA"
  <2>1. ((A(p) + B(p)) + (C(p) + D(p))) * t = (A(q) + B(q)) + (C(q) + D(q))
    BY <1>3, <1>4
  <2> QED BY <1>1, <1>5, <1>7, <2>1 DEF Weights
<1> QED BY <1>6, <1>7

\* And of the attention, with n heads.
LEMMA HeadsWork ==
  ASSUME NEW r \in Nat, NEW kv \in Nat, NEW d \in Nat, NEW n \in Nat, NEW t \in Nat, NEW o \in Nat, o = n * t
  PROVE  AttentionSum(r, kv, d, n, Flops) * t = AttentionSum(r, kv, d, o, Flops)
<1>1. {"score", "context"} \subseteq LayerNames /\ "MATMUL" \in Products
  BY DEF LayerNames, Products
<1>2. ASSUME NEW x \in Nat
      PROVE  /\ AttentionSum(r, kv, d, x, Flops) = 2 * r * kv * d * x + 2 * r * d * kv * x
             /\ 2 * r * kv * d * x \in Nat /\ 2 * r * d * kv * x \in Nat
  BY <1>1, ProductLayer, Products5 DEF AttentionSum
<1>3. (2 * r * kv * d * n) * t = 2 * r * kv * d * o /\ (2 * r * d * kv * n) * t = 2 * r * d * kv * o
  BY TakenOut
<1> DEFINE a == 2 * r * kv * d * n
           b == 2 * r * d * kv * n
<1>4. a \in Nat /\ b \in Nat
  BY <1>2
<1> HIDE DEF a, b
<1>5. (a + b) * t = a * t + b * t
  BY <1>4
<1> QED BY <1>2, <1>3, <1>5 DEF a, b

Matrices(model) == IF model.name = "LLAMA" THEN 3 ELSE 2
ValueBytes(columns, batch, kv) == 2 * (kv * (batch * columns) * dbyte)
WeightBytes(model, columns) == (4 + Matrices(model) * model.ff_scale) * (model.hdim * columns * dbyte)

\* The columns that all heads have.
HeadColumns(model) == (model.hdim \div model.num_heads) * model.num_heads

\* The bytes of the weights that p of the columns have.
LEMMA WeightsKept ==
  ASSUME NEW model \in Models, NEW rows \in Nat, NEW p \in Nat, NEW t \in Nat, NEW q \in Nat, q = p * t
  PROVE  Weights(model, rows, p, Second) * t
           = WeightBytes(model, q)
<1> DEFINE h == model.hdim
           fs == model.ff_scale
           one == h * p * dbyte
           all == h * q * dbyte
<1>1. /\ h \in Nat /\ fs \in Nat /\ 1 \in Nat /\ model.hdim = h /\ model.ff_scale = fs /\ dbyte \in Nat
      /\ {"qkv", "proj", "ff1", "ff2", "ff3"} \subseteq LayerNames /\ "FC" \in Products
  BY ModelTypes, TileAssumption DEF LayerNames, Products
<1> HIDE DEF h, fs
<1> DEFINE w == fs * p
           u == 3 * p
<1>2. w \in Nat /\ u \in Nat /\ one \in Nat /\ all \in Nat
  <2>1. h * p \in Nat /\ h * q \in Nat
    BY <1>1, Products2
  <2> QED BY <1>1, <2>1, Products2
<1>3. /\ 1 * u * h * dbyte = 3 * one /\ 1 * h * p * dbyte = one
      /\ 1 * w * h * dbyte = fs * one /\ 1 * h * w * dbyte = fs * one
  BY <1>1
<1>4. one * t = all
  BY <1>1
<1> HIDE DEF w, u, one, all
<1>5. /\ Second[Layer("qkv", "FC", rows, u, h, 1)] = 3 * one
      /\ Second[Layer("proj", "FC", rows, h, p, 1)] = one
      /\ Second[Layer("ff1", "FC", rows, w, h, 1)] = fs * one
      /\ Second[Layer("ff2", "FC", rows, w, h, 1)] = fs * one
      /\ Second[Layer("ff2", "FC", rows, h, w, 1)] = fs * one
      /\ Second[Layer("ff3", "FC", rows, h, w, 1)] = fs * one
  <2> DEFINE kept(n, k) == 1 * n * k * dbyte
  <2>1. ASSUME NEW name \in LayerNames, NEW n \in Nat, NEW k \in Nat
        PROVE  Second[Layer(name, "FC", rows, n, k, 1)] = kept(n, k)
    <3>1. ASSUME NEW o \in Nat PROVE Second[Layer(name, "FC", rows, n, k, o)] = o * n * k * dbyte
      <4> DEFINE x == Layer(name, "FC", rows, n, k, o)
      <4>1. x \in Built /\ x.type \in Products
        BY <1>1 DEF Layer, Built, Products, LayerTypes
      <4>2. x.n = n /\ x.k = k /\ x.numOp = o
        BY DEF Layer
      <4> HIDE DEF x
      <4>3. Second[x] = o * n * k * dbyte
        BY <4>1, <4>2, ProductValue
      <4> QED BY <4>3 DEF x
    <3> QED BY <3>1, Zenon
  <2>2. kept(u, h) = 3 * one /\ kept(h, p) = one /\ kept(w, h) = fs * one /\ kept(h, w) = fs * one
    BY <1>3
  <2> HIDE DEF kept
  <2> QED BY <1>1, <1>2, <2>1, <2>2
<1>6. ProjectionSum(model, rows, p, Second) = 3 * one + one
  BY <1>1, <1>5 DEF ProjectionSum, u
<1>7. FeedForwardSum(model, rows, w, Second)
        = fs * one + (IF model.name = "LLAMA" THEN fs * one + fs * one ELSE fs * one)
  BY <1>1, <1>5 DEF FeedForwardSum
<1>8. ASSUME NEW m \in Nat PROVE ((4 + m * fs) * one) * t = (4 + m * fs) * all
  <2>1. 4 + m * fs \in Nat
    BY <1>1
  <2> DEFINE c == 4 + m * fs
  <2>2. c \in Nat
    BY <2>1
  <2> HIDE DEF c
  <2>3. (c * one) * t = c * (one * t)
    BY <1>2, <2>2
  <2> QED BY <1>4, <2>3 DEF c
<1>9. CASE model.name = "LLAMA"
  <2>1. (3 * one + one) + (fs * one + (fs * one + fs * one)) = (4 + 3 * fs) * one
    BY <1>1, <1>2
  <2>2. ((4 + 3 * fs) * one) * t = (4 + 3 * fs) * all
    BY <1>8
  <2> QED BY <1>1, <1>6, <1>7, <1>9, <2>1, <2>2 DEF w, all, Matrices, Weights, WeightBytes
<1>10. CASE model.name # "LLAMA"
  <2>1. (3 * one + one) + (fs * one + fs * one) = (4 + 2 * fs) * one
    BY <1>1, <1>2
  <2>2. ((4 + 2 * fs) * one) * t = (4 + 2 * fs) * all
    BY <1>8
  <2> QED BY <1>1, <1>6, <1>7, <1>10, <2>1, <2>2 DEF w, all, Matrices, Weights, WeightBytes
<1> QED BY <1>9, <1>10

\* And of the keys and values of n heads, d columns each.
LEMMA HeadsKept ==
  ASSUME NEW r \in Nat, NEW kv \in Nat, NEW d \in Nat, NEW n \in Nat, NEW t \in Nat, NEW o \in Nat, o = n * t
  PROVE  AttentionSum(r, kv, d, n, Second) * t = 2 * (kv * (o * d) * dbyte)
<1>1. {"score", "context"} \subseteq LayerNames /\ "MATMUL" \in Products /\ dbyte \in Nat
  BY TileAssumption DEF LayerNames, Products
<1>2. AttentionSum(r, kv, d, n, Second) = n * kv * d * dbyte + n * d * kv * dbyte
  BY <1>1, ProductLayer DEF AttentionSum
<1>3. (n * kv * d * dbyte + n * d * kv * dbyte) * t = 2 * (kv * ((n * t) * d) * dbyte)
  BY <1>1
<1> QED BY <1>2, <1>3


\* The work of a decoder that one device does alone.
AllWork(model, batch, q, kv) == WeightsSum(model, 1, batch, q, Flops) + HeadsSum(model, 1, batch, q, kv, Flops)

\* All devices together do the work of one that has all of the model.
LEMMA DecoderWork ==
  ASSUME NEW model \in Models, NEW devs \in Nat \ {0}, NEW batch \in Nat, NEW q \in Nat,
         NEW kv \in Nat, NEW gen \in BOOLEAN, NEW attn_on_hetero \in BOOLEAN,
         model.hdim % devs = 0, model.num_heads % devs = 0,
         NEW s, s = decoder(model, devs, batch, q, kv, gen, attn_on_hetero)
  PROVE  Work(s) * devs = AllWork(model, batch, q, kv)
<1> DEFINE fc(d) == WeightsSum(model, d, batch, q, Flops)
           mm(d) == HeadsSum(model, d, batch, q, kv, Flops)
<1>1. Work(s) = fc(devs) + mm(devs) /\ fc(devs) \in Int /\ mm(devs) \in Int
  <2>1. s \in Seq(Built) /\ OfLayers(Products, s, Flops) = fc(devs) + mm(devs) /\ fc(devs) \in Int
          /\ mm(devs) \in Int
    BY LayerValues, DecoderParts
  <2>2. Work(s) = OfLayers(Products, s, Flops)
    BY <2>1, WorkOfBuilt
  <2> QED BY <2>1, <2>2
<1>2. /\ model.hdim \in Nat /\ model.num_heads \in Nat \ {0} /\ model.ff_scale \in Nat /\ batch * q \in Nat
  BY ModelTypes, Products2
<1>3. fc(devs) * devs = fc(1)
  <2> DEFINE p == model.hdim \div devs
             o == model.hdim \div 1
  <2>1. p \in Nat /\ o \in Nat /\ o = p * devs
    BY <1>2, Divided
  <2> HIDE DEF p, o
  <2> DEFINE rows == batch * q
  <2>2. rows \in Nat
    BY <1>2
  <2> HIDE DEF rows
  <2>3. Weights(model, rows, p, Flops) * devs = Weights(model, rows, o, Flops)
    BY <2>1, <2>2, WeightsWork
  <2> QED BY <2>3 DEF WeightsSum, p, o, rows
<1>4. /\ heads(model, devs, batch) \in Nat /\ heads(model, 1, batch) \in Nat
      /\ heads(model, 1, batch) = heads(model, devs, batch) * devs
  <2> DEFINE a == model.num_heads \div devs
  <2>1. a \in Nat /\ a * devs = model.num_heads /\ model.num_heads \div 1 = model.num_heads
    BY <1>2, Divided
  <2>2. heads(model, devs, batch) = a * batch /\ heads(model, 1, batch) = (a * devs) * batch
    BY <2>1 DEF heads
  <2> HIDE DEF a
  <2>3. (a * batch) * devs = (a * devs) * batch /\ a * batch \in Nat /\ (a * devs) * batch \in Nat
    BY <1>2, <2>1, Products2
  <2> QED BY <2>2, <2>3
<1>5. mm(devs) * devs = mm(1)
  <2> DEFINE d == model.hdim \div model.num_heads
             n == heads(model, devs, batch)
             o == heads(model, 1, batch)
  <2>1. d \in Nat /\ n \in Nat /\ o \in Nat /\ o = n * devs
    BY <1>2, <1>4
  <2> HIDE DEF d, n, o
  <2>2. AttentionSum(q, kv, d, n, Flops) * devs = AttentionSum(q, kv, d, o, Flops)
    BY <2>1, HeadsWork
  <2> QED BY <2>2 DEF HeadsSum, d, n, o
<1> HIDE DEF fc, mm
<1>6. (fc(devs) + mm(devs)) * devs = fc(devs) * devs + mm(devs) * devs
  BY <1>1
<1>7. Work(s) * devs = fc(1) + mm(1)
  BY <1>1, <1>3, <1>5, <1>6
<1> QED BY <1>7 DEF AllWork, fc, mm

\* All devices together keep the weights, and the keys and values.
LEMMA DecoderKept ==
  ASSUME NEW model \in Models, NEW devs \in Nat \ {0}, NEW batch \in Nat, NEW q \in Nat,
         NEW kv \in Nat, NEW gen \in BOOLEAN, NEW attn_on_hetero \in BOOLEAN,
         model.hdim % devs = 0, model.num_heads % devs = 0,
         NEW s, s = decoder(model, devs, batch, q, kv, gen, attn_on_hetero)
  PROVE  /\ Kept("FC", s) * devs = WeightBytes(model, model.hdim)
         /\ Kept("MATMUL", s) * devs = ValueBytes(HeadColumns(model), batch, kv)
<1> DEFINE fc == WeightsSum(model, devs, batch, q, Second)
           mm == HeadsSum(model, devs, batch, q, kv, Second)
<1>1. Kept("FC", s) = fc /\ Kept("MATMUL", s) = mm
  <2>1. s \in Seq(Built) /\ OfLayers({"FC"}, s, Second) = fc /\ OfLayers({"MATMUL"}, s, Second) = mm
    BY LayerValues, DecoderParts
  <2>2. Kept("FC", s) = OfLayers({"FC"}, s, Second) /\ Kept("MATMUL", s) = OfLayers({"MATMUL"}, s, Second)
    BY <2>1, WorkOfBuilt
  <2> QED BY <2>1, <2>2
<1>2. /\ model.hdim \in Nat /\ model.num_heads \in Nat \ {0} /\ model.ff_scale \in Nat /\ batch * q \in Nat
  BY ModelTypes, Products2
<1>3. fc * devs = WeightBytes(model, model.hdim)
  <2> DEFINE p == model.hdim \div devs
             rows == batch * q
  <2>1. p \in Nat /\ model.hdim = p * devs /\ rows \in Nat
    BY <1>2, Divided
  <2>2. fc = Weights(model, rows, p, Second)
    BY DEF WeightsSum
  <2> HIDE DEF p, rows, fc
  <2> DEFINE h == model.hdim
  <2>3. h \in Nat /\ h = p * devs
    BY <1>2, <2>1
  <2> HIDE DEF h
  <2>4. Weights(model, rows, p, Second) * devs
          = WeightBytes(model, h)
    BY <2>1, <2>3, WeightsKept
  <2> QED BY <2>2, <2>4 DEF h
<1>4. mm * devs = ValueBytes(HeadColumns(model), batch, kv)
  <2> DEFINE d == model.hdim \div model.num_heads
             a == model.num_heads \div devs
             n == heads(model, devs, batch)
             c == HeadColumns(model)
  <2>1. /\ d \in Nat /\ c = d * model.num_heads
        /\ a \in Nat /\ a * devs = model.num_heads
    <3>1. model.num_heads % devs = 0 /\ devs \in Nat \ {0}
      OBVIOUS
    <3>2. a \in Nat /\ a * devs = model.num_heads
      BY <1>2, <3>1, Divided
    <3>3. d \in Nat
      BY <1>2
    <3> QED BY <3>2, <3>3 DEF HeadColumns
  <2>2. n = a * batch /\ mm = AttentionSum(q, kv, d, n, Second)
    BY DEF HeadsSum, heads
  <2> HIDE DEF d, a, n, mm, c
  <2> DEFINE o == n * devs
  <2>3. n \in Nat
    BY <2>1, <2>2, Products2
  <2>4. o \in Nat /\ o = n * devs
    BY <2>3
  <2> HIDE DEF o
  <2>5. AttentionSum(q, kv, d, n, Second) * devs = 2 * (kv * (o * d) * dbyte)
    BY <2>1, <2>3, <2>4, HeadsKept
  <2>6. o * d = batch * c
    <3>1. ((a * batch) * devs) * d = batch * (d * (a * devs))
      BY <2>1
    <3> QED BY <2>1, <2>2, <2>4, <3>1
  <2> QED BY <2>2, <2>5, <2>6 DEF ValueBytes, c
<1> QED BY <1>1, <1>3, <1>4

\* The work of a device that has all of the model.
LEMMA WholeWork ==
  ASSUME NEW model \in Models, NEW batch \in Nat, NEW q \in Nat,
         NEW kv \in Nat, NEW gen \in BOOLEAN, NEW one \in Nat \ {0}, one = 1, NEW no \in BOOLEAN,
         NEW s, s = decoder(model, one, batch, q, kv, gen, no)
  PROVE  Work(s) = AllWork(model, batch, q, kv)
<1>3. gen \in BOOLEAN /\ no \in BOOLEAN
  OBVIOUS
<1>4. s \in Seq(Built) /\ OfLayers(Products, s, Flops)
        = WeightsSum(model, one, batch, q, Flops) + HeadsSum(model, one, batch, q, kv, Flops)
  BY <1>3, LayerValues, DecoderParts
<1>5. Work(s) = OfLayers(Products, s, Flops)
  BY <1>4, WorkOfBuilt
<1> QED BY <1>4, <1>5 DEF AllWork

\* The positions that the last stage of the generation attends to.
LastPositions(lin, lout) == lin + lout - 1

\* What the formula for the required memory says of the weights, and of the
\* keys and values.
LEMMA RequiredMemory ==
  ASSUME NEW model \in Models, NEW batch \in Nat, NEW lin \in Nat, NEW lout \in Nat,
         NEW kv, kv = LastPositions(lin, lout),
         NEW cap, cap = get_required_mem_capacity(model, batch, lin, lout)
  PROVE  /\ cap[1] = WeightBytes(model, model.hdim) * model.ndec
         /\ cap[2] = ValueBytes(model.hdim, batch, kv) * model.ndec
<1> DEFINE h == model.hdim
           l == lin + lout - 1
           m == Matrices(model)
           fs == model.ff_scale
           n == model.ndec
<1>1. /\ cap[1] = n * h * (2 * h + 2 * h + m * fs * h) * dbyte
      /\ cap[2] = n * 2 * l * h * dbyte * batch
      /\ kv = l
  BY DEF get_required_mem_capacity, Matrices, LastPositions
<1>2. h \in Nat /\ m \in Nat /\ fs \in Nat /\ n \in Nat /\ dbyte \in Nat /\ l \in Int
  BY TileAssumption DEF Models, Matrices
<1> HIDE DEF h, l, m, fs, n
<1>3. n * h * (2 * h + 2 * h + m * fs * h) * dbyte = ((4 + m * fs) * (h * h * dbyte)) * n
  BY <1>2
<1>4. n * 2 * l * h * dbyte * batch = (2 * (l * (batch * h) * dbyte)) * n
  BY <1>2
<1> QED BY <1>1, <1>3, <1>4 DEF h, l, m, fs, n, WeightBytes, ValueBytes

LEMMA SameShape ==
  ASSUME NEW x, NEW y, Shape(x) = Shape(y)
  PROVE  get_flops(x) = get_flops(y) /\ get_size(x) = get_size(y) /\ x.type = y.type
<1>1. /\ x.name = y.name /\ x.type = y.type /\ x.m = y.m /\ x.n = y.n /\ x.k = y.k /\ x.numOp = y.numOp
  BY DEF Shape, Layer
<1>2. get_flops(x) = get_flops(y)
  BY <1>1, Zenon DEF get_flops
<1>3. get_size(x) = get_size(y)
  BY <1>1, Zenon DEF get_size
<1> QED BY <1>1, <1>2, <1>3

LEMMA SameWork ==
  ASSUME NEW s, NEW t, Shapes(s) = Shapes(t)
  PROVE  Work(s) = Work(t) /\ \A type : Kept(type, s) = Kept(type, t)
<1>1. DOMAIN s = DOMAIN t
  BY DEF Shapes
<1>2. \A k \in DOMAIN s : Shape(s[k]) = Shape(t[k])
  BY <1>1 DEF Shapes
<1>3. \A k \in DOMAIN s :
        get_flops(s[k]) = get_flops(t[k]) /\ get_size(s[k]) = get_size(t[k]) /\ s[k].type = t[k].type
  BY <1>2, SameShape
<1>4. /\ [k \in DOMAIN s |-> get_flops(s[k])] = [k \in DOMAIN t |-> get_flops(t[k])]
      /\ [k \in DOMAIN s |-> get_size(s[k])[2]] = [k \in DOMAIN t |-> get_size(t[k])[2]]
  BY <1>1, <1>3
<1>5. \A types : {k \in DOMAIN s : s[k].type \in types} = {k \in DOMAIN t : t[k].type \in types}
  BY <1>1, <1>3
<1> QED BY <1>4, <1>5 DEF Work, Kept, Over

LEMMA ReplacedShape ==
  ASSUME NEW s, NEW i \in DOMAIN s, NEW y, Shape(y) = Shape(s[i])
  PROVE  Shapes([s EXCEPT ![i] = y]) = Shapes(s)
BY DEF Shapes

LEMMA RetimedShapes ==
  ASSUME NEW h, NEW w, NEW V, NEW s \in Decoder(h, w, V), NEW f
  PROVE  Shapes(Retimed(s, f)) = Shapes(s)
<1>1. \A k \in DOMAIN s : s[k] \in Layers(h, w, V)
  BY DEF Decoder
<1>2. \A k \in DOMAIN s : Shape([s[k] EXCEPT !.exec_time = f[k]]) = Shape(s[k])
  BY <1>1 DEF Shape, Layers
<1>3. DOMAIN Retimed(s, f) = DOMAIN s /\ \A k \in DOMAIN s : Retimed(s, f)[k] = [s[k] EXCEPT !.exec_time = f[k]]
  BY DEF Retimed
<1> QED BY <1>2, <1>3 DEF Shapes

LEMMA PipelinedShapes ==
  ASSUME NEW h, NEW w, NEW V, NEW s \in Decoder(h, w, V)
  PROVE  Shapes(Pipelined(s)) = Shapes(s)
<1> DEFINE p == pipeline(s)
<1>1. /\ \E W : V \subseteq W /\ p \in Decoder(h, w, W)
      /\ Shapes(p) = Shapes(s)
  BY PipelineRetimes, RetimedType, RetimedShapes
<1>2. PICK W : V \subseteq W /\ p \in Decoder(h, w, W)
  BY <1>1
<1>3. Shapes(ff_parallel(p)) = Shapes(p)
  BY <1>2, ShareRetimes, RetimedShapes
<1> HIDE DEF p
<1> QED BY <1>1, <1>3 DEF Pipelined, p

\* The simulation finds out about layers, it never makes others of them.
AsBuilt(hetero) ==
  /\ Shapes(sum_decoder) = Shapes(build_sum(args.model, tp, args.batch, args.lin, hetero))
  /\ DOMAIN gen_decoder = 1 .. args.lout - 1
  /\ \A s \in DOMAIN gen_decoder :
       Shapes(gen_decoder[s]) = Shapes(decoder(args.model, tp, args.batch, 1, args.lin + s, TRUE, hetero))

BuiltInv ==
  IF pc \in {"main", "set_xpu", "set_accelerator", "build"} THEN sum_decoder = <<>> /\ gen_decoder = <<>>
  ELSE \E hetero \in BOOLEAN : (hetero_name = "PIM" => hetero) /\ AsBuilt(hetero)

LEMMA BuiltStep ==
  ASSUME TypeInv, BuiltInv, Next
  PROVE  BuiltInv'
<1>1. CASE NewSystem \/ set_xpu \/ set_accelerator
  <2>1. /\ pc \in {"main", "set_xpu", "set_accelerator"} /\ UNCHANGED <<sum_decoder, gen_decoder>>
        /\ pc' \in {"set_xpu", "set_accelerator", "build"}
    BY <1>1 DEF NewSystem, set_xpu, set_accelerator, decoders
  <2> QED BY <2>1 DEF BuiltInv
<1>2. CASE Build
  <2>1. PICK hetero \in BOOLEAN : hetero = (hetero_name \in {"CPU", "PIM"})
    <3>1. (hetero_name \in {"CPU", "PIM"}) \in BOOLEAN
      OBVIOUS
    <3> QED BY <3>1, Zenon
  <2>2. /\ pc' = "sum" /\ args' = args /\ tp' = tp /\ hetero_name' = hetero_name
        /\ hetero_name = "PIM" => hetero
        /\ sum_decoder' = build_sum(args.model, tp, args.batch, args.lin, hetero)
        /\ gen_decoder' = [s \in 1 .. args.lout - 1 |->
                             decoder(args.model, tp, args.batch, 1, args.lin + s, TRUE, hetero)]
    BY <1>2, <2>1 DEF Build, build_gen, devices
  <2>3. AsBuilt(hetero)'
    <3>1. DOMAIN gen_decoder' = 1 .. args.lout - 1
      BY <2>2
    <3>2. \A s \in 1 .. args.lout - 1 :
            gen_decoder'[s] = decoder(args.model, tp, args.batch, 1, args.lin + s, TRUE, hetero)
      BY <2>2
    <3> QED BY <2>2, <3>1, <3>2 DEF AsBuilt
  <2> QED BY <2>2, <2>3 DEF BuiltInv
<1>3. CASE SumLayer
  <2> DEFINE x == sum_decoder[idx]
             a == Answer("GPU", x)
             t == IF x.type = "X2G" THEN a.time + Max({wrt_io_busy - time, 0}) ELSE a.time
             y == Computed("GPU", x, t)
  <2>1. /\ pc = "sum" /\ idx \in DOMAIN sum_decoder
        /\ sum_decoder' = [sum_decoder EXCEPT ![idx] = y]
        /\ pc' \in {"sum", "gen", "report"} /\ UNCHANGED <<args, hetero_name, tp, gen_decoder>>
    BY <1>3 DEF SumLayer, TypeInv, LayersTyped, devices
  <2>2. PICK V : BuiltIn(V)
    BY <2>1 DEF TypeInv, LayersTyped
  <2>3. x \in Layers(Heads, Width, V)
    BY <2>1, <2>2 DEF BuiltIn, Decoder
  <2> HIDE DEF t
  <2>4. Shape(y) = Shape(x)
    BY <2>3, ComputedShape
  <2> HIDE DEF y
  <2>5. Shapes(sum_decoder') = Shapes(sum_decoder)
    BY <2>1, <2>4, ReplacedShape
  <2> QED BY <2>1, <2>5 DEF BuiltInv, AsBuilt
<1>4. ASSUME NEW y, Shapes(y) = Shapes(gen_decoder[stage]), stage \in DOMAIN gen_decoder,
             gen_decoder' = [gen_decoder EXCEPT ![stage] = y],
             pc \in {"gen", "pipeline"}, pc' \in {"gen", "pipeline", "report"},
             UNCHANGED <<args, hetero_name, tp, sum_decoder>>
      PROVE  BuiltInv'
  <2>1. DOMAIN gen_decoder' = DOMAIN gen_decoder
    BY <1>4
  <2>2. \A s \in DOMAIN gen_decoder : Shapes(gen_decoder'[s]) = Shapes(gen_decoder[s])
    BY <1>4
  <2>3. \A hetero \in BOOLEAN : AsBuilt(hetero) => AsBuilt(hetero)'
    BY <1>4, <2>1, <2>2 DEF AsBuilt
  <2> QED BY <1>4, <2>3 DEF BuiltInv
<1>5. CASE GenLayer
  <2> DEFINE s == gen_decoder[stage]
             x == s[idx]
             d == IF OnAcc(x) THEN Acc ELSE "GPU"
             t == Answer(d, x).time
             y == Computed(d, x, t)
  <2>1. /\ pc = "gen" /\ stage \in DOMAIN gen_decoder /\ idx \in DOMAIN s
        /\ gen_decoder' = [gen_decoder EXCEPT ![stage] = [s EXCEPT ![idx] = y]]
        /\ pc' \in {"gen", "pipeline", "report"} /\ UNCHANGED <<args, hetero_name, tp, sum_decoder>>
    BY <1>5 DEF GenLayer, NextStage, TypeInv, LayersTyped, devices
  <2>2. PICK V : BuiltIn(V)
    BY <2>1 DEF TypeInv, LayersTyped
  <2>3. x \in Layers(Heads, Width, V)
    BY <1>5, <2>2, GenLayers
  <2> HIDE DEF t, d
  <2>4. Shape(y) = Shape(x)
    BY <2>3, ComputedShape
  <2> HIDE DEF y
  <2>5. Shapes([s EXCEPT ![idx] = y]) = Shapes(s)
    <3> HIDE DEF s
    <3> QED BY <2>1, <2>4, ReplacedShape
  <2> QED BY <1>4, <2>1, <2>5
<1>6. CASE Pipeline
  <2> DEFINE s == gen_decoder[stage]
  <2>1. /\ pc = "pipeline" /\ stage \in DOMAIN gen_decoder
        /\ gen_decoder' = [gen_decoder EXCEPT ![stage] = Pipelined(s)]
        /\ pc' \in {"gen", "pipeline", "report"} /\ UNCHANGED <<args, hetero_name, tp, sum_decoder>>
    BY <1>6 DEF Pipeline, NextStage, Pipelined, TypeInv, LayersTyped, devices
  <2>2. PICK V : BuiltIn(V)
    BY <2>1 DEF TypeInv, LayersTyped
  <2>3. s \in Decoder(Heads, Width, V)
    BY <2>1, <2>2 DEF BuiltIn
  <2>4. Shapes(Pipelined(s)) = Shapes(s)
    BY <2>3, PipelinedShapes
  <2> QED BY <1>4, <2>1, <2>4
<1>7. CASE Report \/ ReportFails \/ LayerFails \/ write_csv
  <2>1. /\ pc \notin {"main", "set_xpu", "set_accelerator", "build"}
        /\ pc' \notin {"main", "set_xpu", "set_accelerator", "build"}
        /\ UNCHANGED <<args, hetero_name, tp, sum_decoder, gen_decoder>>
    BY <1>7 DEF Report, ReportFails, LayerFails, Fail, write_csv, devices, decoders
  <2> QED BY <2>1 DEF BuiltInv, AsBuilt
<1> QED BY <1>1, <1>2, <1>3, <1>5, <1>6, <1>7 DEF Next

LEMMA LayersAsBuilt == Spec => []BuiltInv
<1>1. Init => BuiltInv
  BY DEF Init, BuiltInv
<1>2. BuiltInv /\ UNCHANGED vars => BuiltInv'
  BY DEF BuiltInv, AsBuilt, vars, devices, decoders
<1>3. TypeInv /\ BuiltInv /\ [Next]_vars => BuiltInv'
  BY <1>2, BuiltStep
<1> QED BY <1>1, <1>3, Typed, PTL DEF Spec

-----------------------------------------------------------------------------
(* The layers of the devices and those of the whole model.                 *)

LEMMA BuiltTypes ==
  ASSUME TypeInv, BuiltInv, sum_decoder # <<>> \/ gen_decoder # <<>>
  PROVE  /\ \E hetero \in BOOLEAN : AsBuilt(hetero)
         /\ tp \in Nat \ {0} /\ args.model \in Models
         /\ args.batch \in Nat /\ args.lin \in Nat /\ args.lout \in Nat \ {0}
<1>1. pc \notin {"main", "set_xpu", "set_accelerator", "build"}
  BY DEF BuiltInv
<1> QED BY <1>1, ArgumentTypes DEF BuiltInv, TypeInv, ArgsTyped, DevicesTyped

\* All GPUs together do the work of the matrix products of one that has the
\* whole model, in the summarization and in every stage of the generation,
\* whatever is known of their layers already and wherever the attention runs.
THEOREM WorkIsPreserved == Spec => []WorkPreserved
<1>1. TypeInv /\ BuiltInv => WorkPreserved
  <2> SUFFICES ASSUME TypeInv, BuiltInv, sum_decoder # <<>>, DividesEvenly(tp)
               PROVE  /\ Work(sum_decoder) * tp = Work(build_sum(args.model, 1, args.batch, args.lin, FALSE))
                      /\ \A s \in DOMAIN gen_decoder :
                           Work(gen_decoder[s]) * tp
                             = Work(build_gen(args.model, 1, args.batch, args.lin, args.lout, FALSE)[s])
    BY DEF WorkPreserved
  <2>1. /\ tp \in Nat \ {0} /\ args.model \in Models
        /\ args.batch \in Nat /\ args.lin \in Nat /\ args.lout \in Nat \ {0}
    BY BuiltTypes
  <2>2. PICK hetero \in BOOLEAN : AsBuilt(hetero)
    BY BuiltTypes
  <2>3. args.model.hdim % tp = 0 /\ args.model.num_heads % tp = 0
    BY DEF DividesEvenly
  <2>4. ASSUME NEW q \in Nat, NEW kv \in Nat, NEW gen \in BOOLEAN, NEW layers,
               Shapes(layers) = Shapes(decoder(args.model, tp, args.batch, q, kv, gen, hetero))
        PROVE  Work(layers) * tp = Work(decoder(args.model, 1, args.batch, q, kv, gen, FALSE))
    <3> DEFINE own == decoder(args.model, tp, args.batch, q, kv, gen, hetero)
               whole == decoder(args.model, 1, args.batch, q, kv, gen, FALSE)
    <3>1. gen \in BOOLEAN /\ hetero \in BOOLEAN
      OBVIOUS
    <3>2. Work(layers) = Work(own)
      BY <2>4, SameWork
    <3>3. Work(own) * tp = AllWork(args.model, args.batch, q, kv)
      <4>1. own = decoder(args.model, tp, args.batch, q, kv, gen, hetero)
        OBVIOUS
      <4> HIDE DEF own
      <4> QED BY <2>1, <2>3, <3>1, <4>1, DecoderWork
    <3>4. Work(whole) = AllWork(args.model, args.batch, q, kv)
      <4>1. PICK one \in Nat \ {0} : one = 1
        OBVIOUS
      <4>2. PICK no \in BOOLEAN : no = FALSE
        OBVIOUS
      <4>3. whole = decoder(args.model, one, args.batch, q, kv, gen, no) /\ no \in BOOLEAN
        BY <4>1, <4>2
      <4> HIDE DEF whole
      <4> QED BY <2>1, <3>1, <4>1, <4>3, WholeWork
    <3> QED BY <3>2, <3>3, <3>4
  <2>5. Work(sum_decoder) * tp = Work(build_sum(args.model, 1, args.batch, args.lin, FALSE))
    BY <2>1, <2>2, <2>4 DEF AsBuilt, build_sum
  <2>6. ASSUME NEW s \in DOMAIN gen_decoder
        PROVE  Work(gen_decoder[s]) * tp
                 = Work(build_gen(args.model, 1, args.batch, args.lin, args.lout, FALSE)[s])
    <3>1. s \in 1 .. args.lout - 1 /\ args.lin + s \in Nat /\ 1 \in Nat
      BY <2>1, <2>2 DEF AsBuilt
    <3>2. build_gen(args.model, 1, args.batch, args.lin, args.lout, FALSE)[s]
            = decoder(args.model, 1, args.batch, 1, args.lin + s, TRUE, FALSE)
      BY <3>1 DEF build_gen
    <3>3. Shapes(gen_decoder[s]) = Shapes(decoder(args.model, tp, args.batch, 1, args.lin + s, TRUE, hetero))
      BY <2>2 DEF AsBuilt
    <3>4. Work(gen_decoder[s]) * tp = Work(decoder(args.model, 1, args.batch, 1, args.lin + s, TRUE, FALSE))
      BY <2>4, <3>1, <3>3
    <3> QED BY <3>2, <3>4
  <2> QED BY <2>5, <2>6
<1> QED BY <1>1, LayersAsBuilt, Typed, PTL

\* For every such model, the memory that is said to be required for the
\* weights is what the layers of all GPUs keep of them; and for the keys and
\* values, what the last stage of the generation reads, and what no head has.
THEOREM CapacityIsKept == Spec => []CapacityAgrees
<1>1. TypeInv /\ BuiltInv => CapacityAgrees
  <2> DEFINE cap == get_required_mem_capacity(args.model, args.batch, args.lin, args.lout)
             last == gen_decoder[Len(gen_decoder)]
             kv == args.lin + args.lout - 1
             weights == WeightBytes(args.model, args.model.hdim)
             values == ValueBytes(HeadColumns(args.model), args.batch, kv)
             all == ValueBytes(args.model.hdim, args.batch, kv)
  <2> SUFFICES ASSUME TypeInv, BuiltInv, gen_decoder # <<>>, DividesEvenly(tp)
               PROVE  /\ cap[1] = Kept("FC", sum_decoder) * tp * ndec
                      /\ cap[2] = Kept("MATMUL", last) * tp * ndec + Unused
    BY DEF CapacityAgrees
  <2>1. /\ tp \in Nat \ {0} /\ args.model \in Models
        /\ args.batch \in Nat /\ args.lin \in Nat /\ args.lout \in Nat \ {0}
    BY BuiltTypes
  <2>2. PICK hetero \in BOOLEAN : AsBuilt(hetero)
    BY BuiltTypes
  <2>3. args.model.hdim % tp = 0 /\ args.model.num_heads % tp = 0
    BY DEF DividesEvenly
  <2>4. Kept("FC", sum_decoder) * tp = weights
    <3> DEFINE s == decoder(args.model, tp, args.batch, args.lin, args.lin, FALSE, hetero)
    <3>1. Kept("FC", sum_decoder) = Kept("FC", s)
      BY <2>2, SameWork DEF AsBuilt, build_sum
    <3>2. Kept("FC", s) * tp = weights
      <4>1. PICK no \in BOOLEAN : no = FALSE
        OBVIOUS
      <4>2. s = decoder(args.model, tp, args.batch, args.lin, args.lin, no, hetero)
        BY <4>1
      <4>3. hetero \in BOOLEAN
        OBVIOUS
      <4> HIDE DEF s
      <4> QED BY <2>1, <2>3, <4>2, <4>3, DecoderKept
    <3> QED BY <3>1, <3>2
  <2>5. Kept("MATMUL", last) * tp = values
    <3> DEFINE s == decoder(args.model, tp, args.batch, 1, kv, TRUE, hetero)
    <3>1. Len(gen_decoder) = args.lout - 1 /\ Len(gen_decoder) \in DOMAIN gen_decoder
      <4>1. DOMAIN gen_decoder = 1 .. args.lout - 1
        BY <2>2 DEF AsBuilt
      <4> QED BY <2>1, <4>1
    <3>2. args.lin + (args.lout - 1) = kv /\ kv \in Nat /\ 1 \in Nat
      BY <2>1
    <3>3. Shapes(last) = Shapes(s)
      BY <2>2, <3>1, <3>2 DEF AsBuilt
    <3>4. Kept("MATMUL", last) = Kept("MATMUL", s)
      BY <3>3, SameWork
    <3>5. Kept("MATMUL", s) * tp = values
      <4>1. PICK yes \in BOOLEAN : yes = TRUE
        OBVIOUS
      <4>2. PICK one \in Nat : one = 1
        OBVIOUS
      <4>3. s = decoder(args.model, tp, args.batch, one, kv, yes, hetero)
        BY <4>1, <4>2
      <4>4. hetero \in BOOLEAN
        OBVIOUS
      <4> HIDE DEF s, kv
      <4>5. kv \in Nat
        BY <3>2
      <4> QED BY <2>1, <2>3, <4>3, <4>4, <4>5, DecoderKept
    <3> QED BY <3>4, <3>5
  <2>6. cap[1] = weights * ndec /\ cap[2] = all * ndec
    <3>1. /\ kv = LastPositions(args.lin, args.lout)
          /\ cap = get_required_mem_capacity(args.model, args.batch, args.lin, args.lout)
      BY DEF LastPositions
    <3>2. args.model \in Models /\ args.batch \in Nat /\ args.lin \in Nat /\ args.lout \in Nat
      BY <2>1
    <3> HIDE DEF kv, cap
    <3> QED BY <3>1, <3>2, RequiredMemory DEF ndec
  <2>7. all * ndec = values * ndec + Unused
    <3> DEFINE h == args.model.hdim
               c == HeadColumns(args.model)
               r == h % args.model.num_heads
               n == args.model.ndec
    <3>1. /\ h \in Nat /\ c \in Nat /\ r \in Nat /\ n \in Nat /\ dbyte \in Nat
          /\ kv \in Int /\ args.batch \in Nat /\ h = c + r
      <4>1. /\ h \in Nat /\ args.model.num_heads \in Nat \ {0} /\ n \in Nat
            /\ args.batch \in Nat /\ args.lin \in Nat /\ args.lout \in Nat \ {0} /\ dbyte \in Nat
        BY <2>1, TileAssumption DEF Models
      <4>2. kv \in Int
        BY <4>1
      <4>3. c \in Nat /\ r \in Nat /\ h = c + r
        <5> DEFINE m == args.model.num_heads
                   q == h \div m
        <5>1. c = q * m
          BY DEF HeadColumns
        <5>2. q = h \div m /\ r = h % m
          OBVIOUS
        <5>3. h \in Nat /\ m \in Nat \ {0}
          BY <4>1
        <5> HIDE DEF c, q, r, h, m
        <5>4. q * m \in Nat /\ r \in Nat /\ h = q * m + r
          BY <5>2, <5>3, Rounded
        <5> QED BY <5>1, <5>4
      <4> QED BY <4>1, <4>2, <4>3
    <3>2. Unused = 2 * kv * r * dbyte * args.batch * n
      BY DEF Unused, ndec
    <3>3. all = 2 * (kv * (args.batch * h) * dbyte) /\ values = 2 * (kv * (args.batch * c) * dbyte)
      BY DEF ValueBytes
    <3> HIDE DEF h, c, r, n, kv, all, values
    <3>4. 2 * (kv * (args.batch * (c + r)) * dbyte) * n
            = 2 * (kv * (args.batch * c) * dbyte) * n + 2 * kv * r * dbyte * args.batch * n
      BY <3>1, SMTT(30)
    <3> QED BY <3>1, <3>2, <3>3, <3>4 DEF n, ndec
  <2> QED BY <2>4, <2>5, <2>6, <2>7
<1> QED BY <1>1, LayersAsBuilt, Typed, PTL

-----------------------------------------------------------------------------
(* The parts of a decoder in the pipeline: a stage of the generation whose *)
(* attention runs on the PIM devices.                                      *)

PartNames == {"qkv", "comm_x2g", "score", "softmax", "context", "proj"}

\* Where the parts are; the layers behind them are none.
PartsPlaced(s) ==
  /\ 1 .. 7 \subseteq DOMAIN s
  /\ \A k \in DOMAIN s :
       /\ s[k].name = "qkv" <=> k = 1
       /\ s[k].name = "comm_x2g" <=> k \in {2, 6}
       /\ s[k].name = "score" <=> k = 3
       /\ s[k].name = "softmax" <=> k = 4
       /\ s[k].name = "context" <=> k = 5
       /\ s[k].name = "proj" <=> k = 7
       /\ s[k].type = "SOFTMAX" <=> k = 4

Others == {x \in Built : x.name \notin PartNames /\ x.type # "SOFTMAX"}

\* A decoder begins with the layers of f, and others follow.
BeginsWith(s, f) ==
  /\ s \in Seq(Built) /\ Len(s) >= Len(f)
  /\ \A k \in 1 .. Len(f) : s[k] = f[k]
  /\ \A k \in 1 .. Len(s) : k > Len(f) => s[k] \in Others

LEMMA OthersFollow ==
  ASSUME NEW f \in Seq(Built), NEW s, BeginsWith(s, f), NEW t \in Seq(Others)
  PROVE  BeginsWith(s \o t, f)
<1> DEFINE u == s \o t
<1>1. Others \subseteq Built
  BY DEF Others
<1>2. t \in Seq(Built) /\ s \in Seq(Built)
  BY <1>1 DEF BeginsWith
<1>3. /\ Len(s) \in Nat /\ Len(t) \in Nat /\ Len(f) \in Nat
      /\ u \in Seq(Built) /\ Len(u) = Len(s) + Len(t)
      /\ \A k \in 1 .. Len(u) : u[k] = IF k <= Len(s) THEN s[k] ELSE t[k - Len(s)]
  BY <1>2, ConcatProperties, LenProperties
<1>4. \A k \in 1 .. Len(t) : t[k] \in Others
  BY ElementOfSeq
<1> HIDE DEF u
<1>5. /\ Len(u) >= Len(f)
      /\ \A k \in 1 .. Len(f) : u[k] = f[k]
  BY <1>3 DEF BeginsWith
<1>6. ASSUME NEW k \in 1 .. Len(u), k > Len(f) PROVE u[k] \in Others
  <2>1. CASE k <= Len(s)
    BY <1>3, <1>6, <2>1 DEF BeginsWith
  <2>2. CASE ~ (k <= Len(s))
    <3>1. k - Len(s) \in 1 .. Len(t)
      BY <1>3, <2>2
    <3> QED BY <1>3, <1>4, <2>2, <3>1
  <2> QED BY <2>1, <2>2
<1>7. BeginsWith(u, f)
  BY <1>3, <1>5, <1>6 DEF BeginsWith
<1> QED BY <1>7 DEF u

LEMMA OtherLayer ==
  ASSUME NEW name \in LayerNames \ PartNames, NEW type \in LayerTypes \ {"SOFTMAX"}, NEW m \in Nat, NEW n \in Nat,
         NEW k \in Nat, NEW numOp \in Nat
  PROVE  Layer(name, type, m, n, k, numOp) \in Others
BY DEF Layer, Built, Others

LEMMA OthersFeedForward ==
  ASSUME NEW model \in Models, NEW r \in Nat, NEW c \in Nat
  PROVE  feed_forward(model, r, c) \in Seq(Others)
<1> DEFINE f1 == Layer("ff1", "FC", r, c, model.hdim, 1)
           f2 == Layer("ff2", "FC", r, c, model.hdim, 1)
           f3 == Layer("ff3", "FC", r, model.hdim, c, 1)
           g2 == Layer("ff2", "FC", r, model.hdim, c, 1)
           Act(name) == Layer(name, "ACT", r, c, 1, 1)
<1>1. /\ model.hdim \in Nat /\ 1 \in Nat
      /\ {"ff1", "ff2", "ff3", "glu", "relu", "gelu"} \subseteq LayerNames \ PartNames
      /\ {"FC", "ACT"} \subseteq LayerTypes \ {"SOFTMAX"}
  BY DEF Models, LayerNames, LayerTypes, PartNames
<1>2. /\ f1 \in Others /\ f2 \in Others /\ f3 \in Others /\ g2 \in Others
      /\ Act("glu") \in Others /\ Act("relu") \in Others /\ Act("gelu") \in Others
  BY <1>1, OtherLayer
<1>3. \/ feed_forward(model, r, c) = <<f1, f2, Act("glu"), f3>>
      \/ feed_forward(model, r, c) = <<f1, Act("relu"), g2>>
      \/ feed_forward(model, r, c) = <<f1, Act("gelu"), g2>>
  BY DEF feed_forward
<1> DEFINE u1 == Act("glu")
           u2 == Act("relu")
           u3 == Act("gelu")
<1>4. /\ u1 \in Others /\ u2 \in Others /\ u3 \in Others
      /\ \/ feed_forward(model, r, c) = <<f1, f2, u1, f3>>
         \/ feed_forward(model, r, c) = <<f1, u2, g2>>
         \/ feed_forward(model, r, c) = <<f1, u3, g2>>
  BY <1>2, <1>3
<1> HIDE DEF f1, f2, f3, g2, u1, u2, u3, Act
<1>5. CASE feed_forward(model, r, c) = <<f1, f2, u1, f3>>
  BY <1>2, <1>4, <1>5
<1>6. CASE feed_forward(model, r, c) = <<f1, u2, g2>>
  BY <1>2, <1>4, <1>6
<1>7. CASE feed_forward(model, r, c) = <<f1, u3, g2>>
  BY <1>2, <1>4, <1>7
<1> QED BY <1>4, <1>5, <1>6, <1>7

\* The sequence of seven.
LEMMA FrontOf ==
  ASSUME NEW S, NEW a \in S, NEW b \in S, NEW c \in S, NEW d \in S, NEW e \in S, NEW g \in S, NEW h \in S
  PROVE  LET f == <<a>> \o <<b>> \o <<c, d, e>> \o <<g>> \o <<h>> IN
         /\ f \in Seq(S) /\ Len(f) = 7
         /\ f[1] = a /\ f[2] = b /\ f[3] = c /\ f[4] = d /\ f[5] = e /\ f[6] = g /\ f[7] = h
OBVIOUS

\* Where the attention of a generation runs on another device.
LEMMA HeteroDecoder ==
  ASSUME NEW model \in Models, NEW devs \in Nat \ {0}, NEW batch \in Nat, NEW q \in Nat, NEW kv \in Nat,
         NEW gen \in BOOLEAN, gen, NEW hetero \in BOOLEAN, hetero
  PROVE  PartsPlaced(decoder(model, devs, batch, q, kv, gen, hetero))
<1> DEFINE part == model.hdim \div devs
           dhead == model.hdim \div model.num_heads
           nhead == heads(model, devs, batch)
           rows == batch * q
           wide == model.ff_scale * part
           g2g == Layer("comm_g2g", "G2G", rows, model.hdim, 1, 1)
           Norm(norm) == Layer(norm, "NORM", rows, model.hdim, 1, 1)
           Reduce(norm) == <<g2g, Norm(norm)>>
           qkv == Layer("qkv", "FC", rows, 3 * part, model.hdim, 1)
           x2g == Layer("comm_x2g", "X2G", rows, 3 * part, 1, 1)
           g2x == Layer("comm_x2g", "X2G", 1, dhead, 1, nhead)
           score == Layer("score", "MATMUL", q, kv, dhead, nhead)
           softmax == Layer("softmax", "SOFTMAX", q, kv, 1, nhead)
           context == Layer("context", "MATMUL", q, dhead, kv, nhead)
           proj == Layer("proj", "FC", rows, model.hdim, part, 1)
           f == <<qkv>> \o <<x2g>> \o <<score, softmax, context>> \o <<g2x>> \o <<proj>>
           ff == feed_forward(model, rows, wide)
           s == decoder(model, devs, batch, q, kv, gen, hetero)
<1>1. /\ model.hdim \in Nat \ {0} /\ model.num_heads \in Nat \ {0} /\ model.ff_scale \in Nat \ {0}
  BY DEF Models
<1>2. /\ part \in Nat /\ dhead \in Nat /\ rows \in Nat /\ 3 * part \in Nat
      /\ model.hdim \in Nat /\ 1 \in Nat
  BY <1>1
<1>3. nhead \in Nat /\ wide \in Nat
  <2>1. model.num_heads \div devs \in Nat
    BY <1>1
  <2> QED BY <1>1, <1>2, <2>1, Products2 DEF heads
<1>4. s = f \o Reduce("norm1") \o ff \o Reduce("norm2")
  BY DEF decoder
<1> HIDE DEF rows, part, dhead, nhead, wide, s
<1>5. ASSUME NEW name \in LayerNames, NEW type \in LayerTypes, NEW m \in Nat, NEW n \in Nat,
             NEW k \in Nat, NEW numOp \in Nat
      PROVE  LET x == Layer(name, type, m, n, k, numOp) IN
             x \in Built /\ x.name = name /\ x.type = type
  BY DEF Layer, Built
<1>6. /\ {"qkv", "comm_x2g", "score", "softmax", "context", "proj"} \subseteq LayerNames
      /\ {"FC", "MATMUL", "SOFTMAX", "X2G"} \subseteq LayerTypes
  BY DEF LayerNames, LayerTypes
<1> DEFINE Good(x, name, type) == x \in Built /\ x.name = name /\ x.type = type
<1>7. /\ Good(qkv, "qkv", "FC") /\ Good(x2g, "comm_x2g", "X2G") /\ Good(score, "score", "MATMUL")
      /\ Good(softmax, "softmax", "SOFTMAX") /\ Good(context, "context", "MATMUL")
      /\ Good(g2x, "comm_x2g", "X2G") /\ Good(proj, "proj", "FC")
  <2> HIDE DEF Good
  <2>1. ASSUME NEW name \in LayerNames, NEW type \in LayerTypes, NEW m \in Nat, NEW n \in Nat,
               NEW k \in Nat, NEW numOp \in Nat
        PROVE  Good(Layer(name, type, m, n, k, numOp), name, type)
    BY <1>5 DEF Good
  <2>2. /\ Good(qkv, "qkv", "FC") /\ Good(x2g, "comm_x2g", "X2G") /\ Good(proj, "proj", "FC")
    BY <1>2, <1>6, <2>1
  <2>3. /\ Good(score, "score", "MATMUL") /\ Good(softmax, "softmax", "SOFTMAX")
        /\ Good(context, "context", "MATMUL") /\ Good(g2x, "comm_x2g", "X2G")
    BY <1>2, <1>3, <1>6, <2>1
  <2> QED BY <2>2, <2>3
<1>8. \A norm \in {"norm1", "norm2"} : Reduce(norm) \in Seq(Others)
  <2>1. /\ {"comm_g2g", "norm1", "norm2"} \subseteq LayerNames \ PartNames
        /\ {"G2G", "NORM"} \subseteq LayerTypes \ {"SOFTMAX"}
    BY DEF LayerNames, LayerTypes, PartNames
  <2>2. g2g \in Others /\ \A norm \in {"norm1", "norm2"} : Norm(norm) \in Others
    BY <1>2, <2>1, OtherLayer
  <2> HIDE DEF g2g, Norm
  <2> QED BY <2>2
<1>9. ff \in Seq(Others)
  BY <1>2, <1>3, OthersFeedForward
<1> HIDE DEF qkv, x2g, score, softmax, context, g2x, proj, ff, Reduce
<1>10. /\ f \in Seq(Built) /\ Len(f) = 7
       /\ f[1] = qkv /\ f[2] = x2g /\ f[3] = score /\ f[4] = softmax /\ f[5] = context /\ f[6] = g2x
       /\ f[7] = proj
  BY <1>7, FrontOf
<1> HIDE DEF f
<1>11. BeginsWith(f, f)
  BY <1>10 DEF BeginsWith
<1>12. BeginsWith(s, f)
  <2> DEFINE s1 == f \o Reduce("norm1")
             s2 == s1 \o ff
             s3 == s2 \o Reduce("norm2")
             r1 == Reduce("norm1")
             r2 == Reduce("norm2")
  <2>1. s1 = f \o r1 /\ s2 = s1 \o ff /\ s3 = s2 \o r2 /\ s = s3
    BY <1>4
  <2>2. r1 \in Seq(Others) /\ r2 \in Seq(Others)
    BY <1>8
  <2> HIDE DEF s1, s2, s3, r1, r2
  <2>3. BeginsWith(s1, f)
    BY <1>10, <1>11, <2>1, <2>2, OthersFollow
  <2>4. BeginsWith(s2, f)
    BY <1>9, <1>10, <2>1, <2>3, OthersFollow
  <2> QED BY <1>10, <2>1, <2>2, <2>4, OthersFollow
<1>13. PartsPlaced(s)
  <2>1. /\ Len(s) \in Nat /\ DOMAIN s = 1 .. Len(s) /\ Len(s) >= 7
        /\ s[1] = qkv /\ s[2] = x2g /\ s[3] = score /\ s[4] = softmax /\ s[5] = context /\ s[6] = g2x
        /\ s[7] = proj
        /\ \A k \in 1 .. Len(s) : k > 7 => s[k] \in Others
    BY <1>10, <1>12, LenProperties DEF BeginsWith
  <2>2. 1 .. 7 \subseteq DOMAIN s
    BY <2>1
  <2> SUFFICES ASSUME NEW k \in DOMAIN s
               PROVE  /\ s[k].name = "qkv" <=> k = 1
                      /\ s[k].name = "comm_x2g" <=> k \in {2, 6}
                      /\ s[k].name = "score" <=> k = 3
                      /\ s[k].name = "softmax" <=> k = 4
                      /\ s[k].name = "context" <=> k = 5
                      /\ s[k].name = "proj" <=> k = 7
                      /\ s[k].type = "SOFTMAX" <=> k = 4
    BY <2>2 DEF PartsPlaced
  <2>3. CASE k > 7
    <3>1. s[k].name \notin PartNames /\ s[k].type # "SOFTMAX"
      BY <2>1, <2>3 DEF Others
    <3> QED BY <2>1, <2>3, <3>1 DEF PartNames
  <2>4. CASE ~ (k > 7)
    <3>1. k \in {1, 2, 3, 4, 5, 6, 7}
      BY <2>1, <2>4
    <3> QED BY <1>7, <2>1, <3>1
  <2> QED BY <2>3, <2>4
<1> QED BY <1>13 DEF s

\* A layer keeps its place, its name and its type.
LEMMA SamePlaces ==
  ASSUME NEW s, NEW t, Shapes(s) = Shapes(t), PartsPlaced(t)
  PROVE  PartsPlaced(s)
<1>1. DOMAIN s = DOMAIN t
  BY DEF Shapes
<1>2. \A k \in DOMAIN s : Shape(s[k]) = Shape(t[k])
  BY <1>1 DEF Shapes
<1>3. \A k \in DOMAIN s : s[k].name = t[k].name /\ s[k].type = t[k].type
  BY <1>2 DEF Shape, Layer
<1> QED BY <1>1, <1>3 DEF PartsPlaced

LEMMA SumOfOne ==
  ASSUME NEW f, NEW k, f[k] \in Int
  PROVE  SumFunctionOnSet(f, {k}) = f[k]
<1>1. IsFiniteSet({k}) /\ {k} \ {k} = {}
  BY FS_Singleton
<1>2. SumFunctionOnSet(f, {k}) = f[k] + SumFunctionOnSet(f, {k} \ {k})
  BY <1>1, SumElement
<1> QED BY <1>1, <1>2, SumEmpty

LEMMA SumOfTwo ==
  ASSUME NEW f, NEW k, NEW l, k # l, f[k] \in Int, f[l] \in Int
  PROVE  SumFunctionOnSet(f, {k, l}) = f[k] + f[l]
<1>1. IsFiniteSet({k} \cup {l})
  BY FS_Singleton, FS_Union
<1>2. {k} \cup {l} = {k, l} /\ {k, l} \ {k} = {l}
  OBVIOUS
<1>3. IsFiniteSet({k, l})
  BY <1>1, <1>2
<1>4. \A x \in {k, l} : f[x] \in Int
  OBVIOUS
<1>5. SumFunctionOnSet(f, {k, l}) = f[k] + SumFunctionOnSet(f, {k, l} \ {k})
  BY <1>3, <1>4, SumElement
<1> QED BY <1>2, <1>5, SumOfOne

\* The parts are the times at their places.
LEMMA PartsOf ==
  ASSUME NEW s, PartsPlaced(s), \A k \in 1 .. 7 : s[k].exec_time \in Int
  PROVE  /\ Parts(s) = [qkv |-> s[1].exec_time, proj |-> s[7].exec_time,
                        x2g |-> s[2].exec_time + s[6].exec_time,
                        attn |-> s[3].exec_time + s[5].exec_time + s[4].exec_time]
         /\ TimeOf(s, "type", {"SOFTMAX"}) = s[4].exec_time
<1> DEFINE f == [k \in DOMAIN s |-> s[k].exec_time]
           Of(name) == TimeOf(s, "name", {name})
<1>1. \A k \in 1 .. 7 : f[k] = s[k].exec_time /\ f[k] \in Int
  BY DEF PartsPlaced
<1>2. /\ {k \in DOMAIN s : s[k]["name"] \in {"qkv"}} = {1}
      /\ {k \in DOMAIN s : s[k]["name"] \in {"comm_x2g"}} = {2, 6}
      /\ {k \in DOMAIN s : s[k]["name"] \in {"score"}} = {3}
      /\ {k \in DOMAIN s : s[k]["name"] \in {"softmax"}} = {4}
      /\ {k \in DOMAIN s : s[k]["name"] \in {"context"}} = {5}
      /\ {k \in DOMAIN s : s[k]["name"] \in {"proj"}} = {7}
      /\ {k \in DOMAIN s : s[k]["type"] \in {"SOFTMAX"}} = {4}
  BY DEF PartsPlaced
<1>3. /\ Of("qkv") = SumFunctionOnSet(f, {1}) /\ Of("comm_x2g") = SumFunctionOnSet(f, {2, 6})
      /\ Of("score") = SumFunctionOnSet(f, {3}) /\ Of("softmax") = SumFunctionOnSet(f, {4})
      /\ Of("context") = SumFunctionOnSet(f, {5}) /\ Of("proj") = SumFunctionOnSet(f, {7})
      /\ TimeOf(s, "type", {"SOFTMAX"}) = SumFunctionOnSet(f, {4})
  BY <1>2 DEF TimeOf
<1> HIDE DEF f
<1>4. /\ \A k \in 1 .. 7 : SumFunctionOnSet(f, {k}) = f[k]
      /\ SumFunctionOnSet(f, {2, 6}) = f[2] + f[6]
  <2>1. \A k \in 1 .. 7 : SumFunctionOnSet(f, {k}) = f[k]
    BY <1>1, SumOfOne
  <2>2. PICK k \in 1 .. 7, l \in 1 .. 7 : k = 2 /\ l = 6
    OBVIOUS
  <2>3. k # l /\ f[k] \in Int /\ f[l] \in Int
    BY <1>1, <2>2
  <2>4. SumFunctionOnSet(f, {k, l}) = f[k] + f[l]
    BY <2>3, SumOfTwo, Zenon
  <2> QED BY <2>1, <2>2, <2>4
<1>5. Parts(s) = [qkv |-> Of("qkv"), proj |-> Of("proj"), x2g |-> Of("comm_x2g"),
                  attn |-> Of("score") + Of("context") + Of("softmax")]
  BY DEF Parts
<1> HIDE DEF Of
<1> QED BY <1>1, <1>3, <1>4, <1>5

\* What the pipeline leaves of the parts; the feed-forward layers are none.
LEMMA PipelinedParts ==
  ASSUME NEW h, NEW w, NEW V, NEW s \in Decoder(h, w, V), PartsPlaced(s),
         \A k \in 1 .. 7 : s[k].exec_time \in Int,
         NEW o, o = Overlap(Parts(s), args.pipeopt), o.qkv \in Int, o.proj \in Int, o.x2g \in Int
  PROVE  Parts(Pipelined(s)) =
           [qkv |-> o.qkv, proj |-> o.proj, x2g |-> o.x2g \div 2 + o.x2g \div 2,
            attn |-> s[3].exec_time + s[5].exec_time]
<1> DEFINE p == pipeline(s)
           r == Pipelined(s)
<1>1. s \in Seq(Layers(h, w, V)) /\ \A k \in DOMAIN s : s[k] \in Layers(h, w, V)
  BY DEF Decoder
<1>2. /\ DOMAIN p = DOMAIN s
      /\ \A k \in DOMAIN s : p[k] = [s[k] EXCEPT !.exec_time = PipelineTime(s)[k]]
  BY PipelineRetimes DEF Retimed
<1>3. \A k \in DOMAIN s : p[k].name = s[k].name /\ p[k].exec_time = PipelineTime(s)[k]
  BY <1>1, <1>2 DEF Layers
<1> HIDE DEF p
<1>4. \A k \in DOMAIN s : k \in 1 .. 7 => s[k].name \notin {"ff1", "ff2", "ff3"}
  <2>1. \A k \in 1 .. 7 : s[k].name \in PartNames
    BY DEF PartsPlaced, PartNames
  <2>2. \A name \in PartNames : name \notin {"ff1", "ff2", "ff3"}
    BY DEF PartNames
  <2> QED BY <2>1, <2>2
<1>5. \A k \in 1 .. 7 : r[k] = p[k]
  <2>1. CASE args.ffopt
    <3>1. r = ff_parallel(p)
      BY <2>1 DEF Pipelined, p
    <3>2. \A k \in DOMAIN p : p[k].name \notin {"ff1", "ff2", "ff3"} => ff_parallel(p)[k] = p[k]
      BY DEF ff_parallel
    <3> QED BY <1>2, <1>3, <1>4, <3>1, <3>2 DEF PartsPlaced
  <2>2. CASE ~ args.ffopt
    BY <2>2 DEF Pipelined, p
  <2> QED BY <2>1, <2>2
<1>6. PartsPlaced(r)
  BY PipelinedShapes, SamePlaces
<1>7. \A k \in 1 .. 7 : k \in DOMAIN s /\ PipelineTime(s)[k] =
        CASE s[k].name \in {"qkv", "proj"} -> o[s[k].name]
          [] s[k].name = "comm_x2g" -> o.x2g \div 2
          [] s[k].name = "softmax" -> 0
          [] OTHER -> s[k].exec_time
  BY DEF PipelineTime, PartsPlaced
<1>8. /\ s[1].name = "qkv" /\ s[2].name = "comm_x2g" /\ s[3].name = "score" /\ s[4].name = "softmax"
      /\ s[5].name = "context" /\ s[6].name = "comm_x2g" /\ s[7].name = "proj"
  BY DEF PartsPlaced
<1> HIDE DEF r
<1>9. /\ r[1].exec_time = o.qkv /\ r[2].exec_time = o.x2g \div 2 /\ r[3].exec_time = s[3].exec_time
      /\ r[4].exec_time = 0 /\ r[5].exec_time = s[5].exec_time /\ r[6].exec_time = o.x2g \div 2
      /\ r[7].exec_time = o.proj
  <2>1. \A k \in 1 .. 7 : r[k].exec_time = PipelineTime(s)[k]
    BY <1>3, <1>5, <1>7
  <2> QED BY <1>7, <1>8, <2>1
<1>10. o.x2g \div 2 \in Int
  OBVIOUS
<1>11. \A k \in 1 .. 7 : r[k].exec_time \in Int
  <2>1. \A k \in 1 .. 7 : k = 1 \/ k = 2 \/ k = 3 \/ k = 4 \/ k = 5 \/ k = 6 \/ k = 7
    OBVIOUS
  <2> QED BY <1>9, <1>10, <2>1
<1>12. Parts(r) = [qkv |-> r[1].exec_time, proj |-> r[7].exec_time,
                   x2g |-> r[2].exec_time + r[6].exec_time,
                   attn |-> r[3].exec_time + r[5].exec_time + r[4].exec_time]
  BY <1>6, <1>11, PartsOf
<1>13. s[3].exec_time + s[5].exec_time + 0 = s[3].exec_time + s[5].exec_time
  BY DEF PartsPlaced
<1> QED BY <1>9, <1>12, <1>13 DEF r

LEMMA OverlapType ==
  ASSUME EnoughHeads, NEW p \in [qkv : Nat, proj : Nat, x2g : Nat, attn : Nat], NEW level \in BOOLEAN
  PROVE  LET o == Overlap(p, level) IN o.qkv \in Int /\ o.proj \in Int /\ o.x2g \in Int
<1> DEFINE fc == p.qkv + p.proj
           x2g == IF p.attn > p.x2g THEN Ratio(p.x2g) ELSE p.x2g - Hides(p.attn)
           o == Overlap(p, level)
           Whole(r) == r.qkv \in Int /\ r.proj \in Int /\ r.x2g \in Int
<1>1. p.qkv \in Nat /\ p.proj \in Nat /\ p.x2g \in Nat /\ p.attn \in Nat
  OBVIOUS
<1>2. /\ Ratio(p.qkv) \in Int /\ Ratio(p.proj) \in Int /\ Ratio(p.x2g) \in Int /\ Hides(p.attn) \in Int
      /\ x2g \in Int
  BY <1>1, RatioBounds
<1>3. (Hides(p.attn) * 3) \div 4 \in Int /\ Hides(p.attn) \div 4 \in Int
  BY <1>2
<1> DEFINE a == (Hides(p.attn) * 3) \div 4
           b == Hides(p.attn) \div 4
<1>4. \/ o = [qkv |-> p.qkv - a, proj |-> p.proj - b, x2g |-> Ratio(p.x2g)]
      \/ o = [qkv |-> Ratio(p.qkv), proj |-> Ratio(p.proj), x2g |-> x2g]
      \/ o = [qkv |-> p.qkv, proj |-> p.proj, x2g |-> x2g]
  <2>1. CASE level /\ p.attn <= fc /\ fc > p.x2g
    BY <2>1 DEF Overlap
  <2>2. CASE level /\ ~ (p.attn <= fc /\ fc > p.x2g)
    BY <2>2 DEF Overlap
  <2>3. CASE ~ level
    BY <2>3 DEF Overlap
  <2> QED BY <2>1, <2>2, <2>3
<1> HIDE DEF o, x2g, a, b
<1>5. Whole(o)
  BY <1>1, <1>2, <1>3, <1>4 DEF a, b
<1> QED BY <1>5 DEF o

\* There are matrix products of the heads in every decoder.
Attends(s) == \E k \in DOMAIN s : s[k].type = "MATMUL"

LEMMA DecoderAttends ==
  ASSUME NEW model \in Models, NEW devs \in Nat \ {0}, NEW batch \in Nat, NEW q \in Nat,
         NEW kv \in Nat, NEW gen \in BOOLEAN, NEW hetero \in BOOLEAN,
         NEW s, s = decoder(model, devs, batch, q, kv, gen, hetero)
  PROVE  Attends(s)
<1> SUFFICES ASSUME \A k \in DOMAIN s : s[k].type # "MATMUL" PROVE FALSE
  BY DEF Attends
<1> DEFINE F == [x \in Built |-> 1]
           types == {"MATMUL"}
           dhead == model.hdim \div model.num_heads
           nhead == heads(model, devs, batch)
           score == Layer("score", "MATMUL", q, kv, dhead, nhead)
           context == Layer("context", "MATMUL", q, dhead, kv, nhead)
<1>1. F \in Values(Built) /\ types \subseteq Products
  BY DEF Values, Products
<1>2. dhead \in Nat /\ nhead \in Nat
  <2>1. model.hdim \in Nat /\ model.num_heads \in Nat \ {0}
    BY DEF Models
  <2>2. model.num_heads \div devs \in Nat
    BY <2>1
  <2> QED BY <2>1, <2>2, Products2 DEF heads
<1>3. score \in Built /\ context \in Built
  <2> HIDE DEF dhead, nhead
  <2> QED BY <1>2 DEF Layer, Built, LayerNames, LayerTypes
<1>4. F[score] = 1 /\ F[context] = 1
  BY <1>3
<1>5. HeadsSum(model, devs, batch, q, kv, F) = F[score] + F[context]
  BY DEF HeadsSum, AttentionSum
<1>6. {k \in DOMAIN s : s[k].type \in types} = {}
  OBVIOUS
<1>7. OfLayers(types, s, F) = 0
  BY <1>6, SumEmpty DEF OfLayers, Over
<1> HIDE DEF F
<1>8. "MATMUL" \in types /\ ~ ("FC" \in types)
  OBVIOUS
<1> HIDE DEF types
<1>9. OfLayers(types, s, F)
        = (IF "FC" \in types THEN WeightsSum(model, devs, batch, q, F) ELSE 0)
          + (IF "MATMUL" \in types THEN HeadsSum(model, devs, batch, q, kv, F) ELSE 0)
  BY <1>1, DecoderLayers
<1> HIDE DEF score, context
<1> QED BY <1>4, <1>5, <1>7, <1>8, <1>9

\* What the pipeline relies on: the times of a stage that is complete are those
\* of the devices, no times of an earlier pipeline; there is a head for every
\* GPU, or the summarization had failed; and the attention is on PIM devices.
Timed(s, n) == \A k \in DOMAIN s : k <= n => s[k].exec_time \in Nat
AttendsOnly(s, n, h) == \A k \in DOMAIN s : k <= n /\ s[k].type = "MATMUL" => h # 0

PipelineInv ==
  /\ pc = "sum" => AttendsOnly(sum_decoder, idx - 1, Heads)
  /\ pc = "gen" => Heads # 0 /\ Timed(gen_decoder[stage], idx - 1)
  /\ pc = "pipeline" => Heads # 0 /\ Timed(gen_decoder[stage], Len(gen_decoder[stage])) /\ hetero_name = "PIM"

LEMMA StageDecoder ==
  ASSUME TypeInv, pc \in {"gen", "pipeline"}
  PROVE  \E V : gen_decoder[stage] \in Decoder(Heads, Width, V)
BY DEF TypeInv, LayersTyped, BuiltIn

LEMMA HeadsEnough ==
  ASSUME TypeInv, pc = "pipeline", Heads # 0
  PROVE  EnoughHeads
<1>1. /\ args.model.num_heads \in Nat \ {0} /\ tp = num_xpu /\ num_xpu \in Nat \ {0} /\ args.batch \in Nat
  BY ArgumentTypes DEF TypeInv, ArgsTyped, DevicesTyped
<1>2. args.model.num_heads \div tp # 0
  <2>1. Heads = (args.model.num_heads \div tp) * args.batch
    BY DEF Heads, heads
  <2> QED BY <1>1, <2>1
<1>3. tp <= args.model.num_heads
  BY <1>1, <1>2
<1> QED BY <1>1, <1>3 DEF EnoughHeads

LEMMA PipelineStep ==
  ASSUME TypeInv, TypeInv', BuiltInv, PipelineInv, Next
  PROVE  PipelineInv'
<1>1. CASE NewSystem \/ set_xpu \/ set_accelerator \/ ReportFails \/ LayerFails \/ write_csv
  <2>1. pc' \in {"set_xpu", "set_accelerator", "build", "failed", "done"}
    BY <1>1 DEF NewSystem, set_xpu, set_accelerator, ReportFails, LayerFails, Fail, write_csv
  <2> QED BY <2>1 DEF PipelineInv
<1>2. ASSUME pc' \in {"sum", "gen", "report", "write"}, idx' = 1, pc' = "gen" => Heads' # 0
      PROVE  PipelineInv'
  <2>1. CASE pc' = "sum"
    <3>1. PICK V : sum_decoder' \in Decoder(Heads, Width, V)'
      BY <2>1 DEF TypeInv, LayersTyped, BuiltIn
    <3>2. AttendsOnly(sum_decoder', 1 - 1, Heads')
      <4>1. DOMAIN sum_decoder' = 1 .. Len(sum_decoder') /\ Len(sum_decoder') \in Nat
        BY <3>1, LenProperties DEF Decoder
      <4> QED BY <4>1 DEF AttendsOnly
    <3> QED BY <1>2, <2>1, <3>2 DEF PipelineInv
  <2>2. CASE pc' = "gen"
    <3>1. PICK V : gen_decoder'[stage'] \in Decoder(Heads, Width, V)'
      BY <2>2 DEF TypeInv, LayersTyped, BuiltIn
    <3>2. Timed(gen_decoder'[stage'], 1 - 1)
      <4>1. DOMAIN gen_decoder'[stage'] = 1 .. Len(gen_decoder'[stage']) /\ Len(gen_decoder'[stage']) \in Nat
        BY <3>1, LenProperties DEF Decoder
      <4> QED BY <4>1 DEF Timed
    <3> QED BY <1>2, <2>2, <3>2 DEF PipelineInv
  <2> QED BY <1>2, <2>1, <2>2 DEF PipelineInv
<1>3. CASE Build \/ Report
  <2>1. pc' \in {"sum", "gen", "report", "write"} /\ idx' = 1 /\ pc' # "gen"
    BY <1>3 DEF Build, Report, TypeInv, LayersTyped
  <2> QED BY <1>2, <2>1
<1>4. CASE SumLayer
  <2> DEFINE x == sum_decoder[idx]
             a == Answer("GPU", x)
             t == IF x.type = "X2G" THEN a.time + Max({wrt_io_busy - time, 0}) ELSE a.time
             y == Computed("GPU", x, t)
  <2>1. /\ pc = "sum" /\ idx \in DOMAIN sum_decoder /\ ~ NoWork("GPU", x)
        /\ sum_decoder' = [sum_decoder EXCEPT ![idx] = y]
        /\ UNCHANGED <<args, tp>>
        /\ \/ idx < Len(sum_decoder) /\ idx' = idx + 1 /\ pc' = pc
           \/ ~ (idx < Len(sum_decoder)) /\ idx' = 1 /\ pc' \in {"gen", "report"}
    BY <1>4 DEF SumLayer, TypeInv, LayersTyped, devices
  <2>2. PICK V : BuiltIn(V)
    BY <2>1 DEF TypeInv, LayersTyped
  <2>3. /\ x \in Layers(Heads, Width, V) /\ DOMAIN sum_decoder = 1 .. Len(sum_decoder)
        /\ Len(sum_decoder) \in Nat /\ idx \in Nat
    BY <2>1, <2>2, LenProperties DEF BuiltIn, Decoder
  <2> HIDE DEF t
  <2>4. y.type = x.type
    BY <2>3, ComputedKey
  <2>5. x.type = "MATMUL" => Heads # 0
    <3> HIDE DEF x
    <3> QED BY <2>1, <2>3 DEF NoWork, Tiled, Transfers, xPUs, Layers
  <2> HIDE DEF y
  <2>6. AttendsOnly(sum_decoder, idx, Heads)
    <3> SUFFICES ASSUME NEW k \in DOMAIN sum_decoder, k <= idx, sum_decoder[k].type = "MATMUL"
                 PROVE  Heads # 0
      BY DEF AttendsOnly
    <3>1. k = idx \/ k <= idx - 1
      BY <2>3
    <3> QED BY <2>1, <2>5, <3>1 DEF PipelineInv, AttendsOnly
  <2>7. Heads' = Heads
    BY <2>1 DEF Heads
  <2>8. CASE idx < Len(sum_decoder) /\ idx' = idx + 1 /\ pc' = pc
    <3>1. idx' - 1 = idx
      BY <2>3, <2>8
    <3>2. /\ DOMAIN sum_decoder' = DOMAIN sum_decoder
          /\ \A k \in DOMAIN sum_decoder : sum_decoder'[k].type = sum_decoder[k].type
      BY <2>1, <2>4
    <3>3. AttendsOnly(sum_decoder', idx' - 1, Heads')
      BY <2>6, <2>7, <3>1, <3>2 DEF AttendsOnly
    <3> QED BY <2>1, <2>8, <3>3 DEF PipelineInv
  <2>9. CASE ~ (idx < Len(sum_decoder)) /\ idx' = 1 /\ pc' \in {"gen", "report"}
    <3>1. Heads # 0
      <4>1. PICK hetero \in BOOLEAN : AsBuilt(hetero)
        BY <2>1 DEF BuiltInv
      <4>2. PICK no \in BOOLEAN : no = FALSE
        OBVIOUS
      <4> DEFINE s == decoder(args.model, tp, args.batch, args.lin, args.lin, no, hetero)
      <4>3. Shapes(sum_decoder) = Shapes(s)
        BY <4>1, <4>2 DEF AsBuilt, build_sum
      <4>4. Attends(s)
        <5>1. /\ tp \in Nat \ {0} /\ args.model \in Models /\ args.batch \in Nat /\ args.lin \in Nat
          BY <2>1, ArgumentTypes DEF TypeInv, ArgsTyped, DevicesTyped
        <5>2. s = decoder(args.model, tp, args.batch, args.lin, args.lin, no, hetero)
          OBVIOUS
        <5>3. no \in BOOLEAN /\ hetero \in BOOLEAN
          OBVIOUS
        <5> HIDE DEF s
        <5> QED BY <5>1, <5>2, <5>3, DecoderAttends
      <4> HIDE DEF s
      <4>5. PICK k \in DOMAIN s : s[k].type = "MATMUL"
        BY <4>4 DEF Attends
      <4>6. k \in DOMAIN sum_decoder /\ Shape(sum_decoder[k]) = Shape(s[k])
        BY <4>3 DEF Shapes
      <4>7. sum_decoder[k].type = "MATMUL"
        BY <4>5, <4>6, SameShape
      <4>8. k <= idx
        BY <2>3, <2>9, <4>6
      <4> QED BY <2>6, <4>6, <4>7, <4>8 DEF AttendsOnly
    <3> QED BY <1>2, <2>7, <2>9, <3>1
  <2> QED BY <2>1, <2>8, <2>9
<1>5. CASE GenLayer
  <2> DEFINE s == gen_decoder[stage]
             x == s[idx]
             d == IF OnAcc(x) THEN Acc ELSE "GPU"
             t == Answer(d, x).time
             y == Computed(d, x, t)
             new == [s EXCEPT ![idx] = y]
  <2>1. /\ pc = "gen" /\ stage \in DOMAIN gen_decoder /\ idx \in DOMAIN s
        /\ gen_decoder' = [gen_decoder EXCEPT ![stage] = new]
        /\ UNCHANGED <<args, hetero_name, tp>>
        /\ \/ idx < Len(s) /\ idx' = idx + 1 /\ pc' = pc /\ stage' = stage
           \/ idx = Len(s) /\ hetero_name = "PIM" /\ pc' = "pipeline" /\ stage' = stage
           \/ idx' = 1 /\ pc' \in {"gen", "report"}
    BY <1>5 DEF GenLayer, NextStage, TypeInv, LayersTyped, devices
  <2>2. PICK V : BuiltIn(V)
    BY <2>1 DEF TypeInv, LayersTyped
  <2>3. x \in Layers(Heads, Width, V) /\ s \in Decoder(Heads, Width, V)
    BY <1>5, <2>2, GenLayers
  <2>4. /\ DOMAIN s = 1 .. Len(s) /\ Len(s) \in Nat
        /\ DOMAIN new = DOMAIN s /\ Len(new) = Len(s) /\ new[idx] = y
        /\ \A k \in DOMAIN s : k # idx => new[k] = s[k]
    <3>1. s \in Seq(Layers(Heads, Width, V))
      BY <2>3 DEF Decoder
    <3>2. DOMAIN s = 1 .. Len(s) /\ Len(s) \in Nat
      BY <3>1, LenProperties
    <3> HIDE DEF s, y
    <3>3. new \in Seq(Layers(Heads, Width, V) \cup {y})
      BY <2>1, <3>1, <3>2
    <3> QED BY <2>1, <3>2, <3>3, LenProperties
  <2>5. t \in Nat
    <3>1. x.name \in LayerNames /\ d \in xPUs \cup {"PIM"}
      BY <2>3, AccType DEF Layers
    <3> HIDE DEF d, x
    <3> QED BY <3>1, AnswerType DEF TypeInv, ArgsTyped
  <2>6. y.exec_time = t
    <3> HIDE DEF t, d
    <3> QED BY <2>3 DEF Computed, Layers
  <2> HIDE DEF t, y
  <2>7. gen_decoder'[stage] = new
    <3> HIDE DEF new
    <3> QED BY <2>1
  <2>8. Heads # 0 /\ Timed(s, idx - 1)
    BY <2>1 DEF PipelineInv
  <2> HIDE DEF s, new
  <2>9. Timed(new, idx)
    <3> SUFFICES ASSUME NEW k \in DOMAIN new, k <= idx PROVE new[k].exec_time \in Nat
      BY DEF Timed
    <3>1. CASE k = idx
      BY <2>4, <2>5, <2>6, <3>1
    <3>2. CASE k # idx
      <4>1. k <= idx - 1 /\ k \in DOMAIN s
        BY <2>1, <2>4, <3>2
      <4> QED BY <2>4, <2>8, <3>2, <4>1 DEF Timed
    <3> QED BY <3>1, <3>2
  <2>10. Heads' = Heads
    BY <2>1 DEF Heads
  <2>11. CASE idx < Len(s) /\ idx' = idx + 1 /\ pc' = pc /\ stage' = stage
    <3>1. idx' - 1 = idx
      BY <2>1, <2>4, <2>11
    <3> QED BY <2>1, <2>7, <2>8, <2>9, <2>10, <2>11, <3>1 DEF PipelineInv
  <2>12. CASE idx = Len(s) /\ hetero_name = "PIM" /\ pc' = "pipeline" /\ stage' = stage
    BY <2>1, <2>4, <2>7, <2>8, <2>9, <2>10, <2>12 DEF PipelineInv
  <2>13. CASE idx' = 1 /\ pc' \in {"gen", "report"}
    BY <1>2, <2>8, <2>10, <2>13
  <2> QED BY <2>1, <2>11, <2>12, <2>13
<1>6. CASE Pipeline
  <2>1. idx' = 1 /\ pc' \in {"gen", "report"} /\ Heads # 0 /\ UNCHANGED <<args, tp>>
    BY <1>6 DEF Pipeline, NextStage, PipelineInv, devices
  <2>2. Heads' = Heads
    BY <2>1 DEF Heads
  <2> QED BY <1>2, <2>1, <2>2
<1> QED BY <1>1, <1>3, <1>4, <1>5, <1>6 DEF Next

LEMMA AlwaysPipelined == Spec => []PipelineInv
<1>1. Init => PipelineInv
  BY DEF Init, PipelineInv
<1>2. PipelineInv /\ UNCHANGED vars => PipelineInv'
  BY DEF PipelineInv, AttendsOnly, Timed, Heads, vars, devices, decoders
<1>3. TypeInv /\ BuiltInv /\ PipelineInv /\ TypeInv' /\ [Next]_vars => PipelineInv'
  BY <1>2, PipelineStep
<1> QED BY <1>1, <1>3, Typed, LayersAsBuilt, PTL DEF Spec

\* The two transfers of a stage get equal times.  (The code halves a
\* floating-point number; times are integers here.)
EvenTransfers == pc = "pipeline" => Overlap(Parts(gen_decoder[stage]), args.pipeopt).x2g % 2 = 0

LEMMA MaxOfThree ==
  ASSUME NEW a \in Int, NEW b \in Int, NEW c \in Int
  PROVE  Max({a, b, c}) \in {a, b, c}
<1>1. \E x \in {a, b, c} : \A y \in {a, b, c} : x >= y
  <2>1. CASE a >= b /\ a >= c
    BY <2>1
  <2>2. CASE b >= a /\ b >= c
    BY <2>2
  <2>3. CASE c >= a /\ c >= b
    BY <2>3
  <2> QED BY <2>1, <2>2, <2>3
<1> QED BY <1>1 DEF Max

\* The pipeline makes no stage slower, and none faster than its longest part,
\* on every path, for all models, devices and numbers of GPUs: it starts from
\* the times of the devices, in the second batch too, and finds each part of
\* the decoder at its place.
THEOREM PipelineWithinBounds == Spec /\ []EvenTransfers => PipelineBounds
<1> DEFINE Bounded ==
             pc = "pipeline" =>
               LET before == Parts(gen_decoder[stage])
                   after == Parts(gen_decoder'[stage])
                   softmax == TimeOf(gen_decoder[stage], "type", {"SOFTMAX"})
               IN /\ Total(after) <= Total(before)
                  /\ Total(after) + softmax >= Max({before.attn, before.x2g, before.qkv + before.proj})
<1>1. TypeInv /\ BuiltInv /\ PipelineInv /\ EvenTransfers /\ [Next]_vars => [Bounded]_vars
  <2> DEFINE s == gen_decoder[stage]
             before == Parts(s)
             after == Parts(gen_decoder'[stage])
             softmax == TimeOf(s, "type", {"SOFTMAX"})
  <2> SUFFICES ASSUME TypeInv, BuiltInv, PipelineInv, EvenTransfers, Next, pc = "pipeline"
               PROVE  /\ Total(after) <= Total(before)
                      /\ Total(after) + softmax >= Max({before.attn, before.x2g, before.qkv + before.proj})
    OBVIOUS
  <2>1. Pipeline
    BY DEF Next, NewSystem, set_xpu, set_accelerator, Build, SumLayer, GenLayer, LayerFails, Report,
           ReportFails, write_csv
  <2>2. stage \in DOMAIN gen_decoder /\ gen_decoder'[stage] = Pipelined(s)
    <3>1. stage \in DOMAIN gen_decoder /\ gen_decoder' = [gen_decoder EXCEPT ![stage] = Pipelined(s)]
      BY <2>1 DEF Pipeline, Pipelined, TypeInv, LayersTyped
    <3> HIDE DEF s
    <3> QED BY <3>1
  <2>3. PICK V : s \in Decoder(Heads, Width, V)
    BY StageDecoder
  <2>4. Heads # 0 /\ Timed(s, Len(s)) /\ hetero_name = "PIM"
    BY DEF PipelineInv
  <2>5. PICK hetero \in BOOLEAN : hetero /\ AsBuilt(hetero)
    BY <2>4 DEF BuiltInv
  <2>6. /\ tp \in Nat \ {0} /\ args.model \in Models /\ args.batch \in Nat
        /\ args.lin + stage \in Nat
    <3>1. args.lin \in Nat /\ args.lout \in Nat /\ stage \in 1 .. args.lout - 1
      BY <2>2, <2>5, ArgumentTypes DEF AsBuilt, TypeInv, ArgsTyped
    <3> QED BY <3>1, ArgumentTypes DEF TypeInv, ArgsTyped, DevicesTyped
  <2>7. PartsPlaced(s)
    <3>1. PICK one \in Nat, gen \in BOOLEAN : one = 1 /\ gen = TRUE
      OBVIOUS
    <3> DEFINE d == decoder(args.model, tp, args.batch, one, args.lin + stage, gen, hetero)
               kv == args.lin + stage
    <3>2. Shapes(s) = Shapes(d)
      BY <2>2, <2>5, <3>1 DEF AsBuilt
    <3>3. d = decoder(args.model, tp, args.batch, one, kv, gen, hetero) /\ kv \in Nat
      BY <2>6
    <3>4. gen \in BOOLEAN /\ hetero \in BOOLEAN /\ gen /\ hetero
      BY <2>5, <3>1
    <3> HIDE DEF d, kv, s
    <3>5. PartsPlaced(d)
      BY <2>6, <3>3, <3>4, HeteroDecoder
    <3> QED BY <3>2, <3>5, SamePlaces
  <2> HIDE DEF s
  <2>8. \A k \in 1 .. 7 : s[k].exec_time \in Nat
    <3>1. DOMAIN s = 1 .. Len(s) /\ Len(s) \in Nat
      BY <2>3, LenProperties DEF Decoder
    <3>2. \A k \in 1 .. 7 : k \in DOMAIN s
      BY <2>7 DEF PartsPlaced
    <3>3. \A k \in DOMAIN s : k <= Len(s)
      BY <3>1
    <3>4. \A k \in DOMAIN s : s[k].exec_time \in Nat
      BY <2>4, <3>3 DEF Timed
    <3> QED BY <3>2, <3>4
  <2> DEFINE q == s[1].exec_time
             r == s[7].exec_time
             u == s[2].exec_time
             v == s[6].exec_time
             c == s[3].exec_time
             e == s[5].exec_time
             m == s[4].exec_time
  <2>9. /\ q \in Nat /\ r \in Nat /\ u \in Nat /\ v \in Nat /\ c \in Nat /\ e \in Nat /\ m \in Nat
    BY <2>8
  <2>10. /\ before = [qkv |-> q, proj |-> r, x2g |-> u + v, attn |-> c + e + m]
         /\ softmax = m
    BY <2>7, <2>8, PartsOf
  <2> HIDE DEF q, r, u, v, c, e, m, before, softmax
  <2>11. before \in [qkv : Nat, proj : Nat, x2g : Nat, attn : Nat] /\ args.pipeopt \in BOOLEAN
    <3>1. args.pipeopt \in BOOLEAN
      BY SimulationAssumption DEF TypeInv, ArgsTyped
    <3> QED BY <2>9, <2>10, <3>1
  <2>12. EnoughHeads
    BY <2>4, HeadsEnough
  <2> DEFINE o == Overlap(before, args.pipeopt)
  <2>13. o.qkv \in Int /\ o.proj \in Int /\ o.x2g \in Int
    BY <2>11, <2>12, OverlapType
  <2>14. LET total == o.qkv + o.proj + o.x2g + before.attn IN
         /\ total <= Total(before)
         /\ total >= before.attn /\ total >= before.x2g /\ total >= before.qkv + before.proj
    BY <2>11, <2>12, OverlapBounds
  <2>15. o = Overlap(Parts(s), args.pipeopt) /\ o.x2g % 2 = 0
    BY DEF EvenTransfers, before, s
  <2> HIDE DEF o
  <2>16. after = [qkv |-> o.qkv, proj |-> o.proj, x2g |-> o.x2g \div 2 + o.x2g \div 2, attn |-> c + e]
    <3>1. \A k \in 1 .. 7 : s[k].exec_time \in Int
      BY <2>8
    <3> QED BY <2>2, <2>3, <2>7, <2>13, <2>15, <3>1, PipelinedParts DEF c, e
  <2>17. o.x2g \div 2 + o.x2g \div 2 = o.x2g
    BY <2>13, <2>15
  <2> HIDE DEF after
  <2>18. Total(after) = o.qkv + o.proj + o.x2g + (c + e)
    BY <2>16, <2>17 DEF Total
  <2>19. Total(after) + m = o.qkv + o.proj + o.x2g + before.attn
    BY <2>9, <2>10, <2>13, <2>18
  <2>20. Total(after) <= Total(before)
    <3>1. Total(after) \in Int /\ Total(before) \in Int
      BY <2>9, <2>10, <2>13, <2>18 DEF Total
    <3> QED BY <2>9, <2>14, <2>19, <3>1
  <2>21. Max({before.attn, before.x2g, before.qkv + before.proj})
           \in {before.attn, before.x2g, before.qkv + before.proj}
    <3>1. before.attn \in Int /\ before.x2g \in Int /\ before.qkv + before.proj \in Int
      BY <2>9, <2>10
    <3> QED BY <3>1, MaxOfThree
  <2>22. Total(after) + softmax >= Max({before.attn, before.x2g, before.qkv + before.proj})
    BY <2>10, <2>14, <2>19, <2>21
  <2> QED BY <2>20, <2>22
<1> QED BY <1>1, Typed, LayersAsBuilt, AlwaysPipelined, PTL DEF Spec, PipelineBounds

-----------------------------------------------------------------------------
(* Times stay numbers: what the layers of all stages, joined, contain.     *)

\* g joins the first sequences of s.
Joins(g, s, n) == g = [i \in 1 .. n |-> IF i = 1 THEN s[i] ELSE g[i - 1] \o s[i]]

LEMMA JoinsValue ==
  ASSUME NEW g, NEW s, NEW n, Joins(g, s, n), NEW i \in 1 .. n
  PROVE  g[i] = IF i = 1 THEN s[i] ELSE g[i - 1] \o s[i]
<1> DEFINE v(j) == IF j = 1 THEN s[j] ELSE g[j - 1] \o s[j]
<1>1. g = [j \in 1 .. n |-> v(j)]
  BY DEF Joins
<1> HIDE DEF v
<1>2. g[i] = v(i)
  BY <1>1
<1> QED BY <1>2 DEF v

LEMMA JoinsExist ==
  ASSUME NEW s, NEW len \in Nat
  PROVE  \E g : Joins(g, s, len)
<1> DEFINE T == {n \in Nat : \E g : Joins(g, s, n)}
<1>1. 0 \in T
  <2>1. Joins(<<>>, s, 0)
    BY DEF Joins
  <2> QED BY <2>1
<1>2. ASSUME NEW n \in Nat, n \in T PROVE n + 1 \in T
  <2>1. PICK g : Joins(g, s, n)
    BY <1>2
  <2> DEFINE v(i) == IF i = 1 THEN s[i] ELSE g[i - 1] \o s[i]
             h == [i \in 1 .. n + 1 |-> v(i)]
  <2>2. \A i \in 1 .. n : g[i] = v(i)
    BY <2>1, JoinsValue
  <2>3. \A i \in 1 .. n + 1 : h[i] = v(i) /\ (i # 1 => i - 1 \in 1 .. n /\ i - 1 \in 1 .. n + 1)
    OBVIOUS
  <2>4. \A i \in 1 .. n : h[i] = g[i]
    <3> TAKE i \in 1 .. n
    <3>1. i \in 1 .. n + 1
      OBVIOUS
    <3> HIDE DEF v, h
    <3> QED BY <2>2, <2>3, <3>1
  <2>5. \A i \in 1 .. n + 1 : i # 1 => h[i - 1] = g[i - 1]
    <3> HIDE DEF v, h
    <3> QED BY <2>3, <2>4
  <2>6. \A i \in 1 .. n + 1 : v(i) = IF i = 1 THEN s[i] ELSE h[i - 1] \o s[i]
    <3> HIDE DEF h
    <3> QED BY <2>5
  <2>7. h = [i \in 1 .. n + 1 |-> IF i = 1 THEN s[i] ELSE h[i - 1] \o s[i]]
    <3> HIDE DEF v
    <3>1. h = [i \in 1 .. n + 1 |-> v(i)]
      OBVIOUS
    <3> HIDE DEF h
    <3> QED BY <2>6, <3>1
  <2> HIDE DEF h
  <2>8. Joins(h, s, n + 1)
    BY <2>7 DEF Joins
  <2> QED BY <2>8
<1> HIDE DEF T
<1>3. Nat \subseteq T
  BY <1>1, <1>2, SetInduction
<1>4. len \in T
  BY <1>3
<1> QED BY <1>4 DEF T

LEMMA FlattenIsJoins ==
  ASSUME NEW s, Len(s) \in Nat, Len(s) # 0
  PROVE  \E g : Joins(g, s, Len(s)) /\ FlattenSeq(s) = g[Len(s)]
<1> DEFINE g == CHOOSE g : Joins(g, s, Len(s))
<1>1. Joins(g, s, Len(s))
  BY JoinsExist
<1>2. FlattenSeq(s) = g[Len(s)]
  BY DEF FlattenSeq, Joins
<1> QED BY <1>1, <1>2

\* The layers of all stages are layers of one of them.
LEMMA FlattenType ==
  ASSUME NEW S, NEW s \in Seq(Seq(S))
  PROVE  FlattenSeq(s) \in Seq(S)
<1>1. Len(s) \in Nat /\ DOMAIN s = 1 .. Len(s) /\ \A i \in 1 .. Len(s) : s[i] \in Seq(S)
  BY LenProperties, ElementOfSeq
<1>2. CASE Len(s) = 0
  <2>1. s = <<>> /\ <<>> \in Seq(S)
    BY <1>2, EmptySeq
  <2> QED BY <1>2, <2>1 DEF FlattenSeq
<1>3. CASE Len(s) # 0
  <2>1. PICK g : Joins(g, s, Len(s)) /\ FlattenSeq(s) = g[Len(s)]
    BY <1>1, <1>3, FlattenIsJoins
  <2> DEFINE T == {n \in Nat : n + 1 \in 1 .. Len(s) => g[n + 1] \in Seq(S)}
  <2>2. 0 \in T
    <3> SUFFICES ASSUME 1 \in 1 .. Len(s) PROVE g[1] \in Seq(S)
      OBVIOUS
    <3>1. g[1] = s[1]
      BY <2>1, JoinsValue
    <3> QED BY <1>1, <3>1
  <2>3. ASSUME NEW n \in Nat, n \in T PROVE n + 1 \in T
    <3> SUFFICES ASSUME (n + 1) + 1 \in 1 .. Len(s) PROVE g[(n + 1) + 1] \in Seq(S)
      OBVIOUS
    <3>1. PICK i \in 1 .. Len(s) : i = (n + 1) + 1
      OBVIOUS
    <3>2. i # 1 /\ i - 1 = n + 1 /\ n + 1 \in 1 .. Len(s)
      BY <1>1, <3>1
    <3>3. g[i] = g[i - 1] \o s[i]
      <4>1. g[i] = IF i = 1 THEN s[i] ELSE g[i - 1] \o s[i]
        BY <2>1, JoinsValue
      <4> QED BY <3>2, <4>1
    <3>4. g[i - 1] \in Seq(S) /\ s[i] \in Seq(S)
      BY <1>1, <2>3, <3>2
    <3>5. g[i] \in Seq(S)
      BY <3>3, <3>4, ConcatProperties
    <3> QED BY <3>1, <3>5
  <2> HIDE DEF T
  <2>4. Nat \subseteq T
    BY <2>2, <2>3, SetInduction
  <2>5. Len(s) - 1 \in T /\ (Len(s) - 1) + 1 = Len(s) /\ Len(s) \in 1 .. Len(s)
    BY <1>1, <1>3, <2>4
  <2> QED BY <2>1, <2>5 DEF T
<1> QED BY <1>2, <1>3

\* All times are numbers: also the shares the pipeline gives, which may be negative.
WholeTimes(s) == \A k \in DOMAIN s : s[k].exec_time \in Int
TimesInv == WholeTimes(sum_decoder) /\ \A s \in DOMAIN gen_decoder : WholeTimes(gen_decoder[s])

LEMMA TimeOfNat ==
  ASSUME NEW h, NEW w, NEW V, NEW s \in Decoder(h, w, V), Timed(s, Len(s)), NEW field, NEW S
  PROVE  TimeOf(s, field, S) \in Nat
<1> DEFINE f == [k \in DOMAIN s |-> s[k].exec_time]
           D == {k \in DOMAIN s : s[k][field] \in S}
<1>1. DOMAIN s = 1 .. Len(s) /\ Len(s) \in Nat
  BY LenProperties DEF Decoder
<1>2. IsFiniteSet(D)
  <2>1. D \subseteq 1 .. Len(s) /\ IsFiniteSet(1 .. Len(s))
    BY <1>1, FS_Interval
  <2> QED BY <2>1, FS_Subset
<1>3. \A k \in D : f[k] \in Nat
  BY <1>1 DEF Timed
<1> DEFINE C == Nat
<1>4. C \subseteq Int /\ 0 \in C /\ \A a, b \in C : a + b \in C
  OBVIOUS
<1>5. \A k \in D : f[k] \in C
  BY <1>3
<1> HIDE DEF C, D, f
<1>6. SumFunctionOnSet(f, D) \in C
  BY <1>2, <1>4, <1>5, SumIn
<1> QED BY <1>6 DEF TimeOf, C, D, f

LEMMA PipelinedTimes ==
  ASSUME TypeInv, PipelineInv, pc = "pipeline"
  PROVE  WholeTimes(Pipelined(gen_decoder[stage]))
<1> DEFINE s == gen_decoder[stage]
           before == Parts(s)
           o == Overlap(before, args.pipeopt)
           p == pipeline(s)
<1>1. PICK V : s \in Decoder(Heads, Width, V)
  BY StageDecoder
<1>2. Heads # 0 /\ Timed(s, Len(s))
  BY DEF PipelineInv
<1> HIDE DEF s
<1>3. before \in [qkv : Nat, proj : Nat, x2g : Nat, attn : Nat]
  <2> DEFINE Of(name) == TimeOf(s, "name", {name})
  <2>1. \A name : Of(name) \in Nat
    BY <1>1, <1>2, TimeOfNat
  <2>2. before = [qkv |-> Of("qkv"), proj |-> Of("proj"), x2g |-> Of("comm_x2g"),
                  attn |-> Of("score") + Of("context") + Of("softmax")]
    BY DEF Parts
  <2> HIDE DEF Of, before
  <2> QED BY <2>1, <2>2
<1>4. args.pipeopt \in BOOLEAN
  BY SimulationAssumption DEF TypeInv, ArgsTyped
<1> HIDE DEF before
<1>5. o.qkv \in Int /\ o.proj \in Int /\ o.x2g \in Int
  <2>1. EnoughHeads
    BY <1>2, HeadsEnough
  <2> QED BY <1>3, <1>4, <2>1, OverlapType
<1>6. DOMAIN s = 1 .. Len(s) /\ \A k \in DOMAIN s : s[k] \in Layers(Heads, Width, V) /\ s[k].exec_time \in Int
  BY <1>1, <1>2, LenProperties DEF Decoder, Timed
<1>7. /\ DOMAIN p = DOMAIN s
      /\ \A k \in DOMAIN s : p[k] = [s[k] EXCEPT !.exec_time = PipelineTime(s)[k]]
  BY PipelineRetimes DEF Retimed
<1>8. \A k \in DOMAIN s : PipelineTime(s)[k] \in Int
  <2> TAKE k \in DOMAIN s
  <2>1. PipelineTime(s)[k] =
          CASE s[k].name \in {"qkv", "proj"} -> o[s[k].name]
            [] s[k].name = "comm_x2g" -> o.x2g \div 2
            [] s[k].name = "softmax" -> 0
            [] OTHER -> s[k].exec_time
    BY DEF PipelineTime, before
  <2> HIDE DEF o
  <2>2. o.x2g \div 2 \in Int
    BY <1>5
  <2>3. CASE s[k].name = "qkv"
    BY <1>5, <2>1, <2>3
  <2>4. CASE s[k].name = "proj"
    BY <1>5, <2>1, <2>4
  <2>5. CASE s[k].name = "comm_x2g"
    BY <2>1, <2>2, <2>5
  <2>6. CASE s[k].name = "softmax"
    BY <2>1, <2>6
  <2>7. CASE s[k].name \notin {"qkv", "proj", "comm_x2g", "softmax"}
    BY <1>6, <2>1, <2>7
  <2> QED BY <2>3, <2>4, <2>5, <2>6, <2>7
<1> HIDE DEF p
<1>9. \A k \in DOMAIN p : p[k].exec_time \in Int
  <2> TAKE k \in DOMAIN p
  <2>1. p[k].exec_time = PipelineTime(s)[k]
    BY <1>6, <1>7 DEF Layers
  <2> QED BY <1>7, <1>8, <2>1
<1>10. CASE args.ffopt
  <2>1. PICK W : p \in Decoder(Heads, Width, W)
    BY <1>1, PipelineRetimes, RetimedType DEF p
  <2>2. \A k \in DOMAIN p : p[k] \in Layers(Heads, Width, W)
    BY <2>1 DEF Decoder
  <2>3. Pipelined(s) = Retimed(p, SharedTime(p))
    <3>1. Pipelined(s) = ff_parallel(p)
      BY <1>10 DEF Pipelined, p
    <3> QED BY <2>1, <3>1, ShareRetimes
  <2>4. \A k \in DOMAIN p : SharedTime(p)[k] \in Int
    <3> TAKE k \in DOMAIN p
    <3> DEFINE bs == IF itr = 0 THEN args.batch ELSE args.num_reqs % args.batch
               t == p[k].exec_time
               a == ff_compute[1]
               b == ff_compute[2]
    <3>1. SharedTime(p)[k] =
            IF p[k].name \in {"ff1", "ff2", "ff3"}
            THEN IF p[k].bound = "compute" THEN (t * a) \div b ELSE (t * bs) \div (bs + bw_scale)
            ELSE t
      BY DEF SharedTime
    <3>2. /\ a \in Nat /\ b \in Nat \ {0} /\ bw_scale \in Nat \ {0} /\ bs \in Nat
      BY SimulationAssumption, ArgumentTypes DEF TypeInv, ArgsTyped
    <3>3. t \in Int
      BY <1>9
    <3> HIDE DEF t, a, b, bs
    <3>4. t * a \in Int /\ t * bs \in Int /\ bs + bw_scale \in Nat \ {0}
      BY <3>2, <3>3
    <3>5. (t * a) \div b \in Int /\ (t * bs) \div (bs + bw_scale) \in Int
      <4> DEFINE u == t * a
                 v == t * bs
                 c == bs + bw_scale
      <4>1. u \in Int /\ v \in Int /\ c \in Nat \ {0}
        BY <3>4
      <4> HIDE DEF u, v, c
      <4>2. u \div b \in Int /\ v \div c \in Int
        BY <3>2, <4>1
      <4> QED BY <4>2 DEF u, v, c
    <3>6. CASE p[k].name \in {"ff1", "ff2", "ff3"} /\ p[k].bound = "compute"
      BY <3>1, <3>5, <3>6
    <3>7. CASE p[k].name \in {"ff1", "ff2", "ff3"} /\ p[k].bound # "compute"
      BY <3>1, <3>5, <3>7
    <3>8. CASE p[k].name \notin {"ff1", "ff2", "ff3"}
      BY <3>1, <3>3, <3>8
    <3> QED BY <3>6, <3>7, <3>8
  <2>5. \A k \in DOMAIN p : Retimed(p, SharedTime(p))[k].exec_time = SharedTime(p)[k]
    BY <2>2 DEF Retimed, Layers
  <2>6. DOMAIN Retimed(p, SharedTime(p)) = DOMAIN p
    BY DEF Retimed
  <2>7. WholeTimes(Pipelined(s))
    BY <2>3, <2>4, <2>5, <2>6 DEF WholeTimes
  <2> QED BY <2>7 DEF s
<1>11. CASE ~ args.ffopt
  <2>1. Pipelined(s) = p
    BY <1>11 DEF Pipelined, p
  <2>2. WholeTimes(Pipelined(s))
    BY <1>9, <2>1 DEF WholeTimes
  <2> QED BY <2>2 DEF s
<1> QED BY <1>10, <1>11

LEMMA TimesStep ==
  ASSUME TypeInv, PipelineInv, TimesInv, Next
  PROVE  TimesInv'
<1>1. CASE Build
  <2>1. BuiltIn({0})'
    BY <1>1, BuildLayers
  <2>2. ASSUME NEW h, NEW w, NEW s \in Decoder(h, w, {0}) PROVE WholeTimes(s)
    <3>1. \A k \in DOMAIN s : s[k] \in Layers(h, w, {0})
      BY DEF Decoder
    <3> QED BY <3>1 DEF WholeTimes, Layers
  <2>3. \A s \in DOMAIN gen_decoder' : gen_decoder'[s] \in Decoder(Heads, Width, {0})'
    BY <2>1 DEF BuiltIn
  <2> QED BY <2>1, <2>2, <2>3 DEF TimesInv, BuiltIn
<1>2. CASE SumLayer
  <2> DEFINE x == sum_decoder[idx]
             a == Answer("GPU", x)
             t == IF x.type = "X2G" THEN a.time + Max({wrt_io_busy - time, 0}) ELSE a.time
             y == Computed("GPU", x, t)
  <2>1. /\ pc = "sum" /\ idx \in DOMAIN sum_decoder
        /\ sum_decoder' = [sum_decoder EXCEPT ![idx] = y] /\ gen_decoder' = gen_decoder
    BY <1>2 DEF SumLayer, TypeInv, LayersTyped
  <2>2. PICK V : BuiltIn(V)
    BY <2>1 DEF TypeInv, LayersTyped
  <2>3. x \in Layers(Heads, Width, V)
    BY <2>1, <2>2 DEF BuiltIn, Decoder
  <2>4. t \in Int
    <3>1. a.time \in Nat
      <4>1. x.name \in LayerNames /\ "GPU" \in xPUs \cup {"PIM"}
        BY <2>3, AccType DEF Layers
      <4> HIDE DEF x
      <4> QED BY <4>1, AnswerType DEF TypeInv, ArgsTyped
    <3>2. wrt_io_busy - time \in Int
      BY DEF TypeInv, TimesTyped
    <3>3. Max({wrt_io_busy - time, 0}) \in Int
      <4> DEFINE b == wrt_io_busy - time
      <4>1. b \in Int
        BY <3>2
      <4> HIDE DEF b
      <4>2. Max({b, 0}) = IF b > 0 THEN b ELSE 0
        BY <4>1, MaxWithZero
      <4>3. Max({b, 0}) \in Int
        BY <4>1, <4>2
      <4> QED BY <4>3 DEF b
    <3> HIDE DEF a
    <3> QED BY <3>1, <3>3
  <2> HIDE DEF t
  <2>5. y.exec_time = t
    BY <2>3 DEF Computed, Layers
  <2> HIDE DEF y
  <2> QED BY <2>1, <2>4, <2>5 DEF TimesInv, WholeTimes
<1>3. ASSUME NEW new, gen_decoder' = [gen_decoder EXCEPT ![stage] = new], WholeTimes(new),
             stage \in DOMAIN gen_decoder, sum_decoder' = sum_decoder
      PROVE  TimesInv'
  <2>1. /\ DOMAIN gen_decoder' = DOMAIN gen_decoder
        /\ \A s \in DOMAIN gen_decoder : gen_decoder'[s] = IF s = stage THEN new ELSE gen_decoder[s]
    BY <1>3
  <2>2. \A s \in DOMAIN gen_decoder' : WholeTimes(gen_decoder'[s])
    BY <1>3, <2>1 DEF TimesInv
  <2> QED BY <1>3, <2>2 DEF TimesInv, WholeTimes
<1>4. CASE GenLayer
  <2> DEFINE s == gen_decoder[stage]
             x == s[idx]
             d == IF OnAcc(x) THEN Acc ELSE "GPU"
             t == Answer(d, x).time
             y == Computed(d, x, t)
             new == [s EXCEPT ![idx] = y]
  <2>1. /\ pc = "gen" /\ stage \in DOMAIN gen_decoder /\ idx \in DOMAIN s
        /\ gen_decoder' = [gen_decoder EXCEPT ![stage] = new] /\ sum_decoder' = sum_decoder
    BY <1>4 DEF GenLayer, TypeInv, LayersTyped
  <2>2. PICK V : BuiltIn(V)
    BY <2>1 DEF TypeInv, LayersTyped
  <2>3. x \in Layers(Heads, Width, V)
    BY <1>4, <2>2, GenLayers
  <2>4. t \in Int
    <3>1. x.name \in LayerNames /\ d \in xPUs \cup {"PIM"}
      BY <2>3, AccType DEF Layers
    <3> HIDE DEF d, x
    <3> QED BY <3>1, AnswerType DEF TypeInv, ArgsTyped
  <2>5. y.exec_time = t
    <3> HIDE DEF t, d
    <3> QED BY <2>3 DEF Computed, Layers
  <2>6. WholeTimes(s)
    BY <2>1 DEF TimesInv
  <2> HIDE DEF y, t, s
  <2>7. WholeTimes(new)
    BY <2>1, <2>4, <2>5, <2>6 DEF WholeTimes
  <2> HIDE DEF new
  <2> QED BY <1>3, <2>1, <2>7
<1>5. CASE Pipeline
  <2> DEFINE new == Pipelined(gen_decoder[stage])
  <2>1. /\ pc = "pipeline" /\ stage \in DOMAIN gen_decoder
        /\ gen_decoder' = [gen_decoder EXCEPT ![stage] = new] /\ sum_decoder' = sum_decoder
    BY <1>5 DEF Pipeline, Pipelined, TypeInv, LayersTyped
  <2>2. WholeTimes(new)
    BY <2>1, PipelinedTimes
  <2> HIDE DEF new
  <2> QED BY <1>3, <2>1, <2>2
<1>6. CASE ~ (Build \/ SumLayer \/ GenLayer \/ Pipeline)
  <2>1. UNCHANGED <<sum_decoder, gen_decoder>>
    BY <1>6 DEF Next, NewSystem, set_xpu, set_accelerator, LayerFails, Fail, Report, ReportFails, write_csv, decoders
  <2> QED BY <2>1 DEF TimesInv, WholeTimes
<1> QED BY <1>1, <1>2, <1>4, <1>5, <1>6

LEMMA TimesWhole == Spec => []TimesInv
<1>1. Init => TimesInv
  BY DEF Init, TimesInv, WholeTimes
<1>2. TimesInv /\ UNCHANGED vars => TimesInv'
  BY DEF TimesInv, WholeTimes, vars, decoders
<1>3. TypeInv /\ PipelineInv /\ TimesInv /\ [Next]_vars => TimesInv'
  BY <1>2, TimesStep
<1> QED BY <1>1, <1>3, Typed, AlwaysPipelined, PTL DEF Spec

-----------------------------------------------------------------------------
(* Sums of a few named amounts.                                            *)

\* v is a number at every element of S.
Integral(v, S) == \A x \in S : v[x] \in Int

\* S is x and the elements of T.
Adds(S, x, T) == S = {x} \cup T /\ x \notin T

LEMMA SumAdds ==
  ASSUME NEW v, NEW S, NEW x, NEW T, Adds(S, x, T), IsFiniteSet(T), Integral(v, S)
  PROVE  /\ IsFiniteSet(S) /\ Integral(v, T) /\ v[x] \in Int
         /\ SumFunctionOnSet(v, S) = v[x] + SumFunctionOnSet(v, T)
<1>1. IsFiniteSet({x} \cup T) /\ ({x} \cup T) \ {x} = T /\ \A y \in {x} \cup T : v[y] \in Int
  BY FS_Singleton, FS_Union DEF Adds, Integral
<1>2. x \in S /\ IsFiniteSet(S) /\ S \ {x} = T /\ \A y \in S : v[y] \in Int
  BY <1>1 DEF Adds
<1>3. SumFunctionOnSet(v, S) = v[x] + SumFunctionOnSet(v, S \ {x})
  BY <1>2, SumElement
<1> QED BY <1>2, <1>3 DEF Adds, Integral

\* The seven elements of S, one after the other.
Lists(S, x1, x2, x3, x4, x5, x6, x7, s6, s5, s4, s3, s2, s1) ==
  /\ Adds(S, x1, s6) /\ Adds(s6, x2, s5) /\ Adds(s5, x3, s4) /\ Adds(s4, x4, s3) /\ Adds(s3, x5, s2)
  /\ Adds(s2, x6, s1) /\ Adds(s1, x7, {})

LEMMA SumOfSeven ==
  ASSUME NEW v, NEW S, NEW x1, NEW x2, NEW x3, NEW x4, NEW x5, NEW x6, NEW x7,
         NEW s6, NEW s5, NEW s4, NEW s3, NEW s2, NEW s1,
         Lists(S, x1, x2, x3, x4, x5, x6, x7, s6, s5, s4, s3, s2, s1), Integral(v, S)
  PROVE  SumFunctionOnSet(v, S) = v[x1] + v[x2] + v[x3] + v[x4] + v[x5] + v[x6] + v[x7]
<1> DEFINE sum(T) == SumFunctionOnSet(v, T)
           e == {}
<1>1. /\ Adds(S, x1, s6) /\ Adds(s6, x2, s5) /\ Adds(s5, x3, s4) /\ Adds(s4, x4, s3) /\ Adds(s3, x5, s2)
      /\ Adds(s2, x6, s1) /\ Adds(s1, x7, e)
  BY DEF Lists
<1>2. IsFiniteSet(e) /\ sum(e) = 0
  BY FS_EmptySet, SumEmpty
<1> HIDE DEF e
<1>3. IsFiniteSet(s1) /\ IsFiniteSet(s2) /\ IsFiniteSet(s3) /\ IsFiniteSet(s4) /\ IsFiniteSet(s5)
        /\ IsFiniteSet(s6)
  <2>1. ASSUME NEW T, NEW x, NEW R, Adds(T, x, R), IsFiniteSet(R) PROVE IsFiniteSet(T)
    <3>1. IsFiniteSet({x}) /\ IsFiniteSet({x} \cup R)
      BY <2>1, FS_Singleton, FS_Union
    <3> QED BY <2>1, <3>1 DEF Adds
  <2> QED BY <1>1, <1>2, <2>1
<1>3a. \A T, x, R : Adds(T, x, R) /\ IsFiniteSet(R) /\ Integral(v, T)
            => Integral(v, R) /\ v[x] \in Int /\ sum(T) = v[x] + sum(R)
  BY SumAdds
<1> HIDE DEF sum
<1>4. Integral(v, s6) /\ v[x1] \in Int /\ sum(S) = v[x1] + sum(s6)
  BY <1>1, <1>2, <1>3, <1>3a
<1>5. Integral(v, s5) /\ v[x2] \in Int /\ sum(s6) = v[x2] + sum(s5)
  BY <1>1, <1>2, <1>3, <1>3a, <1>4
<1>6. Integral(v, s4) /\ v[x3] \in Int /\ sum(s5) = v[x3] + sum(s4)
  BY <1>1, <1>2, <1>3, <1>3a, <1>5
<1>7. Integral(v, s3) /\ v[x4] \in Int /\ sum(s4) = v[x4] + sum(s3)
  BY <1>1, <1>2, <1>3, <1>3a, <1>6
<1>8. Integral(v, s2) /\ v[x5] \in Int /\ sum(s3) = v[x5] + sum(s2)
  BY <1>1, <1>2, <1>3, <1>3a, <1>7
<1>9. Integral(v, s1) /\ v[x6] \in Int /\ sum(s2) = v[x6] + sum(s1)
  BY <1>1, <1>2, <1>3, <1>3a, <1>8
<1>10. Integral(v, e) /\ v[x7] \in Int /\ sum(s1) = v[x7] + sum(e)
  BY <1>1, <1>2, <1>3, <1>3a, <1>9
<1>11. sum(S) = v[x1] + v[x2] + v[x3] + v[x4] + v[x5] + v[x6] + v[x7]
  BY <1>2, <1>4, <1>5, <1>6, <1>7, <1>8, <1>9, <1>10
<1> QED BY <1>11 DEF sum

-----------------------------------------------------------------------------
Splits(U, S, T) == U = S \cup T /\ S \cap T = {}

LEMMA TimeUnion ==
  ASSUME NEW s, IsFiniteSet(DOMAIN s), WholeTimes(s), NEW field, NEW S, NEW T, NEW U, Splits(U, S, T)
  PROVE  /\ TimeOf(s, field, S) \in Int /\ TimeOf(s, field, T) \in Int
         /\ TimeOf(s, field, U) = TimeOf(s, field, S) + TimeOf(s, field, T)
<1> DEFINE f == [k \in DOMAIN s |-> s[k].exec_time]
           D(W) == {k \in DOMAIN s : s[k][field] \in W}
           A == D(S)
           B == D(T)
<1>1. IsFiniteSet(A) /\ IsFiniteSet(B)
  BY FS_Subset
<1>2. A \cap B = {} /\ D(U) = A \cup B
  BY DEF Splits
<1>3. \A k \in A \cup B : f[k] \in Int
  BY DEF WholeTimes
<1>4. /\ TimeOf(s, field, S) = SumFunctionOnSet(f, A) /\ TimeOf(s, field, T) = SumFunctionOnSet(f, B)
      /\ TimeOf(s, field, U) = SumFunctionOnSet(f, A \cup B)
  BY <1>2 DEF TimeOf
<1> HIDE DEF f, A, B, D
<1>5. SumFunctionOnSet(f, A) \in Int /\ SumFunctionOnSet(f, B) \in Int
  BY <1>1, <1>3, SumElement
<1>6. SumFunctionOnSet(f, A \cup B) = SumFunctionOnSet(f, A) + SumFunctionOnSet(f, B)
  BY <1>1, <1>2, <1>3, SumUnion
<1> QED BY <1>4, <1>5, <1>6

LEMMA TimesByType ==
  ASSUME NEW s, IsFiniteSet(DOMAIN s), WholeTimes(s),
         \A k \in DOMAIN s : s[k].type = "FC" <=> s[k].name \in Projections
  PROVE  LET Of(S) == TimeOf(s, "type", S)
             Named(S) == TimeOf(s, "name", S)
         IN /\ \A S \in SUBSET LayerTypes : Of(S) \in Int
            /\ \A S \in SUBSET LayerNames : Named(S) \in Int
            /\ Of(LayerTypes \ {"X2G"})
                 = Of({"MATMUL"}) + Of({"FC"}) + Of({"G2G"}) + Of({"SOFTMAX"}) + Of({"ACT"}) + Of({"NORM"})
            /\ Of(LayerTypes)
                 = Of({"MATMUL"}) + Of({"FC"}) + Of({"G2G", "X2G"}) + Of({"ACT", "NORM"}) + Of({"SOFTMAX"})
            /\ Of({"G2G", "X2G"}) = Of({"G2G"}) + Of({"X2G"})
            /\ Of({"ACT", "NORM"}) = Of({"ACT"}) + Of({"NORM"})
            /\ Of({"FC"}) = Named({"qkv"}) + Named({"proj"}) + Named({"ff1", "ff2", "ff3"})
<1> DEFINE Of(S) == TimeOf(s, "type", S)
           Named(S) == TimeOf(s, "name", S)
           m == {"MATMUL"}
           f == {"FC"}
           g == {"G2G"}
           x == {"X2G"}
           a == {"ACT"}
           n == {"NORM"}
           o == {"SOFTMAX"}
           gx == {"G2G", "X2G"}
           an == {"ACT", "NORM"}
           t2 == {"MATMUL", "FC"}
           t3 == {"MATMUL", "FC", "G2G"}
           t4 == {"MATMUL", "FC", "G2G", "SOFTMAX"}
           t5 == {"MATMUL", "FC", "G2G", "SOFTMAX", "ACT"}
           t6 == LayerTypes \ {"X2G"}
           u3 == {"MATMUL", "FC", "G2G", "X2G"}
           u4 == {"MATMUL", "FC", "G2G", "X2G", "ACT", "NORM"}
           u5 == LayerTypes
           q == {"qkv"}
           p == {"proj"}
           qp == {"qkv", "proj"}
           ff == {"ff1", "ff2", "ff3"}
           w == Projections
<1>1. /\ Splits(gx, g, x) /\ Splits(an, a, n)
      /\ Splits(t2, m, f) /\ Splits(t3, t2, g) /\ Splits(t4, t3, o)
      /\ Splits(t5, t4, a) /\ Splits(u3, t2, gx) /\ Splits(u4, u3, an)
  BY DEF Splits
<1>1a. Splits(t6, t5, n) /\ Splits(u5, u4, o)
  BY DEF LayerTypes, Splits
<1>1b. Splits(qp, q, p) /\ Splits(w, qp, ff)
  BY DEF Projections, Splits
<1>2. \A S, T, U : Splits(U, S, T) => /\ Of(S) \in Int /\ Of(T) \in Int /\ Of(U) = Of(S) + Of(T)
                                     /\ Named(S) \in Int /\ Named(T) \in Int /\ Named(U) = Named(S) + Named(T)
  BY TimeUnion
<1>3. \A S : Of(S) \in Int /\ Named(S) \in Int
  <2> TAKE S
  <2> DEFINE e == {}
  <2>1. Splits(S, S, e)
    BY DEF Splits
  <2> HIDE DEF e, Of, Named
  <2> QED BY <1>2, <2>1
<1>4. Of(f) = Named(w)
  <2>1. {k \in DOMAIN s : s[k]["type"] \in f} = {k \in DOMAIN s : s[k]["name"] \in w}
    OBVIOUS
  <2> QED BY <2>1 DEF TimeOf
<1> HIDE DEF Of, Named, m, f, g, x, a, n, o, gx, an, t2, t3, t4, t5, t6, u3, u4, u5, q, p, qp, ff, w
<1>5. /\ Of(t2) = Of(m) + Of(f) /\ Of(t3) = Of(t2) + Of(g) /\ Of(t4) = Of(t3) + Of(o)
      /\ Of(t5) = Of(t4) + Of(a) /\ Of(t6) = Of(t5) + Of(n)
      /\ Of(gx) = Of(g) + Of(x) /\ Of(an) = Of(a) + Of(n)
      /\ Of(u3) = Of(t2) + Of(gx) /\ Of(u4) = Of(u3) + Of(an) /\ Of(u5) = Of(u4) + Of(o)
  BY <1>1, <1>1a, <1>2
<1>6. Named(qp) = Named(q) + Named(p) /\ Named(w) = Named(qp) + Named(ff)
  BY <1>1b, <1>2
<1>7. /\ Of(m) \in Int /\ Of(f) \in Int /\ Of(g) \in Int /\ Of(x) \in Int /\ Of(a) \in Int
      /\ Of(n) \in Int /\ Of(o) \in Int
      /\ Of(gx) \in Int /\ Of(an) \in Int
  BY <1>3
<1>8. /\ Of(t6) = Of(m) + Of(f) + Of(g) + Of(o) + Of(a) + Of(n)
      /\ Of(u5) = Of(m) + Of(f) + Of(gx) + Of(an) + Of(o)
  BY <1>5, <1>7
<1>9. Of(f) = Named(q) + Named(p) + Named(ff)
  BY <1>4, <1>6
<1>10. \A S \in SUBSET LayerTypes : Of(S) \in Int
  BY <1>3
<1>11. \A S \in SUBSET LayerNames : Named(S) \in Int
  BY <1>3
<1> QED
  BY <1>5, <1>8, <1>9, <1>10, <1>11 DEF Of, Named, m, f, g, x, a, n, o, gx, an, t6, u5, q, p, ff
\* Quotients without a remainder.
LEMMA Quotient ==
  ASSUME NEW a \in Int, NEW n \in Nat \ {0}, a % n = 0
  PROVE  a \div n \in Int /\ a = n * (a \div n)
OBVIOUS

LEMMA QuotientSum ==
  ASSUME NEW a \in Int, NEW b \in Int, NEW n \in Nat \ {0}, a % n = 0, b % n = 0
  PROVE  (a + b) % n = 0 /\ (a + b) \div n = (a \div n) + (b \div n)
<1> DEFINE p == a \div n
           q == b \div n
<1>1. p \in Int /\ q \in Int /\ a = n * p /\ b = n * q
  BY Quotient
<1> HIDE DEF p, q
<1>2. a + b = n * (p + q) /\ p + q \in Int
  BY <1>1
<1> DEFINE r == p + q
<1>3. \A i \in Int : (n * i) % n = 0 /\ (n * i) \div n = i
  OBVIOUS
<1>4. (a + b) % n = 0 /\ (a + b) \div n = p + q
  BY <1>2, <1>3
<1> QED BY <1>4 DEF p, q

-----------------------------------------------------------------------------
(* The row that is written is made of the columns of the report.           *)

\* Transfers cost no energy in the memories or the cores.
TransfersInv == \A t \in Transfers : gen_energies[t].mem = 0 /\ gen_energies[t].comp = 0

LEMMA TransfersUse ==
  /\ Init => TransfersInv
  /\ TypeInv /\ TransfersInv /\ [Next]_vars => TransfersInv'
<1>1. Init => TransfersInv
  BY DEF Init, TransfersInv, Transfers, LayerTypes, Zero
<1>2. ASSUME TypeInv, TransfersInv, GenLayer PROVE TransfersInv'
  <2> DEFINE x == gen_decoder[stage][idx]
             d == IF OnAcc(x) THEN Acc ELSE "GPU"
             e == Answer(d, x).energy
  <2>1. PICK V : BuiltIn(V)
    BY <1>2 DEF GenLayer, TypeInv, LayersTyped
  <2>2. x \in Layers(Heads, Width, V)
    BY <1>2, <2>1, GenLayers
  <2>3. x.type \in LayerTypes
    BY <2>2 DEF Layers
  <2>4. gen_energies' = [gen_energies EXCEPT ![x.type] = Plus(gen_energies[x.type], e)]
    BY <1>2 DEF GenLayer, acc_energy
  <2>5. gen_energies \in [LayerTypes -> Amounts]
    BY <1>2 DEF TypeInv, EnergiesTyped
  <2>6. x.type \in Transfers => e.mem = 0 /\ e.comp = 0
    <3> SUFFICES ASSUME x.type \in Transfers PROVE e.mem = 0 /\ e.comp = 0
      OBVIOUS
    <3>1. d = "PIM" => x.type = "X2G"
      BY DEF Transfers, OnAcc
    <3>2. e = [Zero EXCEPT !.comm = cost[d][x.name].comm] \/ e = Zero
      <4> HIDE DEF x, d
      <4>1. CASE d = "PIM"
        <5>1. Answer(d, x) = PimAnswer(x) /\ x.type = "X2G"
          BY <3>1, <4>1 DEF Answer
        <5> QED BY <4>1, <5>1 DEF PimAnswer
      <4>2. CASE d # "PIM"
        <5>1. Answer(d, x) = XpuAnswer(d, x)
          BY <4>2 DEF Answer
        <5> QED BY <4>2, <5>1 DEF XpuAnswer
      <4> QED BY <4>1, <4>2
    <3> HIDE DEF e
    <3> QED BY <3>2 DEF Zero
  <2> HIDE DEF x, e
  <2> SUFFICES ASSUME NEW t \in Transfers PROVE gen_energies'[t].mem = 0 /\ gen_energies'[t].comp = 0
    BY DEF TransfersInv
  <2>7. t \in LayerTypes /\ gen_energies[t].mem = 0 /\ gen_energies[t].comp = 0
    BY <1>2 DEF TransfersInv, Transfers, LayerTypes
  <2>8. CASE t = x.type
    <3>1. gen_energies'[t] = Plus(gen_energies[t], e)
      BY <2>3, <2>4, <2>5, <2>8
    <3> QED BY <2>6, <2>7, <2>8, <3>1 DEF Plus
  <2>9. CASE t # x.type
    BY <2>4, <2>5, <2>7, <2>9
  <2> QED BY <2>8, <2>9
<1>3. ASSUME TransfersInv, UNCHANGED gen_energies PROVE TransfersInv'
  BY <1>3 DEF TransfersInv
<1>4. ASSUME [Next]_vars PROVE GenLayer \/ UNCHANGED gen_energies
  BY <1>4 DEF Next, vars, NewSystem, set_xpu, set_accelerator, Build, SumLayer, LayerFails, Fail, Pipeline,
     Report, ReportFails, write_csv, totals
<1> QED BY <1>1, <1>2, <1>3, <1>4

\* The times of the first token, of all decoders of the model.
WholeModel == [i \in DOMAIN s_perf |-> s_perf[i] * ndec]

\* The row write_csv writes.
Row ==
  LET cap == get_required_mem_capacity(args.model, args.batch, args.lin, args.lout) IN
  <<num_xpu, cap[1] + cap[2] + cap[3],
    (s_flops * ndec) \div (args.lout - 1), (g_flops * ndec) \div (args.lout - 1)>> \o perf_all \o energy_all

\* The report is made of the layers and energies as they are.
Reported ==
  perf_all = WholeModel \o PerStage(g_perf) /\ energy_all = PerStage(energies) /\ args.lout > 1

\* Once reported, layers and energies stay; there is one report, and one row.
ReportInv ==
  /\ pc \notin {"main", "done"} => csv = <<>>
  /\ pc \in {"write", "done"} => Reported
  /\ pc = "done" => csv = <<Header, Row>>

LEMMA SameReport ==
  ASSUME UNCHANGED <<args, sum_decoder, gen_decoder, gen_energies, unit_energy>>
  PROVE  WholeModel' = WholeModel /\ PerStage(g_perf)' = PerStage(g_perf)
           /\ PerStage(energies)' = PerStage(energies)
<1>1. ndec' = ndec /\ args' = args
  BY DEF ndec
<1>2. s_perf' = s_perf
  BY DEF s_perf
<1>3. g_perf' = g_perf
  BY DEF g_perf
<1>4. energies' = energies
  BY DEF energies
<1>5. WholeModel' = WholeModel
  BY <1>1, <1>2 DEF WholeModel
<1>6. PerStage(g_perf)' = PerStage(g_perf)
  BY <1>1, <1>3 DEF PerStage
<1>7. PerStage(energies)' = PerStage(energies)
  BY <1>1, <1>4 DEF PerStage
<1> QED BY <1>5, <1>6, <1>7

LEMMA TwoRows ==
  ASSUME NEW h, NEW r
  PROVE  <<h>> \o <<r>> = <<h, r>>
<1> DEFINE S == {h, r}
           s == <<h>>
           t == <<r>>
           u == <<h, r>>
           v == s \o t
<1>1. /\ s \in Seq(S) /\ t \in Seq(S) /\ u \in Seq(S) /\ Len(s) = 1 /\ Len(t) = 1 /\ Len(u) = 2
      /\ s[1] = h /\ t[1] = r /\ u[1] = h /\ u[2] = r
  OBVIOUS
<1> HIDE DEF S, s, t, u
<1>2. v \in Seq(S) /\ Len(v) = 2 /\ v[1] = s[1] /\ v[2] = t[1]
  BY <1>1, ConcatProperties
<1> HIDE DEF v
<1>3. v = u
  BY <1>1, <1>2, SeqEqual
<1> QED BY <1>3 DEF s, t, u, v

LEMMA ReportStep ==
  ASSUME TypeInv, ReportInv, [Next]_vars
  PROVE  ReportInv'
<1>1. CASE Report
  <2>1. /\ pc = "report" /\ pc' \in {"sum", "write"} /\ args.lout > 1
        /\ perf_all' = WholeModel \o PerStage(g_perf) /\ energy_all' = PerStage(energies)
        /\ UNCHANGED <<args, sum_decoder, gen_decoder, gen_energies, unit_energy, csv>>
    BY <1>1 DEF Report, decoders, WholeModel
  <2>2. Reported'
    BY <2>1, SameReport DEF Reported
  <2> QED BY <2>1, <2>2 DEF ReportInv
<1>2. CASE write_csv
  <2>1. /\ pc = "write" /\ pc' = "done" /\ csv' = (IF csv = <<>> THEN <<Header>> ELSE csv) \o <<Row>>
        /\ UNCHANGED <<args, num_xpu, s_flops, g_flops, perf_all, energy_all>>
        /\ UNCHANGED <<args, sum_decoder, gen_decoder, gen_energies, unit_energy>>
    BY <1>2 DEF write_csv, Row, devices, decoders, totals
  <2>2. csv = <<>> /\ Reported
    BY <2>1 DEF ReportInv
  <2>3. Reported'
    BY <2>1, <2>2, SameReport DEF Reported
  <2>4. Row' = Row
    BY <2>1 DEF Row, ndec
  <2>5. csv' = <<Header, Row>>
    <3> DEFINE r == Row
               h == Header
    <3>1. csv' = <<h>> \o <<r>>
      BY <2>1, <2>2
    <3> HIDE DEF r, h
    <3>2. csv' = <<h, r>>
      BY <3>1, TwoRows
    <3> QED BY <3>2 DEF r, h
  <2> QED BY <2>1, <2>3, <2>4, <2>5 DEF ReportInv
<1>3. CASE NewSystem
  BY <1>3 DEF NewSystem, ReportInv
<1>4. CASE set_xpu \/ set_accelerator \/ Build \/ SumLayer \/ GenLayer \/ Pipeline
  <2>1. csv' = csv /\ pc \notin {"main", "done"} /\ pc' \notin {"main", "write", "done"}
    BY <1>4 DEF set_xpu, set_accelerator, Build, SumLayer, GenLayer, Pipeline, NextStage, report
  <2> QED BY <2>1 DEF ReportInv
<1>5. CASE LayerFails \/ ReportFails
  <2>1. csv' = csv /\ pc \notin {"main", "done"} /\ pc' = "failed"
    BY <1>5 DEF LayerFails, ReportFails, Fail, report
  <2> QED BY <2>1 DEF ReportInv
<1>6. CASE UNCHANGED vars
  <2>1. /\ UNCHANGED <<args, num_xpu, s_flops, g_flops, perf_all, energy_all, pc, csv>>
        /\ UNCHANGED <<args, sum_decoder, gen_decoder, gen_energies, unit_energy>>
    BY <1>6 DEF vars, devices, decoders, totals, report
  <2>2. Row' = Row
    BY <2>1 DEF Row, ndec
  <2>3. Reported' <=> Reported
    BY <2>1, SameReport DEF Reported
  <2> QED BY <2>1, <2>2, <2>3 DEF ReportInv
<1> QED BY <1>1, <1>2, <1>3, <1>4, <1>5, <1>6 DEF Next

LEMMA ReportedAlways == Spec => []ReportInv
<1>1. Init => ReportInv
  BY DEF Init, ReportInv
<1> QED BY <1>1, ReportStep, Typed, PTL DEF Spec

LEMMA TimeColumns ==
  ASSUME TimesInv, NEW V, BuiltIn(V)
  PROVE  /\ s_perf \in Seq(Int) /\ Len(s_perf) = 7
         /\ s_perf[1] = s_perf[2] + s_perf[3] + s_perf[4] + s_perf[5] + s_perf[6] + s_perf[7]
         /\ g_perf \in Seq(Int) /\ Len(g_perf) = 13
         /\ g_perf[1] = TimeOf(FlattenSeq(gen_decoder), "type", LayerTypes)
         /\ g_perf[1] = g_perf[2] + g_perf[3] + g_perf[4] + g_perf[5] + g_perf[11]
         /\ g_perf[3] = g_perf[6] + g_perf[7] + g_perf[8]
         /\ g_perf[4] = g_perf[9] + g_perf[10]
         /\ g_perf[5] = g_perf[12] + g_perf[13]
<1> DEFINE Good == {x \in Layers(Heads, Width, V) : x.exec_time \in Int}
           all == FlattenSeq(gen_decoder)
<1>1. sum_decoder \in Seq(Good) /\ gen_decoder \in Seq(Seq(Good))
  <2>1. ASSUME NEW s \in Decoder(Heads, Width, V), WholeTimes(s) PROVE s \in Seq(Good)
    <3>1. s \in Seq(Layers(Heads, Width, V)) /\ DOMAIN s = 1 .. Len(s) /\ Len(s) \in Nat
      BY LenProperties DEF Decoder
    <3>2. \A k \in 1 .. Len(s) : s[k] \in Good
      BY <2>1, <3>1 DEF WholeTimes
    <3> HIDE DEF Good
    <3> QED BY <3>1, <3>2
  <2>2. sum_decoder \in Seq(Good)
    BY <2>1 DEF BuiltIn, TimesInv
  <2>3. gen_decoder \in Seq(Seq(Good))
    <3>1. /\ gen_decoder \in Seq(Decoder(Heads, Width, V)) /\ DOMAIN gen_decoder = 1 .. Len(gen_decoder)
          /\ Len(gen_decoder) \in Nat
      BY LenProperties DEF BuiltIn
    <3>2. \A s \in 1 .. Len(gen_decoder) : gen_decoder[s] \in Decoder(Heads, Width, V)
      BY <3>1
    <3>3. \A s \in 1 .. Len(gen_decoder) : gen_decoder[s] \in Seq(Good)
      BY <2>1, <3>1, <3>2 DEF TimesInv
    <3> DEFINE G == Seq(Good)
    <3> HIDE DEF G
    <3>4. \A s \in 1 .. Len(gen_decoder) : gen_decoder[s] \in G
      BY <3>3 DEF G
    <3>5. gen_decoder \in Seq(G)
      BY <3>1, <3>4
    <3> QED BY <3>5 DEF G
  <2> QED BY <2>2, <2>3
<1>2. all \in Seq(Good)
  <2> HIDE DEF Good
  <2> QED BY <1>1, FlattenType
<1>3. ASSUME NEW s \in Seq(Good)
      PROVE  /\ IsFiniteSet(DOMAIN s) /\ WholeTimes(s)
             /\ \A k \in DOMAIN s : s[k].type = "FC" <=> s[k].name \in Projections
  <2>1. DOMAIN s = 1 .. Len(s) /\ Len(s) \in Nat /\ \A k \in DOMAIN s : s[k] \in Good
    BY LenProperties
  <2>2. IsFiniteSet(DOMAIN s)
    BY <2>1, FS_Interval
  <2>3. \A x \in Good : x.exec_time \in Int /\ (x.type = "FC" <=> x.name \in Projections)
    BY DEF Layers
  <2> QED BY <2>1, <2>2, <2>3 DEF WholeTimes
<1> HIDE DEF all, Good
<1>4. /\ s_perf \in Seq(Int) /\ Len(s_perf) = 7
      /\ s_perf[1] = s_perf[2] + s_perf[3] + s_perf[4] + s_perf[5] + s_perf[6] + s_perf[7]
  <2> DEFINE Of(S) == TimeOf(sum_decoder, "type", S)
             t1 == Of(LayerTypes \ {"X2G"})
             t2 == Of({"MATMUL"})
             t3 == Of({"FC"})
             t4 == Of({"G2G"})
             t5 == Of({"SOFTMAX"})
             t6 == Of({"ACT"})
             t7 == Of({"NORM"})
  <2>1. /\ \A S \in SUBSET LayerTypes : Of(S) \in Int
        /\ t1 = t2 + t3 + t4 + t5 + t6 + t7
    BY <1>1, <1>3, TimesByType
  <2>2. {LayerTypes \ {"X2G"}, {"MATMUL"}, {"FC"}, {"G2G"}, {"SOFTMAX"}, {"ACT"}, {"NORM"}} \subseteq SUBSET LayerTypes
    BY DEF LayerTypes
  <2>3. t1 \in Int /\ t2 \in Int /\ t3 \in Int /\ t4 \in Int /\ t5 \in Int /\ t6 \in Int /\ t7 \in Int
    <3> HIDE DEF Of
    <3> QED BY <2>1, <2>2
  <2>4. s_perf = <<t1, t2, t3, t4, t5, t6, t7>>
    BY DEF s_perf
  <2> HIDE DEF t1, t2, t3, t4, t5, t6, t7
  <2> QED BY <2>1, <2>3, <2>4
<1>5. /\ g_perf \in Seq(Int) /\ Len(g_perf) = 13
      /\ g_perf[1] = TimeOf(all, "type", LayerTypes)
      /\ g_perf[1] = g_perf[2] + g_perf[3] + g_perf[4] + g_perf[5] + g_perf[11]
      /\ g_perf[3] = g_perf[6] + g_perf[7] + g_perf[8]
      /\ g_perf[4] = g_perf[9] + g_perf[10]
      /\ g_perf[5] = g_perf[12] + g_perf[13]
  <2> DEFINE Of(S) == TimeOf(all, "type", S)
             Named(S) == TimeOf(all, "name", S)
             t1 == Of(LayerTypes)
             t2 == Of({"MATMUL"})
             t3 == Of({"FC"})
             t4 == Of({"G2G", "X2G"})
             t5 == Of({"ACT", "NORM"})
             t6 == Named({"qkv"})
             t7 == Named({"proj"})
             t8 == Named({"ff1", "ff2", "ff3"})
             t9 == Of({"G2G"})
             t10 == Of({"X2G"})
             t11 == Of({"SOFTMAX"})
             t12 == Of({"ACT"})
             t13 == Of({"NORM"})
  <2>1. /\ \A S \in SUBSET LayerTypes : Of(S) \in Int
        /\ \A S \in SUBSET LayerNames : Named(S) \in Int
        /\ t1 = t2 + t3 + t4 + t5 + t11 /\ t4 = t9 + t10 /\ t5 = t12 + t13 /\ t3 = t6 + t7 + t8
    BY <1>2, <1>3, TimesByType
  <2>2. /\ {LayerTypes, {"MATMUL"}, {"FC"}, {"G2G"}, {"SOFTMAX"}, {"ACT"}, {"NORM"}, {"X2G"},
            {"G2G", "X2G"}, {"ACT", "NORM"}} \subseteq SUBSET LayerTypes
        /\ {{"qkv"}, {"proj"}, {"ff1", "ff2", "ff3"}} \subseteq SUBSET LayerNames
    BY DEF LayerTypes, LayerNames
  <2>3. /\ t1 \in Int /\ t2 \in Int /\ t3 \in Int /\ t4 \in Int /\ t5 \in Int /\ t9 \in Int /\ t10 \in Int
        /\ t11 \in Int /\ t12 \in Int /\ t13 \in Int
        /\ t6 \in Int /\ t7 \in Int /\ t8 \in Int
    <3> HIDE DEF Of, Named
    <3> QED BY <2>1, <2>2
  <2>4. g_perf = <<t1, t2, t3, t4, t5, t6, t7, t8, t9, t10, t11, t12, t13>>
    BY DEF g_perf, all
  <2>5. t1 = TimeOf(all, "type", LayerTypes)
    OBVIOUS
  <2> HIDE DEF t1, t2, t3, t4, t5, t6, t7, t8, t9, t10, t11, t12, t13
  <2>6. /\ g_perf \in Seq(Int) /\ Len(g_perf) = 13
        /\ g_perf[1] = t1 /\ g_perf[2] = t2 /\ g_perf[3] = t3 /\ g_perf[4] = t4 /\ g_perf[5] = t5
        /\ g_perf[6] = t6 /\ g_perf[7] = t7 /\ g_perf[8] = t8 /\ g_perf[9] = t9 /\ g_perf[10] = t10
        /\ g_perf[11] = t11 /\ g_perf[12] = t12 /\ g_perf[13] = t13
    BY <2>3, <2>4
  <2> QED BY <2>1, <2>5, <2>6
<1> QED BY <1>4, <1>5 DEF all

LEMMA EnergyColumns ==
  ASSUME TypeInv, EnergiesAddUp, TransfersInv
  PROVE  /\ energies \in Seq(Int) /\ Len(energies) = 10
         /\ energies[1] = energies[4] + energies[5] + energies[6] + energies[7] + energies[8] + energies[9] + energies[10]
         /\ energies[2] = energies[4] + energies[6] + energies[8]
<1> DEFINE g == gen_energies
           u == unit_energy
           F(S, f) == [t \in S |-> g[t][f]]
           Of(S, f) == SumFunctionOnSet(F(S, f), S)
<1>1. g \in [LayerTypes -> Amounts] /\ u \in Amounts
  BY DEF TypeInv, EnergiesTyped
<1>2. \A t \in LayerTypes : \A f \in {"mem", "comp", "comm"} : g[t][f] \in Int
  BY <1>1 DEF Amounts
<1>3. {"FC", "MATMUL", "ACT", "SOFTMAX", "NORM", "G2G", "X2G"} = LayerTypes
  BY DEF LayerTypes
<1>4. ASSUME NEW f \in {"mem", "comp", "comm"}
      PROVE  /\ Of({"FC"}, f) = g["FC"][f]
             /\ Of({"MATMUL", "SOFTMAX"}, f) = g["MATMUL"][f] + g["SOFTMAX"][f]
             /\ Of({"ACT", "NORM"}, f) = g["ACT"][f] + g["NORM"][f]
  <2>1. ASSUME NEW S, NEW t \in S, S \subseteq LayerTypes PROVE F(S, f)[t] = g[t][f] /\ F(S, f)[t] \in Int
    BY <1>2, <2>1
  <2> DEFINE S1 == {"FC"}
             S2 == {"MATMUL", "SOFTMAX"}
             S3 == {"ACT", "NORM"}
  <2>2. S1 \subseteq LayerTypes /\ S2 \subseteq LayerTypes /\ S3 \subseteq LayerTypes
    BY <1>3
  <2>3. "FC" \in S1 /\ "MATMUL" \in S2 /\ "SOFTMAX" \in S2 /\ "ACT" \in S3 /\ "NORM" \in S3
    OBVIOUS
  <2> DEFINE f1 == F(S1, f)
             f2 == F(S2, f)
             f3 == F(S3, f)
  <2>4. /\ f1["FC"] = g["FC"][f] /\ f1["FC"] \in Int
        /\ f2["MATMUL"] = g["MATMUL"][f] /\ f2["MATMUL"] \in Int
        /\ f2["SOFTMAX"] = g["SOFTMAX"][f] /\ f2["SOFTMAX"] \in Int
        /\ f3["ACT"] = g["ACT"][f] /\ f3["ACT"] \in Int /\ f3["NORM"] = g["NORM"][f] /\ f3["NORM"] \in Int
    BY <2>1, <2>2, <2>3
  <2> HIDE DEF f1, f2, f3
  <2>5. SumFunctionOnSet(f1, {"FC"}) = f1["FC"]
    BY <2>4, SumOfOne
  <2>6. SumFunctionOnSet(f2, {"MATMUL", "SOFTMAX"}) = f2["MATMUL"] + f2["SOFTMAX"]
    BY <2>4, SumOfTwo
  <2>7. SumFunctionOnSet(f3, {"ACT", "NORM"}) = f3["ACT"] + f3["NORM"]
    BY <2>4, SumOfTwo
  <2> QED BY <2>4, <2>5, <2>6, <2>7 DEF f1, f2, f3
<1>5. Of(LayerTypes, "comm") = u["comm"] /\ u["comm"] \in Int
  <2> DEFINE h == F(LayerTypes, "comm")
  <2>1. \A t \in LayerTypes : h[t] = g[t].comm /\ h[t] \in Int
    BY <1>2
  <2> HIDE DEF h
  <2> DEFINE L == LayerTypes
             s1 == {"X2G"}
             s2 == {"G2G", "X2G"}
             s3 == {"NORM", "G2G", "X2G"}
             s4 == {"SOFTMAX", "NORM", "G2G", "X2G"}
             s5 == {"ACT", "SOFTMAX", "NORM", "G2G", "X2G"}
             s6 == {"MATMUL", "ACT", "SOFTMAX", "NORM", "G2G", "X2G"}
             sum == SumFunctionOnSet(h, L)
  <2>2. Lists(L, "FC", "MATMUL", "ACT", "SOFTMAX", "NORM", "G2G", "X2G", s6, s5, s4, s3, s2, s1)
    BY <1>3 DEF Lists, Adds
  <2>3. u.comm = g["FC"].comm + g["MATMUL"].comm + g["ACT"].comm + g["SOFTMAX"].comm + g["NORM"].comm
                   + g["G2G"].comm + g["X2G"].comm
    BY DEF EnergiesAddUp, OfAllTypes
  <2>4. /\ h["FC"] = g["FC"].comm /\ h["MATMUL"] = g["MATMUL"].comm /\ h["ACT"] = g["ACT"].comm
        /\ h["SOFTMAX"] = g["SOFTMAX"].comm /\ h["NORM"] = g["NORM"].comm /\ h["G2G"] = g["G2G"].comm
        /\ h["X2G"] = g["X2G"].comm
    BY <1>3, <2>1
  <2>5. sum = u.comm
    <3>1. Integral(h, L)
      BY <2>1 DEF Integral
    <3> HIDE DEF L, s1, s2, s3, s4, s5, s6
    <3>2. SumFunctionOnSet(h, L)
            = h["FC"] + h["MATMUL"] + h["ACT"] + h["SOFTMAX"] + h["NORM"] + h["G2G"] + h["X2G"]
      BY <2>2, <3>1, SumOfSeven
    <3> QED BY <2>3, <2>4, <3>2
  <2>6. u.comm \in Int
    BY <1>1 DEF Amounts
  <2> QED BY <2>5, <2>6 DEF h
<1>6. ASSUME NEW f \in {"mem", "comp"}
      PROVE  /\ u[f] = Of({"FC"}, f) + Of({"MATMUL", "SOFTMAX"}, f) + Of({"ACT", "NORM"}, f) /\ u[f] \in Int
             /\ Of({"FC"}, f) \in Int /\ Of({"MATMUL", "SOFTMAX"}, f) \in Int /\ Of({"ACT", "NORM"}, f) \in Int
  <2>1. g["G2G"][f] = 0 /\ g["X2G"][f] = 0
    BY DEF TransfersInv, Transfers
  <2>2. u[f] = g["FC"][f] + g["MATMUL"][f] + g["ACT"][f] + g["SOFTMAX"][f] + g["NORM"][f] + g["G2G"][f] + g["X2G"][f]
    BY DEF EnergiesAddUp, OfAllTypes
  <2>3. /\ g["FC"][f] \in Int /\ g["MATMUL"][f] \in Int /\ g["ACT"][f] \in Int /\ g["SOFTMAX"][f] \in Int
        /\ g["NORM"][f] \in Int
    BY <1>2, <1>3
  <2> HIDE DEF Of
  <2> QED BY <1>4, <2>1, <2>2, <2>3
<1> DEFINE fm == Of({"FC"}, "mem")
           fc == Of({"FC"}, "comp")
           mm == Of({"MATMUL", "SOFTMAX"}, "mem")
           mc == Of({"MATMUL", "SOFTMAX"}, "comp")
           am == Of({"ACT", "NORM"}, "mem")
           ac == Of({"ACT", "NORM"}, "comp")
           cm == Of(LayerTypes, "comm")
<1>7. energies = <<u.mem + u.comp + u.comm, u.mem, u.comp, fm, fc, mm, mc, am, ac, cm>>
  BY DEF energies
<1>8. /\ u.mem = fm + mm + am /\ u.comp = fc + mc + ac /\ u.comm = cm
      /\ fm \in Int /\ fc \in Int /\ mm \in Int /\ mc \in Int /\ am \in Int /\ ac \in Int /\ cm \in Int
  <2> HIDE DEF Of
  <2> QED BY <1>5, <1>6
<1> HIDE DEF u, fm, fc, mm, mc, am, ac, cm
<1> DEFINE t1 == u.mem + u.comp + u.comm
<1>9. t1 = fm + fc + mm + mc + am + ac + cm /\ t1 \in Int /\ u.mem \in Int /\ u.comp \in Int
  BY <1>8
<1> DEFINE m == u.mem
           c == u.comp
<1>10. energies = <<t1, m, c, fm, fc, mm, mc, am, ac, cm>> /\ m \in Int /\ c \in Int /\ m = fm + mm + am
  BY <1>7, <1>8, <1>9
<1> HIDE DEF t1, m, c
<1>11. energies \in Seq(Int) /\ Len(energies) = 10
  BY <1>8, <1>9, <1>10
<1> QED BY <1>8, <1>9, <1>10, <1>11

-----------------------------------------------------------------------------
(* The values in the columns, by their names.                              *)

\* The column of that name is the k-th.
At(name, k) == k \in DOMAIN Header /\ \A i \in DOMAIN Header : Header[i] = name <=> i = k

LEMMA HeaderPlaces ==
  /\ At("s_time", 5) /\ At("s_matmul", 6) /\ At("s_fc", 7) /\ At("s_comm", 8)
  /\ At("s_softmax", 9) /\ At("s_act", 10) /\ At("s_lnorm", 11) /\ At("g_time", 12)
  /\ At("g_matmul", 13) /\ At("g_fc", 14) /\ At("g_comm", 15) /\ At("g_etc", 16)
  /\ At("g_qkv_time", 17) /\ At("g_prj_time", 18) /\ At("g_ff_time", 19) /\ At("g2g_comm", 20)
  /\ At("c2g_comm", 21) /\ At("g_softmax", 22) /\ At("g_act", 23) /\ At("g_lnorm", 24)
  /\ At("g_energy", 25) /\ At("g_dram_energy", 26) /\ At("g_fc_mem_energy", 28) /\ At("g_fc_comp_energy", 29)
  /\ At("g_attn_mem_energy", 30) /\ At("g_attn_comp_energy", 31) /\ At("g_etc_mem_energy", 32)
  /\ At("g_etc_comp_energy", 33)
  /\ At("g_comm_energy", 34)
<1>1. DOMAIN Header = 1 .. 34
  BY DEF Header
<1>2. /\ At("s_time", 5) /\ At("s_matmul", 6) /\ At("s_fc", 7) /\ At("s_comm", 8)
      /\ At("s_softmax", 9) /\ At("s_act", 10) /\ At("s_lnorm", 11)
  <2>1. \A i \in 1 .. 34 :
          /\ (Header[i] = "s_time" <=> i = 5) /\ (Header[i] = "s_matmul" <=> i = 6)
          /\ (Header[i] = "s_fc" <=> i = 7) /\ (Header[i] = "s_comm" <=> i = 8)
          /\ (Header[i] = "s_softmax" <=> i = 9) /\ (Header[i] = "s_act" <=> i = 10)
          /\ (Header[i] = "s_lnorm" <=> i = 11)
    BY DEF Header
  <2> QED BY <1>1, <2>1 DEF At
<1>3. /\ At("g_time", 12) /\ At("g_matmul", 13) /\ At("g_fc", 14) /\ At("g_comm", 15)
      /\ At("g_etc", 16) /\ At("g_qkv_time", 17) /\ At("g_prj_time", 18) /\ At("g_ff_time", 19)
      /\ At("g2g_comm", 20) /\ At("c2g_comm", 21) /\ At("g_softmax", 22) /\ At("g_act", 23)
      /\ At("g_lnorm", 24)
  <2>1. \A i \in 1 .. 34 :
          /\ (Header[i] = "g_time" <=> i = 12) /\ (Header[i] = "g_matmul" <=> i = 13)
          /\ (Header[i] = "g_fc" <=> i = 14) /\ (Header[i] = "g_comm" <=> i = 15)
          /\ (Header[i] = "g_etc" <=> i = 16) /\ (Header[i] = "g_qkv_time" <=> i = 17)
          /\ (Header[i] = "g_prj_time" <=> i = 18) /\ (Header[i] = "g_ff_time" <=> i = 19)
          /\ (Header[i] = "g2g_comm" <=> i = 20) /\ (Header[i] = "c2g_comm" <=> i = 21)
          /\ (Header[i] = "g_softmax" <=> i = 22) /\ (Header[i] = "g_act" <=> i = 23)
          /\ (Header[i] = "g_lnorm" <=> i = 24)
    BY DEF Header
  <2> QED BY <1>1, <2>1 DEF At
<1>4. /\ At("g_energy", 25) /\ At("g_dram_energy", 26) /\ At("g_fc_mem_energy", 28)
      /\ At("g_fc_comp_energy", 29)
      /\ At("g_attn_mem_energy", 30) /\ At("g_attn_comp_energy", 31) /\ At("g_etc_mem_energy", 32)
      /\ At("g_etc_comp_energy", 33)
      /\ At("g_comm_energy", 34)
  <2>1. \A i \in 1 .. 34 :
          /\ (Header[i] = "g_energy" <=> i = 25) /\ (Header[i] = "g_dram_energy" <=> i = 26)
          /\ (Header[i] = "g_fc_mem_energy" <=> i = 28) /\ (Header[i] = "g_fc_comp_energy" <=> i = 29)
          /\ (Header[i] = "g_attn_mem_energy" <=> i = 30) /\ (Header[i] = "g_attn_comp_energy" <=> i = 31)
          /\ (Header[i] = "g_etc_mem_energy" <=> i = 32) /\ (Header[i] = "g_etc_comp_energy" <=> i = 33)
          /\ (Header[i] = "g_comm_energy" <=> i = 34)
    BY DEF Header
  <2> QED BY <1>1, <2>1 DEF At
<1> QED BY <1>2, <1>3, <1>4

\* A row of four, seven, thirteen and ten columns.
Parts4(S, r, a, b, c, d) ==
  /\ {a, b, c, d} \subseteq Seq(S) /\ r = a \o (b \o c) \o d
  /\ Len(a) = 4 /\ Len(b) = 7 /\ Len(c) = 13 /\ Len(d) = 10

\* Where the parts of a row are.
LEMMA FourParts ==
  ASSUME NEW S, NEW r, NEW a, NEW b, NEW c, NEW d, Parts4(S, r, a, b, c, d)
  PROVE  /\ \A k \in 5 .. 11 : r[k] = b[k - 4]
         /\ \A k \in 12 .. 24 : r[k] = c[k - 11]
         /\ \A k \in 25 .. 34 : r[k] = d[k - 24]
<1> DEFINE p == b \o c
           q == a \o p
<1>0. /\ a \in Seq(S) /\ b \in Seq(S) /\ c \in Seq(S) /\ d \in Seq(S) /\ r = a \o (b \o c) \o d
      /\ Len(a) = 4 /\ Len(b) = 7 /\ Len(c) = 13 /\ Len(d) = 10
  BY DEF Parts4
<1>1. p \in Seq(S) /\ Len(p) = 20 /\ \A k \in 1 .. 20 : p[k] = IF k <= 7 THEN b[k] ELSE c[k - 7]
  <2>1. /\ p \in Seq(S) /\ Len(p) = Len(b) + Len(c)
        /\ \A k \in 1 .. Len(b) + Len(c) : p[k] = IF k <= Len(b) THEN b[k] ELSE c[k - Len(b)]
    BY <1>0, ConcatProperties
  <2> HIDE DEF p
  <2> QED BY <1>0, <2>1
<1> HIDE DEF p
<1>2. q \in Seq(S) /\ Len(q) = 24 /\ \A k \in 1 .. 24 : q[k] = IF k <= 4 THEN a[k] ELSE p[k - 4]
  <2>1. /\ q \in Seq(S) /\ Len(q) = Len(a) + Len(p)
        /\ \A k \in 1 .. Len(a) + Len(p) : q[k] = IF k <= Len(a) THEN a[k] ELSE p[k - Len(a)]
    BY <1>0, <1>1, ConcatProperties
  <2> HIDE DEF q
  <2> QED BY <1>0, <1>1, <2>1
<1> HIDE DEF q
<1>3. \A k \in 1 .. 34 : r[k] = IF k <= 24 THEN q[k] ELSE d[k - 24]
  <2> DEFINE s == q \o d
  <2>0. r = s
    BY <1>0 DEF p, q
  <2>1a. \A k \in 1 .. Len(q) + Len(d) : s[k] = IF k <= Len(q) THEN q[k] ELSE d[k - Len(q)]
    BY <1>0, <1>2, ConcatProperties
  <2> HIDE DEF s
  <2>1. \A k \in 1 .. Len(q) + Len(d) : r[k] = IF k <= Len(q) THEN q[k] ELSE d[k - Len(q)]
    BY <2>0, <2>1a
  <2>2. Len(q) = 24 /\ Len(d) = 10 /\ 24 + 10 = 34
    BY <1>0, <1>2
  <2>3. \A k \in 1 .. 24 + 10 : r[k] = IF k <= 24 THEN q[k] ELSE d[k - 24]
    BY <2>1, <2>2, Zenon
  <2> QED BY <2>2, <2>3
<1>4. ASSUME NEW k \in 5 .. 11 PROVE r[k] = b[k - 4]
  <2> DEFINE j == k - 4
  <2>1. j \in 1 .. 20 /\ j <= 7 /\ k \in 1 .. 24 /\ k \in 1 .. 34 /\ ~ (k <= 4) /\ k <= 24
    OBVIOUS
  <2>2. r[k] = q[k]
    BY <1>3, <2>1
  <2>3. q[k] = p[k - 4]
    BY <1>2, <2>1
  <2>4. p[j] = b[j]
    <3> HIDE DEF j
    <3> QED BY <1>1, <2>1
  <2> QED BY <2>2, <2>3, <2>4
<1>5. ASSUME NEW k \in 12 .. 24 PROVE r[k] = c[k - 11]
  <2>1. (k - 4) - 7 = k - 11 /\ k - 4 \in 1 .. 20 /\ ~ (k - 4 <= 7) /\ k \in 1 .. 24 /\ k \in 1 .. 34
          /\ ~ (k <= 4) /\ k <= 24
    OBVIOUS
  <2>2. r[k] = q[k]
    BY <1>3, <2>1
  <2>3. q[k] = p[k - 4]
    BY <1>2, <2>1
  <2> DEFINE j == k - 4
  <2>4. p[j] = c[j - 7]
    <3> HIDE DEF j
    <3>1. j \in 1 .. 20 /\ ~ (j <= 7)
      BY <2>1 DEF j
    <3> QED BY <1>1, <3>1
  <2> QED BY <2>1, <2>2, <2>3, <2>4
<1>6. ASSUME NEW k \in 25 .. 34 PROVE r[k] = d[k - 24]
  <2>1. k \in 1 .. 34 /\ ~ (k <= 24)
    OBVIOUS
  <2> QED BY <1>3, <2>1
<1> QED BY <1>4, <1>5, <1>6

\* What a column holds of a total over the whole generation: its share for each token.
Share(x) == (x * ndec) \div (args.lout - 1)
Whole(x) == (x * ndec) % (args.lout - 1) = 0

LEMMA SharesAdd ==
  ASSUME args.lout - 1 \in Nat \ {0}, ndec \in Int, NEW x \in Int, NEW y \in Int, Whole(x), Whole(y)
  PROVE  x + y \in Int /\ Whole(x + y) /\ Share(x + y) = Share(x) + Share(y)
<1> DEFINE a == x * ndec
           b == y * ndec
           n == args.lout - 1
<1>1. a \in Int /\ b \in Int /\ n \in Nat \ {0} /\ a % n = 0 /\ b % n = 0
  BY DEF Whole
<1>2. (x + y) * ndec = a + b
  BY DEF a, b
<1> HIDE DEF a, b, n
<1>3. (a + b) % n = 0 /\ (a + b) \div n = (a \div n) + (b \div n)
  BY <1>1, QuotientSum
<1> QED BY <1>2, <1>3 DEF Whole, Share, a, b, n

LEMMA ThreeShares ==
  ASSUME args.lout - 1 \in Nat \ {0}, ndec \in Int,
         NEW a \in Int, NEW b \in Int, NEW c \in Int, Whole(a), Whole(b), Whole(c)
  PROVE  a + b + c \in Int /\ Whole(a + b + c) /\ Share(a + b + c) = Share(a) + Share(b) + Share(c)
<1> DEFINE x == a + b
<1>1. x \in Int /\ Whole(x) /\ Share(x) = Share(a) + Share(b)
  BY SharesAdd
<1> HIDE DEF x
<1>2. x + c \in Int /\ Whole(x + c) /\ Share(x + c) = Share(x) + Share(c)
  BY <1>1, SharesAdd
<1> QED BY <1>1, <1>2 DEF x

\* Numbers whose shares are exact.
Wholes5(a, b, c, d, e) == \A x \in {a, b, c, d, e} : x \in Int /\ Whole(x)
Wholes7(a, b, c, d, e, f, g) == \A x \in {a, b, c, d, e, f, g} : x \in Int /\ Whole(x)

LEMMA FiveShares ==
  ASSUME args.lout - 1 \in Nat \ {0}, ndec \in Int,
         NEW a, NEW b, NEW c, NEW d, NEW e, Wholes5(a, b, c, d, e)
  PROVE  /\ a + b + c + d + e \in Int /\ Whole(a + b + c + d + e)
         /\ Share(a + b + c + d + e) = Share(a) + Share(b) + Share(c) + Share(d) + Share(e)
<1>0. /\ a \in Int /\ b \in Int /\ c \in Int /\ d \in Int /\ e \in Int
      /\ Whole(a) /\ Whole(b) /\ Whole(c) /\ Whole(d) /\ Whole(e)
  BY DEF Wholes5
<1> DEFINE x == a + b + c
<1>1. x \in Int /\ Whole(x) /\ Share(x) = Share(a) + Share(b) + Share(c)
  BY <1>0, ThreeShares
<1> HIDE DEF x
<1>2. x + d + e \in Int /\ Whole(x + d + e) /\ Share(x + d + e) = Share(x) + Share(d) + Share(e)
  BY <1>0, <1>1, ThreeShares
<1> QED BY <1>1, <1>2 DEF x

LEMMA SevenShares ==
  ASSUME args.lout - 1 \in Nat \ {0}, ndec \in Int,
         NEW a, NEW b, NEW c, NEW d, NEW e, NEW f, NEW g, Wholes7(a, b, c, d, e, f, g)
  PROVE  Share(a + b + c + d + e + f + g)
           = Share(a) + Share(b) + Share(c) + Share(d) + Share(e) + Share(f) + Share(g)
<1>0. Wholes5(a, b, c, d, e) /\ f \in Int /\ g \in Int /\ Whole(f) /\ Whole(g)
  BY DEF Wholes5, Wholes7
<1> DEFINE x == a + b + c + d + e
<1>1. x \in Int /\ Whole(x) /\ Share(x) = Share(a) + Share(b) + Share(c) + Share(d) + Share(e)
  BY <1>0, FiveShares
<1> HIDE DEF x
<1>2. Share(x + f + g) = Share(x) + Share(f) + Share(g)
  BY <1>0, <1>1, ThreeShares
<1> QED BY <1>1, <1>2 DEF x

\* The columns of those names hold whole numbers.
Filled(S) == \A name \in S : Column(name) \in Int

LEMMA SumOfAdds ==
  ASSUME NEW S, NEW x, NEW T, Adds(S, x, T), IsFiniteSet(T), Filled(S)
  PROVE  IsFiniteSet(S) /\ Filled(T) /\ SumOf(S) = Column(x) + SumOf(T)
<1> DEFINE v == [name \in S |-> Column(name)]
           w == [name \in T |-> Column(name)]
<1>1. Integral(v, S) /\ v[x] = Column(x)
  BY DEF Integral, Filled, Adds
<1>2. \A name \in T : w[name] \in Int /\ v[name] = w[name]
  BY DEF Filled, Adds
<1>3. Filled(T)
  BY DEF Filled, Adds
<1> HIDE DEF v, w
<1>4. IsFiniteSet(S) /\ SumFunctionOnSet(v, S) = v[x] + SumFunctionOnSet(v, T)
  BY <1>1, SumAdds
<1>5. SumFunctionOnSet(v, T) = SumFunctionOnSet(w, T)
  BY <1>2, SumSame
<1> QED BY <1>1, <1>3, <1>4, <1>5 DEF SumOf, v, w

LEMMA SumOfNone == IsFiniteSet({}) /\ SumOf({}) = 0
BY FS_EmptySet, SumEmpty DEF SumOf

\* The columns that are parts of others.
Summed ==
  {"s_matmul", "s_fc", "s_comm", "s_softmax", "s_act", "s_lnorm", "g_matmul", "g_fc", "g_comm", "g_etc",
   "g_softmax", "g_qkv_time", "g_prj_time", "g_ff_time", "g2g_comm", "c2g_comm", "g_act", "g_lnorm",
   "g_fc_mem_energy", "g_fc_comp_energy", "g_attn_mem_energy", "g_attn_comp_energy", "g_etc_mem_energy",
   "g_etc_comp_energy", "g_comm_energy"}

LEMMA NamedSums ==
  ASSUME Filled(Summed)
  PROVE  /\ SumOf({"s_matmul", "s_fc", "s_comm", "s_softmax", "s_act", "s_lnorm"})
              = Column("s_matmul") + Column("s_fc") + Column("s_comm") + Column("s_softmax")
                + Column("s_act") + Column("s_lnorm")
         /\ SumOf({"g_matmul", "g_fc", "g_comm", "g_etc", "g_softmax"})
              = Column("g_matmul") + Column("g_fc") + Column("g_comm") + Column("g_etc")
                + Column("g_softmax")
         /\ SumOf({"g_qkv_time", "g_prj_time", "g_ff_time"})
              = Column("g_qkv_time") + Column("g_prj_time") + Column("g_ff_time")
         /\ SumOf({"g2g_comm", "c2g_comm"})
              = Column("g2g_comm") + Column("c2g_comm")
         /\ SumOf({"g_act", "g_lnorm"})
              = Column("g_act") + Column("g_lnorm")
         /\ SumOf({"g_fc_mem_energy", "g_fc_comp_energy", "g_attn_mem_energy",
                   "g_attn_comp_energy", "g_etc_mem_energy", "g_etc_comp_energy", "g_comm_energy"})
              = Column("g_fc_mem_energy") + Column("g_fc_comp_energy") + Column("g_attn_mem_energy")
                + Column("g_attn_comp_energy") + Column("g_etc_mem_energy") + Column("g_etc_comp_energy")
                + Column("g_comm_energy")
         /\ SumOf({"g_fc_mem_energy", "g_attn_mem_energy", "g_etc_mem_energy"})
              = Column("g_fc_mem_energy") + Column("g_attn_mem_energy") + Column("g_etc_mem_energy")
<1>1. \A S, x, T : Adds(S, x, T) /\ IsFiniteSet(T) /\ S \subseteq Summed
            => IsFiniteSet(S) /\ T \subseteq Summed /\ Column(x) \in Int /\ SumOf(S) = Column(x) + SumOf(T)
  <2> SUFFICES ASSUME NEW S, NEW x, NEW T, Adds(S, x, T), IsFiniteSet(T), S \subseteq Summed
               PROVE  IsFiniteSet(S) /\ T \subseteq Summed /\ Column(x) \in Int
                        /\ SumOf(S) = Column(x) + SumOf(T)
    OBVIOUS
  <2>1. Filled(S)
    BY DEF Filled
  <2>2. Column(x) \in Int /\ T \subseteq Summed
    BY DEF Adds, Filled
  <2> QED BY <2>1, <2>2, SumOfAdds
<1>2. IsFiniteSet({}) /\ SumOf({}) = 0
  BY SumOfNone
<1>3. SumOf({"s_matmul", "s_fc", "s_comm", "s_softmax", "s_act", "s_lnorm"})
         = Column("s_matmul") + Column("s_fc") + Column("s_comm") + Column("s_softmax")
           + Column("s_act") + Column("s_lnorm")
  <2> DEFINE s6 == {"s_matmul", "s_fc", "s_comm", "s_softmax", "s_act", "s_lnorm"}
             s5 == {"s_fc", "s_comm", "s_softmax", "s_act", "s_lnorm"}
             s4 == {"s_comm", "s_softmax", "s_act", "s_lnorm"}
             s3 == {"s_softmax", "s_act", "s_lnorm"}
             s2 == {"s_act", "s_lnorm"}
             s1 == {"s_lnorm"}
             s0 == {}
  <2>1. s6 \subseteq Summed /\ Adds(s6, "s_matmul", s5) /\ Adds(s5, "s_fc", s4) /\ Adds(s4, "s_comm", s3)
        /\ Adds(s3, "s_softmax", s2) /\ Adds(s2, "s_act", s1) /\ Adds(s1, "s_lnorm", s0)
    BY DEF Adds, Summed
  <2>2. IsFiniteSet(s0) /\ SumOf(s0) = 0
    BY <1>2
  <2> HIDE DEF s6, s5, s4, s3, s2, s1, s0
  <2>3. s5 \subseteq Summed /\ s4 \subseteq Summed /\ s3 \subseteq Summed /\ s2 \subseteq Summed
        /\ s1 \subseteq Summed /\ s0 \subseteq Summed
    BY <2>1 DEF Adds
  <2>4. IsFiniteSet(s1) /\ IsFiniteSet(s2) /\ IsFiniteSet(s3) /\ IsFiniteSet(s4) /\ IsFiniteSet(s5)
        /\ IsFiniteSet(s6)
    BY <1>1, <2>1, <2>2, <2>3
  <2>5. SumOf(s6) = Column("s_matmul") + SumOf(s5) /\ SumOf(s5) = Column("s_fc") + SumOf(s4)
        /\ SumOf(s4) = Column("s_comm") + SumOf(s3) /\ SumOf(s3) = Column("s_softmax") + SumOf(s2)
        /\ SumOf(s2) = Column("s_act") + SumOf(s1) /\ SumOf(s1) = Column("s_lnorm") + SumOf(s0)
    BY <1>1, <2>1, <2>2, <2>3, <2>4
  <2>6. Column("s_matmul") \in Int /\ Column("s_fc") \in Int /\ Column("s_comm") \in Int
        /\ Column("s_softmax") \in Int /\ Column("s_act") \in Int /\ Column("s_lnorm") \in Int
    BY <1>1, <2>1, <2>2, <2>3, <2>4
  <2>7. SumOf(s6)
          = Column("s_matmul") + Column("s_fc") + Column("s_comm") + Column("s_softmax")
            + Column("s_act") + Column("s_lnorm")
    BY <2>2, <2>5, <2>6
  <2> QED BY <2>7 DEF s6
<1>4. SumOf({"g_matmul", "g_fc", "g_comm", "g_etc", "g_softmax"})
         = Column("g_matmul") + Column("g_fc") + Column("g_comm") + Column("g_etc")
           + Column("g_softmax")
  <2> DEFINE s5 == {"g_matmul", "g_fc", "g_comm", "g_etc", "g_softmax"}
             s4 == {"g_fc", "g_comm", "g_etc", "g_softmax"}
             s3 == {"g_comm", "g_etc", "g_softmax"}
             s2 == {"g_etc", "g_softmax"}
             s1 == {"g_softmax"}
             s0 == {}
  <2>1. s5 \subseteq Summed /\ Adds(s5, "g_matmul", s4) /\ Adds(s4, "g_fc", s3) /\ Adds(s3, "g_comm", s2)
        /\ Adds(s2, "g_etc", s1) /\ Adds(s1, "g_softmax", s0)
    BY DEF Adds, Summed
  <2>2. IsFiniteSet(s0) /\ SumOf(s0) = 0
    BY <1>2
  <2> HIDE DEF s5, s4, s3, s2, s1, s0
  <2>3. s4 \subseteq Summed /\ s3 \subseteq Summed /\ s2 \subseteq Summed /\ s1 \subseteq Summed
        /\ s0 \subseteq Summed
    BY <2>1 DEF Adds
  <2>4. IsFiniteSet(s1) /\ IsFiniteSet(s2) /\ IsFiniteSet(s3) /\ IsFiniteSet(s4) /\ IsFiniteSet(s5)
    BY <1>1, <2>1, <2>2, <2>3
  <2>5. SumOf(s5) = Column("g_matmul") + SumOf(s4) /\ SumOf(s4) = Column("g_fc") + SumOf(s3)
        /\ SumOf(s3) = Column("g_comm") + SumOf(s2) /\ SumOf(s2) = Column("g_etc") + SumOf(s1)
        /\ SumOf(s1) = Column("g_softmax") + SumOf(s0)
    BY <1>1, <2>1, <2>2, <2>3, <2>4
  <2>6. Column("g_matmul") \in Int /\ Column("g_fc") \in Int /\ Column("g_comm") \in Int
        /\ Column("g_etc") \in Int /\ Column("g_softmax") \in Int
    BY <1>1, <2>1, <2>2, <2>3, <2>4
  <2>7. SumOf(s5)
          = Column("g_matmul") + Column("g_fc") + Column("g_comm") + Column("g_etc")
            + Column("g_softmax")
    BY <2>2, <2>5, <2>6
  <2> QED BY <2>7 DEF s5
<1>5. SumOf({"g_qkv_time", "g_prj_time", "g_ff_time"})
         = Column("g_qkv_time") + Column("g_prj_time") + Column("g_ff_time")
  <2> DEFINE s3 == {"g_qkv_time", "g_prj_time", "g_ff_time"}
             s2 == {"g_prj_time", "g_ff_time"}
             s1 == {"g_ff_time"}
             s0 == {}
  <2>1. s3 \subseteq Summed /\ Adds(s3, "g_qkv_time", s2) /\ Adds(s2, "g_prj_time", s1)
        /\ Adds(s1, "g_ff_time", s0)
    BY DEF Adds, Summed
  <2>2. IsFiniteSet(s0) /\ SumOf(s0) = 0
    BY <1>2
  <2> HIDE DEF s3, s2, s1, s0
  <2>3. s2 \subseteq Summed /\ s1 \subseteq Summed /\ s0 \subseteq Summed
    BY <2>1 DEF Adds
  <2>4. IsFiniteSet(s1) /\ IsFiniteSet(s2) /\ IsFiniteSet(s3)
    BY <1>1, <2>1, <2>2, <2>3
  <2>5. SumOf(s3) = Column("g_qkv_time") + SumOf(s2) /\ SumOf(s2) = Column("g_prj_time") + SumOf(s1)
        /\ SumOf(s1) = Column("g_ff_time") + SumOf(s0)
    BY <1>1, <2>1, <2>2, <2>3, <2>4
  <2>6. Column("g_qkv_time") \in Int /\ Column("g_prj_time") \in Int /\ Column("g_ff_time") \in Int
    BY <1>1, <2>1, <2>2, <2>3, <2>4
  <2>7. SumOf(s3)
          = Column("g_qkv_time") + Column("g_prj_time") + Column("g_ff_time")
    BY <2>2, <2>5, <2>6
  <2> QED BY <2>7 DEF s3
<1>6. SumOf({"g2g_comm", "c2g_comm"})
         = Column("g2g_comm") + Column("c2g_comm")
  <2> DEFINE s2 == {"g2g_comm", "c2g_comm"}
             s1 == {"c2g_comm"}
             s0 == {}
  <2>1. s2 \subseteq Summed /\ Adds(s2, "g2g_comm", s1) /\ Adds(s1, "c2g_comm", s0)
    BY DEF Adds, Summed
  <2>2. IsFiniteSet(s0) /\ SumOf(s0) = 0
    BY <1>2
  <2> HIDE DEF s2, s1, s0
  <2>3. s1 \subseteq Summed /\ s0 \subseteq Summed
    BY <2>1 DEF Adds
  <2>4. IsFiniteSet(s1) /\ IsFiniteSet(s2)
    BY <1>1, <2>1, <2>2, <2>3
  <2>5. SumOf(s2) = Column("g2g_comm") + SumOf(s1) /\ SumOf(s1) = Column("c2g_comm") + SumOf(s0)
    BY <1>1, <2>1, <2>2, <2>3, <2>4
  <2>6. Column("g2g_comm") \in Int /\ Column("c2g_comm") \in Int
    BY <1>1, <2>1, <2>2, <2>3, <2>4
  <2>7. SumOf(s2)
          = Column("g2g_comm") + Column("c2g_comm")
    BY <2>2, <2>5, <2>6
  <2> QED BY <2>7 DEF s2
<1>7. SumOf({"g_act", "g_lnorm"})
         = Column("g_act") + Column("g_lnorm")
  <2> DEFINE s2 == {"g_act", "g_lnorm"}
             s1 == {"g_lnorm"}
             s0 == {}
  <2>1. s2 \subseteq Summed /\ Adds(s2, "g_act", s1) /\ Adds(s1, "g_lnorm", s0)
    BY DEF Adds, Summed
  <2>2. IsFiniteSet(s0) /\ SumOf(s0) = 0
    BY <1>2
  <2> HIDE DEF s2, s1, s0
  <2>3. s1 \subseteq Summed /\ s0 \subseteq Summed
    BY <2>1 DEF Adds
  <2>4. IsFiniteSet(s1) /\ IsFiniteSet(s2)
    BY <1>1, <2>1, <2>2, <2>3
  <2>5. SumOf(s2) = Column("g_act") + SumOf(s1) /\ SumOf(s1) = Column("g_lnorm") + SumOf(s0)
    BY <1>1, <2>1, <2>2, <2>3, <2>4
  <2>6. Column("g_act") \in Int /\ Column("g_lnorm") \in Int
    BY <1>1, <2>1, <2>2, <2>3, <2>4
  <2>7. SumOf(s2)
          = Column("g_act") + Column("g_lnorm")
    BY <2>2, <2>5, <2>6
  <2> QED BY <2>7 DEF s2
<1>8. SumOf({"g_fc_mem_energy", "g_fc_comp_energy", "g_attn_mem_energy",
              "g_attn_comp_energy", "g_etc_mem_energy", "g_etc_comp_energy", "g_comm_energy"})
         = Column("g_fc_mem_energy") + Column("g_fc_comp_energy") + Column("g_attn_mem_energy")
           + Column("g_attn_comp_energy") + Column("g_etc_mem_energy") + Column("g_etc_comp_energy")
           + Column("g_comm_energy")
  <2> DEFINE s7 == {"g_fc_mem_energy", "g_fc_comp_energy", "g_attn_mem_energy", "g_attn_comp_energy", "g_etc_mem_energy", "g_etc_comp_energy", "g_comm_energy"}
             s6 == {"g_fc_comp_energy", "g_attn_mem_energy", "g_attn_comp_energy", "g_etc_mem_energy", "g_etc_comp_energy", "g_comm_energy"}
             s5 == {"g_attn_mem_energy", "g_attn_comp_energy", "g_etc_mem_energy", "g_etc_comp_energy", "g_comm_energy"}
             s4 == {"g_attn_comp_energy", "g_etc_mem_energy", "g_etc_comp_energy", "g_comm_energy"}
             s3 == {"g_etc_mem_energy", "g_etc_comp_energy", "g_comm_energy"}
             s2 == {"g_etc_comp_energy", "g_comm_energy"}
             s1 == {"g_comm_energy"}
             s0 == {}
  <2>1. s7 \subseteq Summed /\ Adds(s7, "g_fc_mem_energy", s6) /\ Adds(s6, "g_fc_comp_energy", s5)
        /\ Adds(s5, "g_attn_mem_energy", s4) /\ Adds(s4, "g_attn_comp_energy", s3)
        /\ Adds(s3, "g_etc_mem_energy", s2) /\ Adds(s2, "g_etc_comp_energy", s1)
        /\ Adds(s1, "g_comm_energy", s0)
    BY DEF Adds, Summed
  <2>2. IsFiniteSet(s0) /\ SumOf(s0) = 0
    BY <1>2
  <2> HIDE DEF s7, s6, s5, s4, s3, s2, s1, s0
  <2>3. s6 \subseteq Summed /\ s5 \subseteq Summed /\ s4 \subseteq Summed /\ s3 \subseteq Summed
        /\ s2 \subseteq Summed /\ s1 \subseteq Summed /\ s0 \subseteq Summed
    BY <2>1 DEF Adds
  <2>4. IsFiniteSet(s1) /\ IsFiniteSet(s2) /\ IsFiniteSet(s3) /\ IsFiniteSet(s4) /\ IsFiniteSet(s5)
        /\ IsFiniteSet(s6) /\ IsFiniteSet(s7)
    BY <1>1, <2>1, <2>2, <2>3
  <2>5. SumOf(s7) = Column("g_fc_mem_energy") + SumOf(s6)
        /\ SumOf(s6) = Column("g_fc_comp_energy") + SumOf(s5)
        /\ SumOf(s5) = Column("g_attn_mem_energy") + SumOf(s4)
        /\ SumOf(s4) = Column("g_attn_comp_energy") + SumOf(s3)
        /\ SumOf(s3) = Column("g_etc_mem_energy") + SumOf(s2)
        /\ SumOf(s2) = Column("g_etc_comp_energy") + SumOf(s1)
        /\ SumOf(s1) = Column("g_comm_energy") + SumOf(s0)
    BY <1>1, <2>1, <2>2, <2>3, <2>4
  <2>6. Column("g_fc_mem_energy") \in Int /\ Column("g_fc_comp_energy") \in Int
        /\ Column("g_attn_mem_energy") \in Int /\ Column("g_attn_comp_energy") \in Int
        /\ Column("g_etc_mem_energy") \in Int /\ Column("g_etc_comp_energy") \in Int
        /\ Column("g_comm_energy") \in Int
    BY <1>1, <2>1, <2>2, <2>3, <2>4
  <2>7. SumOf(s7)
          = Column("g_fc_mem_energy") + Column("g_fc_comp_energy") + Column("g_attn_mem_energy")
            + Column("g_attn_comp_energy") + Column("g_etc_mem_energy") + Column("g_etc_comp_energy")
            + Column("g_comm_energy")
    BY <2>2, <2>5, <2>6
  <2> QED BY <2>7 DEF s7
<1>9. SumOf({"g_fc_mem_energy", "g_attn_mem_energy", "g_etc_mem_energy"})
         = Column("g_fc_mem_energy") + Column("g_attn_mem_energy") + Column("g_etc_mem_energy")
  <2> DEFINE s3 == {"g_fc_mem_energy", "g_attn_mem_energy", "g_etc_mem_energy"}
             s2 == {"g_attn_mem_energy", "g_etc_mem_energy"}
             s1 == {"g_etc_mem_energy"}
             s0 == {}
  <2>1. s3 \subseteq Summed /\ Adds(s3, "g_fc_mem_energy", s2) /\ Adds(s2, "g_attn_mem_energy", s1)
        /\ Adds(s1, "g_etc_mem_energy", s0)
    BY DEF Adds, Summed
  <2>2. IsFiniteSet(s0) /\ SumOf(s0) = 0
    BY <1>2
  <2> HIDE DEF s3, s2, s1, s0
  <2>3. s2 \subseteq Summed /\ s1 \subseteq Summed /\ s0 \subseteq Summed
    BY <2>1 DEF Adds
  <2>4. IsFiniteSet(s1) /\ IsFiniteSet(s2) /\ IsFiniteSet(s3)
    BY <1>1, <2>1, <2>2, <2>3
  <2>5. SumOf(s3) = Column("g_fc_mem_energy") + SumOf(s2)
        /\ SumOf(s2) = Column("g_attn_mem_energy") + SumOf(s1)
        /\ SumOf(s1) = Column("g_etc_mem_energy") + SumOf(s0)
    BY <1>1, <2>1, <2>2, <2>3, <2>4
  <2>6. Column("g_fc_mem_energy") \in Int /\ Column("g_attn_mem_energy") \in Int
        /\ Column("g_etc_mem_energy") \in Int
    BY <1>1, <2>1, <2>2, <2>3, <2>4
  <2>7. SumOf(s3)
          = Column("g_fc_mem_energy") + Column("g_attn_mem_energy") + Column("g_etc_mem_energy")
    BY <2>2, <2>5, <2>6
  <2> QED BY <2>7 DEF s3
<1> QED BY <1>3, <1>4, <1>5, <1>6, <1>7, <1>8, <1>9

\* Every number of v, times the decoders, is a multiple of the generated tokens.
Exact(v) == \A k \in DOMAIN v : (v[k] * ndec) % (args.lout - 1) = 0

\* A state after the row is written.
Final(V) ==
  /\ TypeInv /\ TimesInv /\ TransfersInv /\ EnergiesAddUp /\ ReportInv /\ BuiltIn(V)
  /\ pc = "done"

LEMMA FinalColumns ==
  ASSUME NEW V, Final(V)
  PROVE  /\ args.lout - 1 \in Nat \ {0} /\ ndec \in Int
         /\ \A name, k : At(name, k) => Column(name) = Row[k]
         /\ \A k \in 5 .. 11 : Row[k] = s_perf[k - 4] * ndec
         /\ \A k \in 12 .. 24 : Row[k] = Share(g_perf[k - 11])
         /\ \A k \in 25 .. 34 : Row[k] = Share(energies[k - 24])
<1>1. args.lout - 1 \in Nat \ {0} /\ ndec \in Int
  <2>1. args.lout \in Nat /\ args.lout > 1
    BY ArgumentTypes DEF Final, ReportInv, Reported, TypeInv, ArgsTyped
  <2>2. args.model.ndec \in Nat \ {0}
    BY ArgumentTypes DEF Final, TypeInv, ArgsTyped
  <2> QED BY <2>1, <2>2 DEF ndec
<1>2. ASSUME NEW name, NEW k, At(name, k) PROVE Column(name) = Row[k]
  <2>1. csv[2] = Row
    <3> DEFINE r == Row
               h == Header
    <3>1. csv = <<h, r>>
      BY DEF Final, ReportInv
    <3> HIDE DEF r, h
    <3>2. csv[2] = r
      BY <3>1
    <3> QED BY <3>2 DEF r
  <2>2. (CHOOSE i \in DOMAIN Header : Header[i] = name) = k
    <3> DEFINE D == DOMAIN Header
               P(i) == Header[i] = name
    <3>1. k \in D /\ \A i \in D : P(i) <=> i = k
      BY <1>2 DEF At
    <3> HIDE DEF D, P
    <3>2. (CHOOSE i \in D : P(i)) = k
      BY <3>1
    <3> QED BY <3>2 DEF D, P
  <2> QED BY <2>1, <2>2 DEF Column
<1>3. /\ s_perf \in Seq(Int) /\ Len(s_perf) = 7 /\ g_perf \in Seq(Int) /\ Len(g_perf) = 13
      /\ energies \in Seq(Int) /\ Len(energies) = 10
  BY TimeColumns, EnergyColumns DEF Final
<1>4. ASSUME NEW v \in Seq(Int)
      PROVE  /\ PerStage(v) \in Seq(Int) /\ Len(PerStage(v)) = Len(v)
             /\ \A k \in 1 .. Len(v) : PerStage(v)[k] = Share(v[k])
  <2> DEFINE n == Len(v)
             f == [i \in 1 .. n |-> Share(v[i])]
  <2>1. n \in Nat /\ DOMAIN v = 1 .. n
    BY LenProperties
  <2>2. PerStage(v) = f
    BY <2>1 DEF PerStage, Share
  <2>3. \A k \in 1 .. n : Share(v[k]) \in Int
    <3> SUFFICES ASSUME NEW k \in 1 .. n PROVE Share(v[k]) \in Int
      OBVIOUS
    <3> DEFINE x == v[k] * ndec
               m == args.lout - 1
    <3>1. x \in Int /\ m \in Nat \ {0}
      BY <1>1
    <3> HIDE DEF x, m
    <3>2. x \div m \in Int
      BY <3>1
    <3> QED BY <3>2 DEF Share, x, m
  <2> HIDE DEF n
  <2> QED BY <2>1, <2>2, <2>3 DEF n
<1>5. /\ WholeModel \in Seq(Int) /\ Len(WholeModel) = 7
      /\ \A k \in 1 .. 7 : WholeModel[k] = s_perf[k] * ndec
  <2>1. DOMAIN s_perf = 1 .. 7
    BY <1>3
  <2>2. WholeModel = [i \in 1 .. 7 |-> s_perf[i] * ndec]
    BY <2>1 DEF WholeModel
  <2>3. \A i \in 1 .. 7 : s_perf[i] * ndec \in Int
    <3>1. ASSUME NEW i \in 1 .. 7 PROVE s_perf[i] \in Int
      <4>1. i \in 1 .. Len(s_perf)
        BY <1>3
      <4> QED BY <1>3, <4>1, ElementOfSeq
    <3>2. \A x, y \in Int : x * y \in Int
      OBVIOUS
    <3> QED BY <1>1, <3>1, <3>2
  <2> QED BY <2>2, <2>3
<1> DEFINE cap == get_required_mem_capacity(args.model, args.batch, args.lin, args.lout)
           a1 == num_xpu
           a2 == cap[1] + cap[2] + cap[3]
           a3 == (s_flops * ndec) \div (args.lout - 1)
           a4 == (g_flops * ndec) \div (args.lout - 1)
           S == Int \cup {a1, a2, a3, a4}
           a == <<a1, a2, a3, a4>>
           b == WholeModel
           c == PerStage(g_perf)
           d == PerStage(energies)
           r == a \o (b \o c) \o d
<1>6. Row = r
  <2>1. perf_all = b \o c /\ energy_all = d
    BY DEF Final, ReportInv, Reported
  <2> QED BY <2>1 DEF Row
<1>7. b \in Seq(Int) /\ c \in Seq(Int) /\ d \in Seq(Int) /\ Len(b) = 7 /\ Len(c) = 13 /\ Len(d) = 10
  BY <1>3, <1>4, <1>5
<1>8. /\ \A k \in 1 .. 7 : b[k] = s_perf[k] * ndec
      /\ \A k \in 1 .. 13 : c[k] = Share(g_perf[k])
      /\ \A k \in 1 .. 10 : d[k] = Share(energies[k])
  BY <1>3, <1>4, <1>5
<1> HIDE DEF b, c, d, a1, a2, a3, a4
<1>9. a \in Seq(S) /\ Len(a) = 4
  OBVIOUS
<1>10. b \in Seq(S) /\ c \in Seq(S) /\ d \in Seq(S)
  <2>1. \A s \in Seq(Int) : s \in Seq(S)
    <3> SUFFICES ASSUME NEW s \in Seq(Int) PROVE s \in Seq(S)
      OBVIOUS
    <3>1. s \in [1 .. Len(s) -> Int] /\ Len(s) \in Nat
      BY LenProperties
    <3>2. \A i \in 1 .. Len(s) : s[i] \in S
      BY <3>1
    <3> HIDE DEF S
    <3> QED BY <3>1, <3>2
  <2> HIDE DEF S
  <2> QED BY <1>7, <2>1
<1> HIDE DEF S, a
<1>10a. r = a \o (b \o c) \o d
  OBVIOUS
<1> HIDE DEF r
<1>11. /\ \A k \in 5 .. 11 : r[k] = b[k - 4]
       /\ \A k \in 12 .. 24 : r[k] = c[k - 11]
       /\ \A k \in 25 .. 34 : r[k] = d[k - 24]
  <2>1. Parts4(S, r, a, b, c, d)
    BY <1>7, <1>9, <1>10, <1>10a DEF Parts4
  <2> QED BY <2>1, FourParts
<1>12. ASSUME NEW k \in 5 .. 11 PROVE Row[k] = s_perf[k - 4] * ndec
  <2>1. k - 4 \in 1 .. 7
    OBVIOUS
  <2> QED BY <1>6, <1>8, <1>11, <2>1
<1>13. ASSUME NEW k \in 12 .. 24 PROVE Row[k] = Share(g_perf[k - 11])
  <2>1. k - 11 \in 1 .. 13
    OBVIOUS
  <2> QED BY <1>6, <1>8, <1>11, <2>1
<1>14. ASSUME NEW k \in 25 .. 34 PROVE Row[k] = Share(energies[k - 24])
  <2>1. k - 24 \in 1 .. 10
    OBVIOUS
  <2> QED BY <1>6, <1>8, <1>11, <2>1
<1> QED BY <1>1, <1>2, <1>12, <1>13, <1>14

\* The quotients in the table are exact.
ExactMeans == pc = "done" => Exact(g_perf) /\ Exact(energies)

LEMMA FinalSums ==
  ASSUME NEW V, Final(V), Exact(g_perf), Exact(energies)
  PROVE  ColumnsAddUp
<1> DEFINE sp == s_perf
           gp == g_perf
           en == energies
           n == args.lout - 1
<1>1. /\ n \in Nat \ {0} /\ ndec \in Int
      /\ \A name, k : At(name, k) => Column(name) = Row[k]
      /\ \A k \in 5 .. 11 : Row[k] = sp[k - 4] * ndec
      /\ \A k \in 12 .. 24 : Row[k] = Share(gp[k - 11])
      /\ \A k \in 25 .. 34 : Row[k] = Share(en[k - 24])
  BY FinalColumns
<1>2. /\ sp \in Seq(Int) /\ Len(sp) = 7 /\ gp \in Seq(Int) /\ Len(gp) = 13
      /\ sp[1] = sp[2] + sp[3] + sp[4] + sp[5] + sp[6] + sp[7]
      /\ gp[1] = TimeOf(FlattenSeq(gen_decoder), "type", LayerTypes)
      /\ gp[1] = gp[2] + gp[3] + gp[4] + gp[5] + gp[11]
      /\ gp[3] = gp[6] + gp[7] + gp[8] /\ gp[4] = gp[9] + gp[10] /\ gp[5] = gp[12] + gp[13]
  BY TimeColumns DEF Final
<1>3. /\ en \in Seq(Int) /\ Len(en) = 10
      /\ en[1] = en[4] + en[5] + en[6] + en[7] + en[8] + en[9] + en[10] /\ en[2] = en[4] + en[6] + en[8]
  BY EnergyColumns DEF Final
<1>4. /\ \A k \in 1 .. 7 : sp[k] \in Int
      /\ \A k \in 1 .. 13 : gp[k] \in Int /\ Whole(gp[k])
      /\ \A k \in 1 .. 10 : en[k] \in Int /\ Whole(en[k])
  <2>1. DOMAIN gp = 1 .. 13 /\ DOMAIN en = 1 .. 10
    BY <1>2, <1>3
  <2>2. (\A k \in 1 .. 13 : Whole(gp[k])) /\ (\A k \in 1 .. 10 : Whole(en[k]))
    BY <2>1 DEF Exact, Whole
  <2> HIDE DEF sp, gp, en
  <2> QED BY <1>2, <1>3, <2>2, ElementOfSeq
<1>4a. \A name, k : At(name, k) => Column(name) = Row[k]
  BY <1>1
<1> HIDE DEF sp, gp, en
<1>5. /\ Column("s_time") = sp[1] * ndec /\ Column("s_matmul") = sp[2] * ndec
      /\ Column("s_fc") = sp[3] * ndec /\ Column("s_comm") = sp[4] * ndec
      /\ Column("s_softmax") = sp[5] * ndec /\ Column("s_act") = sp[6] * ndec
      /\ Column("s_lnorm") = sp[7] * ndec
  <2>1. /\ Column("s_time") = Row[5] /\ Column("s_matmul") = Row[6] /\ Column("s_fc") = Row[7]
    BY <1>4a, HeaderPlaces
  <2>2. /\ Column("s_comm") = Row[8] /\ Column("s_softmax") = Row[9] /\ Column("s_act") = Row[10]
    BY <1>4a, HeaderPlaces
  <2>3. /\ Column("s_lnorm") = Row[11]
    BY <1>4a, HeaderPlaces
  <2>4. /\ Row[5] = sp[1] * ndec /\ Row[6] = sp[2] * ndec /\ Row[7] = sp[3] * ndec
        /\ Row[8] = sp[4] * ndec /\ Row[9] = sp[5] * ndec /\ Row[10] = sp[6] * ndec
        /\ Row[11] = sp[7] * ndec
    BY <1>1
  <2> QED BY <2>1, <2>2, <2>3, <2>4
<1>6. /\ Column("g_time") = Share(gp[1]) /\ Column("g_matmul") = Share(gp[2])
      /\ Column("g_fc") = Share(gp[3]) /\ Column("g_comm") = Share(gp[4])
      /\ Column("g_etc") = Share(gp[5]) /\ Column("g_qkv_time") = Share(gp[6])
      /\ Column("g_prj_time") = Share(gp[7]) /\ Column("g_ff_time") = Share(gp[8])
      /\ Column("g2g_comm") = Share(gp[9]) /\ Column("c2g_comm") = Share(gp[10])
      /\ Column("g_softmax") = Share(gp[11]) /\ Column("g_act") = Share(gp[12])
      /\ Column("g_lnorm") = Share(gp[13])
  <2>1. /\ Column("g_time") = Row[12] /\ Column("g_matmul") = Row[13] /\ Column("g_fc") = Row[14]
    BY <1>4a, HeaderPlaces
  <2>2. /\ Column("g_comm") = Row[15] /\ Column("g_etc") = Row[16] /\ Column("g_qkv_time") = Row[17]
    BY <1>4a, HeaderPlaces
  <2>3. /\ Column("g_prj_time") = Row[18] /\ Column("g_ff_time") = Row[19] /\ Column("g2g_comm") = Row[20]
    BY <1>4a, HeaderPlaces
  <2>4. /\ Column("c2g_comm") = Row[21] /\ Column("g_softmax") = Row[22] /\ Column("g_act") = Row[23]
    BY <1>4a, HeaderPlaces
  <2>5. /\ Column("g_lnorm") = Row[24]
    BY <1>4a, HeaderPlaces
  <2>6. /\ Row[12] = Share(gp[1]) /\ Row[13] = Share(gp[2]) /\ Row[14] = Share(gp[3])
        /\ Row[15] = Share(gp[4]) /\ Row[16] = Share(gp[5]) /\ Row[17] = Share(gp[6])
        /\ Row[18] = Share(gp[7]) /\ Row[19] = Share(gp[8]) /\ Row[20] = Share(gp[9])
        /\ Row[21] = Share(gp[10]) /\ Row[22] = Share(gp[11]) /\ Row[23] = Share(gp[12])
        /\ Row[24] = Share(gp[13])
    BY <1>1
  <2> QED BY <2>1, <2>2, <2>3, <2>4, <2>5, <2>6
<1>7. /\ Column("g_energy") = Share(en[1]) /\ Column("g_dram_energy") = Share(en[2])
      /\ Column("g_fc_mem_energy") = Share(en[4]) /\ Column("g_fc_comp_energy") = Share(en[5])
      /\ Column("g_attn_mem_energy") = Share(en[6]) /\ Column("g_attn_comp_energy") = Share(en[7])
      /\ Column("g_etc_mem_energy") = Share(en[8]) /\ Column("g_etc_comp_energy") = Share(en[9])
      /\ Column("g_comm_energy") = Share(en[10])
  <2>1. /\ Column("g_energy") = Row[25] /\ Column("g_dram_energy") = Row[26]
        /\ Column("g_fc_mem_energy") = Row[28]
    BY <1>4a, HeaderPlaces
  <2>2. /\ Column("g_fc_comp_energy") = Row[29] /\ Column("g_attn_mem_energy") = Row[30]
        /\ Column("g_attn_comp_energy") = Row[31]
    BY <1>4a, HeaderPlaces
  <2>3. /\ Column("g_etc_mem_energy") = Row[32] /\ Column("g_etc_comp_energy") = Row[33]
        /\ Column("g_comm_energy") = Row[34]
    BY <1>4a, HeaderPlaces
  <2>4. /\ Row[25] = Share(en[1]) /\ Row[26] = Share(en[2]) /\ Row[28] = Share(en[4])
        /\ Row[29] = Share(en[5]) /\ Row[30] = Share(en[6]) /\ Row[31] = Share(en[7])
        /\ Row[32] = Share(en[8]) /\ Row[33] = Share(en[9]) /\ Row[34] = Share(en[10])
    BY <1>1
  <2> QED BY <2>1, <2>2, <2>3, <2>4
<1>8. /\ \A k \in 1 .. 7 : sp[k] * ndec \in Int
      /\ \A k \in 1 .. 13 : Share(gp[k]) \in Int
      /\ \A k \in 1 .. 10 : Share(en[k]) \in Int
  <2>1. \A x, y \in Int : x * y \in Int
    OBVIOUS
  <2>2. ASSUME NEW x \in Int PROVE Share(x) \in Int
    <3> DEFINE y == x * ndec
    <3>1. y \in Int
      BY <1>1
    <3> HIDE DEF y, n
    <3>2. y \div n \in Int
      BY <1>1, <3>1
    <3> QED BY <3>2 DEF Share, y, n
  <2> QED BY <1>1, <1>4, <2>1, <2>2
<1>9. Filled(Summed)
  <2>1. /\ sp[2] * ndec \in Int /\ sp[3] * ndec \in Int /\ sp[4] * ndec \in Int /\ sp[5] * ndec \in Int
        /\ sp[6] * ndec \in Int /\ sp[7] * ndec \in Int
    BY <1>8
  <2>2. /\ Share(gp[2]) \in Int /\ Share(gp[3]) \in Int /\ Share(gp[4]) \in Int /\ Share(gp[5]) \in Int
        /\ Share(gp[6]) \in Int /\ Share(gp[7]) \in Int /\ Share(gp[8]) \in Int /\ Share(gp[9]) \in Int
        /\ Share(gp[10]) \in Int /\ Share(gp[11]) \in Int /\ Share(gp[12]) \in Int /\ Share(gp[13]) \in Int
    BY <1>8
  <2>3. /\ Share(en[4]) \in Int /\ Share(en[5]) \in Int /\ Share(en[6]) \in Int /\ Share(en[7]) \in Int
        /\ Share(en[8]) \in Int /\ Share(en[9]) \in Int /\ Share(en[10]) \in Int
    BY <1>8
  <2>4. /\ Column("s_matmul") \in Int /\ Column("s_fc") \in Int /\ Column("s_comm") \in Int
        /\ Column("s_softmax") \in Int /\ Column("s_act") \in Int /\ Column("s_lnorm") \in Int
    BY <1>5, <2>1
  <2>5. /\ Column("g_matmul") \in Int /\ Column("g_fc") \in Int /\ Column("g_comm") \in Int
        /\ Column("g_etc") \in Int /\ Column("g_qkv_time") \in Int /\ Column("g_prj_time") \in Int
        /\ Column("g_ff_time") \in Int /\ Column("g2g_comm") \in Int /\ Column("c2g_comm") \in Int
        /\ Column("g_softmax") \in Int /\ Column("g_act") \in Int /\ Column("g_lnorm") \in Int
    BY <1>6, <2>2
  <2>6. /\ Column("g_fc_mem_energy") \in Int /\ Column("g_fc_comp_energy") \in Int
        /\ Column("g_attn_mem_energy") \in Int
        /\ Column("g_attn_comp_energy") \in Int /\ Column("g_etc_mem_energy") \in Int
        /\ Column("g_etc_comp_energy") \in Int
        /\ Column("g_comm_energy") \in Int
    BY <1>7, <2>3
  <2> QED BY <2>4, <2>5, <2>6 DEF Filled, Summed
<1>10. Column("s_time") = Column("s_matmul") + Column("s_fc") + Column("s_comm") + Column("s_softmax")
            + Column("s_act") + Column("s_lnorm")
  <2> DEFINE a == sp[2]
             b == sp[3]
             c == sp[4]
             d == sp[5]
             e == sp[6]
             f == sp[7]
  <2>2. a \in Int /\ b \in Int /\ c \in Int /\ d \in Int /\ e \in Int /\ f \in Int
          /\ sp[1] = a + b + c + d + e + f
    BY <1>2, <1>4
  <2> HIDE DEF a, b, c, d, e, f
  <2>3. (a + b + c + d + e + f) * ndec = a * ndec + b * ndec + c * ndec + d * ndec + e * ndec + f * ndec
    BY <1>1, <2>2
  <2> QED BY <1>5, <2>2, <2>3 DEF a, b, c, d, e, f
<1>11. Column("g_time") = Column("g_matmul") + Column("g_fc") + Column("g_comm") + Column("g_etc")
            + Column("g_softmax")
  <2> DEFINE a == gp[2]
             b == gp[3]
             c == gp[4]
             d == gp[5]
             e == gp[11]
  <2>1. /\ a \in Int /\ Whole(a) /\ b \in Int /\ Whole(b) /\ c \in Int /\ Whole(c)
        /\ d \in Int /\ Whole(d) /\ e \in Int /\ Whole(e)
    BY <1>4
  <2>2. gp[1] = a + b + c + d + e
    BY <1>2
  <2> HIDE DEF a, b, c, d, e
  <2>2a. Wholes5(a, b, c, d, e)
    BY <2>1 DEF Wholes5
  <2>3. Share(a + b + c + d + e) = Share(a) + Share(b) + Share(c) + Share(d) + Share(e)
    BY <1>1, <2>1, <2>2a, FiveShares
  <2>4. Share(gp[1]) = Share(a) + Share(b) + Share(c) + Share(d) + Share(e)
    BY <2>2, <2>3
  <2> QED BY <1>6, <2>4 DEF a, b, c, d, e
<1>12. Column("g_fc") = Column("g_qkv_time") + Column("g_prj_time") + Column("g_ff_time")
  <2> DEFINE a == gp[6]
             b == gp[7]
             c == gp[8]
  <2>1. /\ a \in Int /\ Whole(a) /\ b \in Int /\ Whole(b) /\ c \in Int /\ Whole(c)
    BY <1>4
  <2>2. gp[3] = a + b + c
    BY <1>2
  <2> HIDE DEF a, b, c
  <2>3. Share(a + b + c) = Share(a) + Share(b) + Share(c)
    BY <1>1, <2>1, ThreeShares
  <2>4. Share(gp[3]) = Share(a) + Share(b) + Share(c)
    BY <2>2, <2>3
  <2> QED BY <1>6, <2>4 DEF a, b, c
<1>13. Column("g_comm") = Column("g2g_comm") + Column("c2g_comm")
  <2> DEFINE a == gp[9]
             b == gp[10]
  <2>1. /\ a \in Int /\ Whole(a) /\ b \in Int /\ Whole(b)
    BY <1>4
  <2>2. gp[4] = a + b
    BY <1>2
  <2> HIDE DEF a, b
  <2>3. Share(a + b) = Share(a) + Share(b)
    BY <1>1, <2>1, SharesAdd
  <2>4. Share(gp[4]) = Share(a) + Share(b)
    BY <2>2, <2>3
  <2> QED BY <1>6, <2>4 DEF a, b
<1>14. Column("g_etc") = Column("g_act") + Column("g_lnorm")
  <2> DEFINE a == gp[12]
             b == gp[13]
  <2>1. /\ a \in Int /\ Whole(a) /\ b \in Int /\ Whole(b)
    BY <1>4
  <2>2. gp[5] = a + b
    BY <1>2
  <2> HIDE DEF a, b
  <2>3. Share(a + b) = Share(a) + Share(b)
    BY <1>1, <2>1, SharesAdd
  <2>4. Share(gp[5]) = Share(a) + Share(b)
    BY <2>2, <2>3
  <2> QED BY <1>6, <2>4 DEF a, b
<1>15. Column("g_energy") = Column("g_fc_mem_energy") + Column("g_fc_comp_energy")
            + Column("g_attn_mem_energy") + Column("g_attn_comp_energy")
            + Column("g_etc_mem_energy") + Column("g_etc_comp_energy")
            + Column("g_comm_energy")
  <2> DEFINE a == en[4]
             b == en[5]
             c == en[6]
             d == en[7]
             e == en[8]
             f == en[9]
             g == en[10]
  <2>1. /\ a \in Int /\ Whole(a) /\ b \in Int /\ Whole(b) /\ c \in Int /\ Whole(c)
        /\ d \in Int /\ Whole(d) /\ e \in Int /\ Whole(e) /\ f \in Int /\ Whole(f)
        /\ g \in Int /\ Whole(g)
    BY <1>4
  <2>2. en[1] = a + b + c + d + e + f + g
    BY <1>3
  <2> HIDE DEF a, b, c, d, e, f, g
  <2>2a. Wholes7(a, b, c, d, e, f, g)
    BY <2>1 DEF Wholes7
  <2>3. Share(a + b + c + d + e + f + g) = Share(a) + Share(b) + Share(c) + Share(d) + Share(e) + Share(f) + Share(g)
    BY <1>1, <2>1, <2>2a, SevenShares
  <2>4. Share(en[1]) = Share(a) + Share(b) + Share(c) + Share(d) + Share(e) + Share(f) + Share(g)
    BY <2>2, <2>3
  <2> QED BY <1>7, <2>4 DEF a, b, c, d, e, f, g
<1>16. Column("g_dram_energy") = Column("g_fc_mem_energy") + Column("g_attn_mem_energy")
            + Column("g_etc_mem_energy")
  <2> DEFINE a == en[4]
             b == en[6]
             c == en[8]
  <2>1. /\ a \in Int /\ Whole(a) /\ b \in Int /\ Whole(b) /\ c \in Int /\ Whole(c)
    BY <1>4
  <2>2. en[2] = a + b + c
    BY <1>3
  <2> HIDE DEF a, b, c
  <2>3. Share(a + b + c) = Share(a) + Share(b) + Share(c)
    BY <1>1, <2>1, ThreeShares
  <2>4. Share(en[2]) = Share(a) + Share(b) + Share(c)
    BY <2>2, <2>3
  <2> QED BY <1>7, <2>4 DEF a, b, c
<1>17. Column("g_time") * (args.lout - 1) = ndec * TimeOf(FlattenSeq(gen_decoder), "type", LayerTypes)
  <2> DEFINE x == gp[1]
             y == x * ndec
  <2>1. x \in Int /\ Whole(x) /\ y \in Int
    BY <1>1, <1>4
  <2>2. y % n = 0 /\ Share(x) = y \div n
    BY <2>1 DEF Whole, Share
  <2> HIDE DEF y, n
  <2>3. y = n * (y \div n) /\ y \div n \in Int
    BY <1>1, <2>1, <2>2, Quotient
  <2>4. Share(x) * n = y
    BY <1>1, <2>2, <2>3
  <2>5. y = ndec * x
    BY <1>1, <2>1 DEF y
  <2> QED BY <1>2, <1>6, <2>4, <2>5 DEF n
<1>18. ASSUME pc = "done" PROVE ColumnsAddUp
  BY <1>9, <1>10, <1>11, <1>12, <1>13, <1>14, <1>15, <1>16, <1>17, NamedSums, Zenon DEF ColumnsAddUp
<1> QED BY <1>18 DEF Final

\* What the columns are computed from adds up whatever the numbers are.
TotalsAddUp ==
  pc = "done" =>
    /\ s_perf[1] = s_perf[2] + s_perf[3] + s_perf[4] + s_perf[5] + s_perf[6] + s_perf[7]
    /\ g_perf[1] = TimeOf(FlattenSeq(gen_decoder), "type", LayerTypes)
    /\ g_perf[1] = g_perf[2] + g_perf[3] + g_perf[4] + g_perf[5] + g_perf[11]
    /\ g_perf[3] = g_perf[6] + g_perf[7] + g_perf[8]
    /\ g_perf[4] = g_perf[9] + g_perf[10]
    /\ g_perf[5] = g_perf[12] + g_perf[13]
    /\ energies[1] = energies[4] + energies[5] + energies[6] + energies[7] + energies[8] + energies[9]
                       + energies[10]
    /\ energies[2] = energies[4] + energies[6] + energies[8]

\* In every simulation that ends, the lists of times and energies that
\* simulate() makes by type and by name of layer add up to their totals: no
\* layer is left out and none counted twice, also after the pipeline has moved
\* times between the layers, and the transfers cost only what g_comm_energy says.
THEOREM TotalsMatch == Spec => []TotalsAddUp
<1>1. TypeInv /\ TimesInv /\ TransfersInv /\ EnergiesAddUp => TotalsAddUp
  <2> SUFFICES ASSUME TypeInv, TimesInv, TransfersInv, EnergiesAddUp, pc = "done" PROVE TotalsAddUp
    BY DEF TotalsAddUp
  <2>1. PICK V : BuiltIn(V)
    BY DEF TypeInv, LayersTyped
  <2> QED BY <2>1, TimeColumns, EnergyColumns DEF TotalsAddUp
<1>2. Spec => []TransfersInv
  BY TransfersUse, Typed, PTL DEF Spec
<1> QED BY <1>1, <1>2, Typed, TimesWhole, EnergyByType, PTL

\* The columns of the table, whose names and values come from different files,
\* mean what they are called, in every simulation that ends in a table whose
\* quotients are exact (TLC finds them exact on the instance it checks): the
\* parts of the times and energies add up to their totals, and the generation
\* takes as long as the layers of all its stages (simulate() in
\* system.py, write_csv() in main.py).
THEOREM ColumnsMatch == Spec /\ []ExactMeans => []ColumnsAddUp
<1>1. TypeInv /\ TimesInv /\ TransfersInv /\ EnergiesAddUp /\ ReportInv /\ ExactMeans => ColumnsAddUp
  <2> SUFFICES ASSUME TypeInv, TimesInv, TransfersInv, EnergiesAddUp, ReportInv, ExactMeans PROVE ColumnsAddUp
    OBVIOUS
  <2>1. CASE pc = "done"
    <3>1. PICK V : BuiltIn(V)
      BY <2>1 DEF TypeInv, LayersTyped
    <3>2. Final(V) /\ Exact(g_perf) /\ Exact(energies)
      BY <2>1, <3>1 DEF Final, ExactMeans
    <3> QED BY <3>2, FinalSums
  <2>2. CASE pc # "done"
    BY <2>2 DEF ColumnsAddUp
  <2> QED BY <2>1, <2>2
<1>2. Spec => []TransfersInv
  BY TransfersUse, Typed, PTL DEF Spec
<1> QED BY <1>1, <1>2, Typed, TimesWhole, ReportedAlways, EnergyByType, PTL
=============================================================================
