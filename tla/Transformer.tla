---------------------------- MODULE Transformer ----------------------------
(***************************************************************************)
(* The layers of a transformer decoder as one of tp devices computes them  *)
(* (tensor parallelism): the summarization of the input and the generation *)
(* stages.  A layer multiplies numOp pairs of an m x k and a k x n matrix, *)
(* or works on m x n elements.                                             *)
(***************************************************************************)
EXTENDS Integers, Sequences, FiniteSetsExt

CONSTANT dbyte   \* bytes of an element: 2, or 1 for INT8

\* (The code's LLAMA models have an ff_scale of 8/3.)
Models == [name : {"GPT", "OPT", "LLAMA"}, ndec : Nat \ {0}, num_heads : Nat \ {0},
           hdim : Nat \ {0}, ff_scale : Nat \ {0}]

LayerTypes == {"FC", "MATMUL", "ACT", "SOFTMAX", "NORM", "G2G", "X2G"}

Layer(name, type, m, n, k, numOp) ==
  [name |-> name, type |-> type, m |-> m, n |-> n, k |-> k, numOp |-> numOp,
   bound |-> "compute", exec_time |-> 0, off_traffic |-> 0]

get_flops(x) ==
  CASE x.type = "SOFTMAX" -> 5 * x.m * x.n * x.numOp
    [] x.type = "ACT" -> (CASE x.name = "relu" -> 1 [] x.name = "glu" -> 9 [] OTHER -> 8)
                          * x.m * x.n * x.numOp
    [] x.type = "NORM" -> 5 * x.m * x.n * x.numOp
    [] x.type \in {"FC", "MATMUL"} -> 2 * x.m * x.n * x.k * x.numOp
    [] OTHER -> 0

\* The bytes of both operands and of the result.
get_size(x) ==
  LET elements == x.numOp * x.m * x.n * dbyte IN
  IF x.type \in {"FC", "MATMUL"}
  THEN <<x.numOp * x.m * x.k * dbyte, x.numOp * x.n * x.k * dbyte, elements>>
  ELSE <<elements, IF x.type = "NORM" \/ x.name = "glu" THEN elements ELSE 0, elements>>

\* Wrong: LLAMA's third matrix is forgotten.
feed_forward_TwoMatrices(model, rows, ff) ==
  <<Layer("ff1", "FC", rows, ff, model.hdim, 1), Layer("gelu", "ACT", rows, ff, 1, 1),
    Layer("ff2", "FC", rows, model.hdim, ff, 1)>>

feed_forward(model, rows, ff) ==
  IF model.name = "LLAMA"
  THEN <<Layer("ff1", "FC", rows, ff, model.hdim, 1), Layer("ff2", "FC", rows, ff, model.hdim, 1),
         Layer("glu", "ACT", rows, ff, 1, 1), Layer("ff3", "FC", rows, model.hdim, ff, 1)>>
  ELSE <<Layer("ff1", "FC", rows, ff, model.hdim, 1),
         Layer(IF model.name = "OPT" THEN "relu" ELSE "gelu", "ACT", rows, ff, 1, 1),
         Layer("ff2", "FC", rows, model.hdim, ff, 1)>>

\* Wrong: every device has all heads.
heads_All(model, tp, batch) == model.num_heads * batch

\* The heads of a device, for all requests of a batch.
heads(model, tp, batch) == (model.num_heads \div tp) * batch

\* A decoder for q new positions of every request, which attend to kv ones.
\* With the attention on another device, the results of qkv are sent there: in
\* the summarization the keys and values only; in the generation the query
\* too, and the result comes back.
decoder(model, tp, batch, q, kv, gen, attn_on_hetero) ==
  LET part == model.hdim \div tp
      dhead == model.hdim \div model.num_heads
      nhead == heads(model, tp, batch)
      rows == batch * q
      Reduce(norm) == <<Layer("comm_g2g", "G2G", rows, model.hdim, 1, 1),
                        Layer(norm, "NORM", rows, model.hdim, 1, 1)>>
  IN <<Layer("qkv", "FC", rows, 3 * part, model.hdim, 1)>>
     \o (IF attn_on_hetero
         THEN <<Layer("comm_x2g", "X2G", rows, (IF gen THEN 3 ELSE 2) * part, 1, 1)>> ELSE <<>>)
     \o <<Layer("score", "MATMUL", q, kv, dhead, nhead), Layer("softmax", "SOFTMAX", q, kv, 1, nhead),
          Layer("context", "MATMUL", q, dhead, kv, nhead)>>
     \o (IF attn_on_hetero /\ gen THEN <<Layer("comm_x2g", "X2G", 1, dhead, 1, nhead)>> ELSE <<>>)
     \o <<Layer("proj", "FC", rows, model.hdim, part, 1)>>
     \o Reduce("norm1") \o feed_forward(model, rows, model.ff_scale * part) \o Reduce("norm2")

build_sum(model, tp, batch, lin, attn_on_hetero) ==
  decoder(model, tp, batch, lin, lin, FALSE, attn_on_hetero)

\* One decoder for each generation stage; the first token comes from the
\* summarization.
build_gen(model, tp, batch, lin, lout, attn_on_hetero) ==
  [stage \in 1 .. lout - 1 |-> decoder(model, tp, batch, 1, lin + stage, TRUE, attn_on_hetero)]

\* The memory a batch needs on all devices: weights, keys and values, and the
\* largest of what a layer keeps besides.
get_required_mem_capacity(model, batch, lin, lout) ==
  LET h == model.hdim
      l == lin + lout - 1
      matrices == IF model.name = "LLAMA" THEN 3 ELSE 2
      temp == Max({(h + l * model.num_heads) * dbyte, h * 2 * dbyte,
                   l * model.num_heads * 2 * dbyte, (model.ff_scale * h + h) * dbyte})
              + l * model.num_heads
  IN <<model.ndec * h * (2 * h + 2 * h + matrices * model.ff_scale * h) * dbyte,
       model.ndec * 2 * l * h * dbyte * batch, temp * batch>>
=============================================================================
