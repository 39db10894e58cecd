---------------------------- MODULE MCSimulation ----------------------------
(***************************************************************************)
(* Small models on one to four GPUs.  Times are multiples of Unit, which   *)
(* all quotients of the code divide.                                       *)
(***************************************************************************)
EXTENDS SimulationProperties

Unit == 96

Model(name, ff_scale) ==
  [name |-> name, ndec |-> 2, num_heads |-> 4, hdim |-> 8, ff_scale |-> ff_scale]

Arguments(system, model, ngpu, batch, lin, lout, pipeopt, ffopt, num_reqs) ==
  [system : {system}, model : model, ngpu : ngpu, batch : batch, lin : lin, lout : lout,
   pipeopt : pipeopt, ffopt : ffopt, num_reqs : num_reqs]

\* Every system; heads with a whole number of columns, and rounded ones;
\* numbers of GPUs that divide the heads, that do not, and more GPUs than
\* heads; one and two requests; a last batch that is full or not.
MCArgs ==
  LET GPT == {Model("GPT", 2)}
      All == {Model("GPT", 2), Model("OPT", 1), Model("LLAMA", 3)}
      Rounded == {[m EXCEPT !.hdim = 10] : m \in GPT}
  IN
  Arguments("dgx", All, {1, 2, 3, 5}, {2}, {3}, {1, 3}, {FALSE}, {FALSE}, {0})
  \cup Arguments("dgx-cpu", All, {1}, {2}, {2}, {2}, {FALSE}, {FALSE}, {0, 2, 3})
  \cup Arguments("dgx", Rounded, {1, 2, 3}, {1, 2}, {1}, {2}, {FALSE}, {FALSE}, {0})
  \cup Arguments("dgx-attacc", GPT, {1, 2, 3}, {1, 2}, {2}, {2}, BOOLEAN, BOOLEAN, {0})
  \cup Arguments("dgx-attacc", {Model("LLAMA", 3)}, {1, 5}, {2}, {1}, {3}, {TRUE}, {TRUE}, {0, 2, 3})

\* Energy differs between layers; the bound of the feed-forward layers differs.
Uniform(t) ==
  [x \in LayerNames |-> [time |-> t, mem |-> IF x = "softmax" THEN 3 ELSE 7, comp |-> IF x = "relu" THEN 1 ELSE 2,
                         comm |-> 5, bound |-> IF x = "ff1" THEN "compute" ELSE "memory"]]

\* The layers that overlap, longer and shorter than one another; qkv takes
\* three times as long as proj, or less.
CostsOf(qkv, score, x2g) ==
  [GPU |-> [Uniform(Unit) EXCEPT !["qkv"].time = qkv * Unit],
   CPU |-> Uniform(3 * Unit),
   PIM |-> [Uniform(Unit \div 2) EXCEPT !["score"].time = score * Unit, !["comm_x2g"].time = x2g * Unit]]

MCCosts ==
  [system \in {"dgx", "dgx-cpu", "dgx-attacc"} |->
     IF system = "dgx-attacc"
     THEN {CostsOf(qkv, score, x2g) : qkv \in {2, 3}, score \in {1, 12}, x2g \in {1, 8}}
     ELSE {CostsOf(3, 1, 1)}]

MCtrange == {2, 4}

\* The L2 cache of the GPU takes some of the matrices as a whole; that of the
\* CPU takes none.
MCConfig ==
  [GPU |-> [num_core |-> 3, l1_cache_size |-> 48, l2_cache_size |-> 96],
   CPU |-> [num_core |-> 2, l1_cache_size |-> 32, l2_cache_size |-> 20]]

MCff_compute == <<1, 2>>

\* What the proofs about heads assume of the models holds of these.
ASSUME MCHeads == HeadsWide
=============================================================================
