-------------------------- MODULE SystemSimulation --------------------------
(***************************************************************************)
(* The program from its arguments to the table of results: main.py sets up *)
(* the devices, System.simulate asks them for the time and the energy of   *)
(* each layer of the model, hides times behind one another when attention  *)
(* runs on the PIM device, adds everything up, and main.py writes the row. *)
(*                                                                         *)
(* What a device computes for a layer is given by a table of costs; times  *)
(* are integers, in a unit that makes every quotient of the code exact.    *)
(* The tiles of the GPU and the CPU are those of module XPU.               *)
(***************************************************************************)
EXTENDS XPU, SequencesExt

CONSTANTS
  Args,         \* the arguments; main leaves num_reqs, of simulate, at 0
  Costs,        \* system -> tables device -> layer name -> [time, mem, comp, comm, bound]
  DefaultGpus,  \* of make_xpu_config
  bw_scale,     \* bandwidth of the PIM device, in that of a GPU
  ff_compute    \* <<a, b>>: share of compute-bound work left to the GPUs

LayerNames == {"qkv", "comm_x2g", "score", "softmax", "context", "proj", "comm_g2g", "norm1",
               "norm2", "ff1", "ff2", "ff3", "relu", "gelu", "glu"}
Cost == [time : Nat, mem : Nat, comp : Nat, comm : Nat, bound : {"compute", "memory"}]

ASSUME SimulationAssumption ==
  /\ \A a \in Args :
       /\ a.system \in {"dgx", "dgx-cpu", "dgx-attacc"}
       /\ a.model \in Models
       /\ {a.ngpu, a.batch, a.lin, a.lout} \subseteq Nat \ {0}
       /\ a.num_reqs \in Nat
       /\ {a.pipeopt, a.ffopt} \subseteq BOOLEAN
       /\ Max({a.ngpu, DefaultGpus}) <= a.model.hdim
  /\ \A a \in Args : \A c \in Costs[a.system] : c \in [xPUs \cup {"PIM"} -> [LayerNames -> Cost]]
  /\ {DefaultGpus, bw_scale} \subseteq Nat \ {0}
  /\ ff_compute \in (Nat \ {0}) \X (Nat \ {0})

VARIABLES
  args, cost,
  pc,
  hetero_name, num_xpu, tp,   \* of the system, of its GPU, of its model
  table_tiles,                \* device -> the tiles it remembers
  sum_decoder, gen_decoder,   \* the layers, and what is known of them
  itr,                        \* batches simulated before
  stage, idx,                 \* the layer that comes next (stage 0: summarization)
  time, wrt_io_busy,
  s_flops, g_flops,
  gen_energies,               \* layer type -> what its layers have used
  unit_energy,                \* what all layers have used
  perf_all, energy_all,       \* columns of the row to come
  csv                         \* rows of the output file

devices == <<hetero_name, num_xpu, tp>>
decoders == <<sum_decoder, gen_decoder>>
totals == <<time, wrt_io_busy, s_flops, g_flops, gen_energies, unit_energy>>
report == <<perf_all, energy_all, csv>>
vars == <<args, cost, pc, devices, table_tiles, decoders, itr, stage, idx, totals, report>>

Zero == [mem |-> 0, comp |-> 0, comm |-> 0]
Plus(e, f) == [mem |-> e.mem + f.mem, comp |-> e.comp + f.comp, comm |-> e.comm + f.comm]

\* A file of an earlier program may be there.
Init ==
  /\ args \in Args
  /\ cost \in Costs[args.system]
  /\ pc = "main"
  /\ hetero_name = "NONE" /\ num_xpu = 0 /\ tp = 0
  /\ table_tiles = [d \in xPUs |-> <<>>]
  /\ sum_decoder = <<>> /\ gen_decoder = <<>>
  /\ itr = 0 /\ stage = 0 /\ idx = 1
  /\ time = 0 /\ wrt_io_busy = 0 /\ s_flops = 0 /\ g_flops = 0
  /\ gen_energies = [t \in LayerTypes |-> Zero]
  /\ unit_energy = Zero
  /\ perf_all = <<>> /\ energy_all = <<>>
  /\ csv \in {<<>>, <<"header", "row">>}

-----------------------------------------------------------------------------
(* main: the devices.                                                      *)

\* A new system of ngpu GPUs; the output file is removed.
NewSystem ==
  /\ pc = "main"
  /\ csv' = <<>>
  /\ num_xpu' = args.ngpu
  /\ tp' = args.ngpu
  /\ pc' = CASE args.system = "dgx-cpu" -> "set_xpu"
             [] args.system = "dgx-attacc" -> "set_accelerator"
             [] OTHER -> "build"
  /\ UNCHANGED <<args, cost, hetero_name, table_tiles, decoders, itr, stage, idx, totals, perf_all, energy_all>>

\* New GPUs, of the default configuration.
set_xpu ==
  /\ pc = "set_xpu"
  /\ hetero_name' = "NONE"
  /\ num_xpu' = DefaultGpus
  /\ tp' = DefaultGpus
  /\ table_tiles' = [table_tiles EXCEPT !["GPU"] = <<>>]
  /\ pc' = "set_accelerator"
  /\ UNCHANGED <<args, cost, decoders, itr, stage, idx, totals, report>>

set_accelerator ==
  /\ pc = "set_accelerator"
  /\ hetero_name' = IF args.system = "dgx-cpu" THEN "CPU" ELSE "PIM"
  /\ table_tiles' = [table_tiles EXCEPT !["CPU"] = <<>>]
  /\ pc' = "build"
  /\ UNCHANGED <<args, cost, num_xpu, tp, decoders, itr, stage, idx, totals, report>>

\* The layers; the second batch, if there is one, is simulated on the same.
Build ==
  LET hetero == hetero_name \in {"CPU", "PIM"} IN
  /\ pc = "build"
  /\ sum_decoder' = build_sum(args.model, tp, args.batch, args.lin, hetero)
  /\ gen_decoder' = build_gen(args.model, tp, args.batch, args.lin, args.lout, hetero)
  /\ pc' = "sum"
  /\ UNCHANGED <<args, cost, devices, table_tiles, itr, stage, idx, totals, report>>

-----------------------------------------------------------------------------
(* simulate: the layers one after the other.                               *)

Acc == IF hetero_name = "NONE" THEN "GPU" ELSE hetero_name

Transfers == {"X2G", "G2G"}

\* What a GPU or a CPU answers for a layer.
XpuAnswer(d, x) ==
  LET c == cost[d][x.name] IN
  [time |-> c.time,
   energy |-> IF x.type \in Transfers THEN [Zero EXCEPT !.comm = c.comm]
              ELSE [Zero EXCEPT !.mem = c.mem, !.comp = c.comp]]

\* What the PIM device answers: for the score, what the whole attention takes.
PimAnswer(x) ==
  LET c == cost["PIM"][x.name] IN
  CASE x.type = "X2G" -> [time |-> c.time, energy |-> [Zero EXCEPT !.comm = c.comm]]
    [] x.name = "context" -> [time |-> 0, energy |-> Zero]
    [] OTHER -> [time |-> c.time, energy |-> [Zero EXCEPT !.mem = c.mem, !.comp = c.comp]]

Answer(d, x) == IF d = "PIM" THEN PimAnswer(x) ELSE XpuAnswer(d, x)

Tiled(d, x) == d \in xPUs /\ x.type \notin Transfers

\* No heads are left for a device: the share of its cores in use is 0 / 0.
NoWork(d, x) == Tiled(d, x) /\ x.numOp = 0

\* The layer after device d has computed it in t.
Computed(d, x, t) ==
  [x EXCEPT !.exec_time = t,
            !.bound = IF Tiled(d, x) \/ x.type = "SOFTMAX" THEN cost[d][x.name].bound ELSE @,
            !.off_traffic = IF Tiled(d, x) THEN off_traffic(table_tiles'[d][TileKey(x)], x) ELSE @]

Tiles(d, x) ==
  table_tiles' = IF Tiled(d, x) THEN [table_tiles EXCEPT ![d] = Remember(@, d, x)] ELSE table_tiles

Fail ==
  /\ pc' = "failed"
  /\ UNCHANGED <<args, cost, devices, table_tiles, decoders, itr, stage, idx, totals, report>>

\* The summarization runs on the GPUs.  A transfer waits for the one before.
SumLayer ==
  LET x == sum_decoder[idx]
      a == Answer("GPU", x)
      t == IF x.type = "X2G" THEN a.time + Max({wrt_io_busy - time, 0}) ELSE a.time
  IN /\ pc = "sum"
     /\ ~ NoWork("GPU", x)
     /\ Tiles("GPU", x)
     /\ sum_decoder' = [sum_decoder EXCEPT ![idx] = Computed("GPU", x, t)]
     /\ time' = time + t
     /\ wrt_io_busy' = IF x.type = "X2G" THEN time + t ELSE wrt_io_busy
     /\ s_flops' = s_flops + get_flops(x) * num_xpu
     /\ IF idx < Len(sum_decoder)
        THEN /\ idx' = idx + 1
             /\ UNCHANGED <<pc, stage>>
        ELSE /\ idx' = 1
             /\ stage' = 1
             /\ pc' = IF gen_decoder = <<>> THEN "report" ELSE "gen"
     /\ UNCHANGED <<args, cost, devices, gen_decoder, itr, g_flops, gen_energies, unit_energy, report>>

OnAcc(x) == x.type \in {"MATMUL", "SOFTMAX", "X2G"}

\* Wrong: the energy of a type is that of its last layer.
acc_energy_Last(x, e) == [gen_energies EXCEPT ![x.type] = e]

acc_energy(x, e) == [gen_energies EXCEPT ![x.type] = Plus(@, e)]

\* Wrong: one stage more than the model has.
NextStage_OneMore ==
  /\ idx' = 1
  /\ stage' = stage + 1
  /\ pc' = IF stage <= Len(gen_decoder) THEN "gen" ELSE "report"

NextStage ==
  /\ idx' = 1
  /\ stage' = stage + 1
  /\ pc' = IF stage < Len(gen_decoder) THEN "gen" ELSE "report"

GenLayer ==
  LET x == gen_decoder[stage][idx]
      d == IF OnAcc(x) THEN Acc ELSE "GPU"
      a == Answer(d, x)
  IN /\ pc = "gen"
     /\ ~ NoWork(d, x)
     /\ Tiles(d, x)
     /\ gen_decoder' = [gen_decoder EXCEPT ![stage][idx] = Computed(d, x, a.time)]
     /\ time' = time + a.time
     /\ g_flops' = g_flops + get_flops(x) * num_xpu
     /\ gen_energies' = acc_energy(x, a.energy)
     /\ unit_energy' = Plus(unit_energy, a.energy)
     /\ CASE idx < Len(gen_decoder[stage]) -> idx' = idx + 1 /\ UNCHANGED <<pc, stage>>
          [] idx = Len(gen_decoder[stage]) /\ hetero_name = "PIM" ->
               pc' = "pipeline" /\ UNCHANGED <<idx, stage>>
          [] OTHER -> NextStage
     /\ UNCHANGED <<args, cost, devices, sum_decoder, itr, wrt_io_busy, s_flops, report>>

LayerFails ==
  /\ \/ pc = "sum" /\ NoWork("GPU", sum_decoder[idx])
     \/ pc = "gen" /\ LET x == gen_decoder[stage][idx] IN NoWork(IF OnAcc(x) THEN Acc ELSE "GPU", x)
  /\ Fail

-----------------------------------------------------------------------------
(* simulate: times that are hidden behind others.                          *)

\* The time of the layers whose name or type, as field says, is in S.
TimeOf(layers, field, S) ==
  SumFunctionOnSet([k \in DOMAIN layers |-> layers[k].exec_time],
                   {k \in DOMAIN layers : layers[k][field] \in S})

\* The times of the parts of a decoder before they overlap.
Parts(layers) ==
  LET Of(name) == TimeOf(layers, "name", {name}) IN
  [qkv |-> Of("qkv"), proj |-> Of("proj"), x2g |-> Of("comm_x2g"),
   attn |-> Of("score") + Of("context") + Of("softmax")]

\* The part of t that is seen when it runs in the shade of something longer,
\* head by head, and the part of t that the other, shorter one hides.
Ratio(t) == (t * num_xpu) \div args.model.num_heads
Hides(t) == t - Ratio(t)

\* Wrong: all of the attention is taken from both qkv and proj.
Overlap_Twice(p, level) ==
  [qkv |-> p.qkv - Hides(p.attn), proj |-> p.proj - Hides(p.attn), x2g |-> p.x2g]

\* The times of qkv, proj and comm_x2g in the pipeline.
Overlap(p, level) ==
  LET x2g == IF p.attn > p.x2g THEN Ratio(p.x2g) ELSE p.x2g - Hides(p.attn)
      fc == p.qkv + p.proj
  IN CASE level /\ p.attn <= fc /\ fc > p.x2g ->
            [qkv |-> p.qkv - (Hides(p.attn) * 3) \div 4, proj |-> p.proj - Hides(p.attn) \div 4,
             x2g |-> Ratio(p.x2g)]
       [] level /\ ~ (p.attn <= fc /\ fc > p.x2g) ->
            [qkv |-> Ratio(p.qkv), proj |-> Ratio(p.proj), x2g |-> x2g]
       [] OTHER -> [qkv |-> p.qkv, proj |-> p.proj, x2g |-> x2g]

\* The softmax is hidden altogether; each of the two transfers gets a half.
pipeline(layers) ==
  LET o == Overlap(Parts(layers), args.pipeopt) IN
  [k \in DOMAIN layers |->
     [layers[k] EXCEPT !.exec_time =
        CASE layers[k].name \in {"qkv", "proj"} -> o[layers[k].name]
          [] layers[k].name = "comm_x2g" -> o.x2g \div 2
          [] layers[k].name = "softmax" -> 0
          [] OTHER -> @]]

\* The PIM devices take a part of the feed-forward layers.
ff_parallel(layers) ==
  LET bs == IF itr = 0 THEN args.batch ELSE args.num_reqs % args.batch IN
  [k \in DOMAIN layers |->
     IF layers[k].name \in {"ff1", "ff2", "ff3"}
     THEN [layers[k] EXCEPT !.exec_time =
             IF layers[k].bound = "compute" THEN (@ * ff_compute[1]) \div ff_compute[2]
             ELSE (@ * bs) \div (bs + bw_scale)]
     ELSE layers[k]]

Pipeline ==
  /\ pc = "pipeline"
  /\ gen_decoder' = [gen_decoder EXCEPT ![stage] =
       IF args.ffopt THEN ff_parallel(pipeline(@)) ELSE pipeline(@)]
  /\ NextStage
  /\ UNCHANGED <<args, cost, devices, table_tiles, sum_decoder, itr, totals, report>>

-----------------------------------------------------------------------------
(* simulate: the row of the table.                                         *)

\* The columns of s_perf: the transfer to the other device is not in them.
s_perf ==
  LET Of(t) == TimeOf(sum_decoder, "type", {t}) IN
  <<TimeOf(sum_decoder, "type", LayerTypes \ {"X2G"}), Of("MATMUL"), Of("FC"), Of("G2G"),
    Of("SOFTMAX"), Of("ACT"), Of("NORM")>>

\* Wrong: the columns of comm count what devices send each other only.
g_perf_NoX2G ==
  LET all == FlattenSeq(gen_decoder)
      Of(S) == TimeOf(all, "type", S)
      Named(S) == TimeOf(all, "name", S)
  IN <<Of(LayerTypes), Of({"MATMUL"}), Of({"FC"}), Of({"G2G"}), Of({"ACT", "NORM"}),
       Named({"qkv"}), Named({"proj"}), Named({"ff1", "ff2", "ff3"}), Of({"G2G"}), Of({"X2G"}),
       Of({"SOFTMAX"}), Of({"ACT"}), Of({"NORM"})>>

\* The columns of g_perf, over all generation stages.
g_perf ==
  LET all == FlattenSeq(gen_decoder)
      Of(S) == TimeOf(all, "type", S)
      Named(S) == TimeOf(all, "name", S)
  IN <<Of(LayerTypes), Of({"MATMUL"}), Of({"FC"}), Of({"G2G", "X2G"}), Of({"ACT", "NORM"}),
       Named({"qkv"}), Named({"proj"}), Named({"ff1", "ff2", "ff3"}), Of({"G2G"}), Of({"X2G"}),
       Of({"SOFTMAX"}), Of({"ACT"}), Of({"NORM"})>>

\* Columns of energy (l2, l1, reg and alu are one column here).
energies ==
  LET Of(S, f) == SumFunctionOnSet([t \in S |-> gen_energies[t][f]], S) IN
  <<unit_energy.mem + unit_energy.comp + unit_energy.comm, unit_energy.mem, unit_energy.comp,
    Of({"FC"}, "mem"), Of({"FC"}, "comp"), Of({"MATMUL", "SOFTMAX"}, "mem"),
    Of({"MATMUL", "SOFTMAX"}, "comp"), Of({"ACT", "NORM"}, "mem"), Of({"ACT", "NORM"}, "comp"),
    Of(LayerTypes, "comm")>>

\* For all decoders of the model; what belongs to the generation is given for
\* one stage.
ndec == args.model.ndec
PerStage(v) == [i \in DOMAIN v |-> (v[i] * ndec) \div (args.lout - 1)]

\* Wrong: a second batch whatever remains.
SecondBatch_Always == itr = 0 /\ args.num_reqs > 0

SecondBatch == itr = 0 /\ args.num_reqs > 0 /\ args.num_reqs % args.batch > 0

\* Without a generation stage the means divide by zero.  The second batch adds
\* the energy of the last layer, which has fewer columns: the program fails.
Report ==
  /\ pc = "report"
  /\ args.lout > 1
  /\ itr = 0
  /\ perf_all' = [i \in DOMAIN s_perf |-> s_perf[i] * ndec] \o PerStage(g_perf)
  /\ energy_all' = PerStage(energies)
  /\ itr' = 1
  /\ stage' = 0
  /\ IF SecondBatch
     THEN time' = 0 /\ wrt_io_busy' = 0 /\ pc' = "sum"
     ELSE UNCHANGED <<time, wrt_io_busy>> /\ pc' = "write"
  /\ UNCHANGED <<args, cost, devices, table_tiles, decoders, idx, s_flops, g_flops, gen_energies, unit_energy, csv>>

ReportFails ==
  /\ pc = "report"
  /\ args.lout = 1 \/ itr = 1
  /\ Fail

\* The columns of the table, as write_csv names them, without those that
\* only repeat an argument or a property of a device; the energies of l2, l1,
\* reg and alu are g_chip_energy.
Header ==
  <<"cores", "required_cap", "s_flops", "g_flops",
    "s_time", "s_matmul", "s_fc", "s_comm", "s_softmax", "s_act", "s_lnorm",
    "g_time", "g_matmul", "g_fc", "g_comm", "g_etc", "g_qkv_time", "g_prj_time", "g_ff_time",
    "g2g_comm", "c2g_comm", "g_softmax", "g_act", "g_lnorm",
    "g_energy", "g_dram_energy", "g_chip_energy", "g_fc_mem_energy", "g_fc_comp_energy",
    "g_attn_mem_energy", "g_attn_comp_energy", "g_etc_mem_energy", "g_etc_comp_energy",
    "g_comm_energy">>

\* The header is written when there is no file, then the rows.
write_csv ==
  LET cap == get_required_mem_capacity(args.model, args.batch, args.lin, args.lout)
      row == <<num_xpu, cap[1] + cap[2] + cap[3],
               (s_flops * ndec) \div (args.lout - 1), (g_flops * ndec) \div (args.lout - 1)>>
             \o perf_all \o energy_all
  IN /\ pc = "write"
     /\ csv' = (IF csv = <<>> THEN <<Header>> ELSE csv) \o <<row>>
     /\ pc' = "done"
     /\ UNCHANGED <<args, cost, devices, table_tiles, decoders, itr, stage, idx, totals, perf_all, energy_all>>

Next ==
  \/ NewSystem \/ set_xpu \/ set_accelerator \/ Build
  \/ SumLayer \/ GenLayer \/ LayerFails \/ Pipeline
  \/ Report \/ ReportFails \/ write_csv

\* One thread, which runs to its end.
Spec == Init /\ [][Next]_vars /\ WF_vars(Next)
=============================================================================
