------------------------ MODULE SimulationProperties ------------------------
(***************************************************************************)
(* What the table of results is relied upon for.                           *)
(***************************************************************************)
EXTENDS SystemSimulation

Amounts == [mem : Nat, comp : Nat, comm : Nat]

\* A layer comes next while the simulation is among the layers; times may be
\* negative (see PipelineBounds).
TypeOK ==
  /\ args \in Args /\ cost \in Costs[args.system]
  /\ pc \in {"main", "set_xpu", "set_accelerator", "build", "sum", "gen", "pipeline",
             "report", "write", "done", "failed"}
  /\ hetero_name \in {"NONE", "CPU", "PIM"}
  /\ num_xpu \in Nat /\ tp = num_xpu
  /\ itr \in {0, 1}
  /\ pc = "sum" => stage = 0 /\ idx \in DOMAIN sum_decoder
  /\ pc \in {"gen", "pipeline"} => stage \in DOMAIN gen_decoder /\ idx \in DOMAIN gen_decoder[stage]
  /\ wrt_io_busy <= time
  /\ {s_flops, g_flops} \subseteq Nat
  /\ gen_energies \in [LayerTypes -> Amounts] /\ unit_energy \in Amounts

-----------------------------------------------------------------------------
(* The model and the devices.                                              *)

\* A head has two columns at least (128 or more, in all models of the
\* configuration).
HeadsWide == \A a \in Args : a.model.hdim >= 2 * a.model.num_heads

DividesEvenly(n) == args.model.hdim % n = 0 /\ args.model.num_heads % n = 0

\* The sum of v over the layers whose type is one of those given.
Over(types, layers, v) == SumFunctionOnSet(v, {k \in DOMAIN layers : layers[k].type \in types})

\* The work of the matrix products; and the bytes of their second matrices,
\* which stay in the memory.
Work(layers) == Over({"FC", "MATMUL"}, layers, [k \in DOMAIN layers |-> get_flops(layers[k])])
Kept(type, layers) == Over({type}, layers, [k \in DOMAIN layers |-> get_size(layers[k])[2]])

\* Tensor parallelism splits the matrix products of all decoders without loss
\* or repetition: all devices together do the work of one.
WorkPreserved ==
  (sum_decoder # <<>> /\ DividesEvenly(tp)) =>
    /\ Work(sum_decoder) * tp = Work(build_sum(args.model, 1, args.batch, args.lin, FALSE))
    /\ \A s \in DOMAIN gen_decoder :
         Work(gen_decoder[s]) * tp = Work(build_gen(args.model, 1, args.batch, args.lin, args.lout, FALSE)[s])

\* The bytes required for keys and values of columns that no head has: the
\* width of a head is rounded down.
Unused ==
  2 * (args.lin + args.lout - 1) * (args.model.hdim % args.model.num_heads) * dbyte * args.batch * ndec

\* The formula for the required memory and the layers, which are written down
\* in different files, agree: on the weights; and on the keys and values that
\* the last generation stage reads, but for the unused columns, which the
\* formula counts (48 of 12288 for MT-146B, none for the other models).
CapacityAgrees ==
  (gen_decoder # <<>> /\ DividesEvenly(tp)) =>
    LET cap == get_required_mem_capacity(args.model, args.batch, args.lin, args.lout) IN
       /\ cap[1] = Kept("FC", sum_decoder) * tp * ndec
       /\ cap[2] = Kept("MATMUL", gen_decoder[Len(gen_decoder)]) * tp * ndec + Unused

\* The layer a GPU or CPU was asked for last, with the device.
LastAsked ==
  LET Asked(layers, dev(_)) ==
        IF idx = 1 THEN {} ELSE {[d |-> dev(layers[idx - 1]), x |-> layers[idx - 1]]}
  IN {r \in CASE pc = "sum" -> Asked(sum_decoder, LAMBDA x : "GPU")
              [] pc = "gen" -> Asked(gen_decoder[stage], LAMBDA x : IF OnAcc(x) THEN Acc ELSE "GPU")
              [] OTHER -> {} : Tiled(r.d, r.x)}

\* A layer is computed with its own best tiles, although tiles are remembered
\* under a key that leaves out the type, and the best tiles depend on it: no
\* two layers a device is asked for agree in everything but that.  (They can
\* when a device has one head of one request.)
TilesOwn ==
  \A r \in LastAsked :
    heads(args.model, tp, args.batch) > 1
      => table_tiles[r.d][TileKey(r.x)] = optimal_tile(r.d, r.x)

-----------------------------------------------------------------------------
(* The pipeline and the table.                                             *)

Total(p) == p.qkv + p.proj + p.x2g + p.attn

\* Times are hidden only behind longer ones: a decoder gets no slower, and not
\* faster than its longest part (whose softmax is hidden, too).  This holds of
\* the sum; the shares of qkv and proj may be wrong, even negative.
PipelineBounds ==
  [][pc = "pipeline" =>
       LET before == Parts(gen_decoder[stage])
           after == Parts(gen_decoder'[stage])
           softmax == TimeOf(gen_decoder[stage], "type", {"SOFTMAX"})
       IN /\ Total(after) <= Total(before)
          /\ Total(after) + softmax >= Max({before.attn, before.x2g, before.qkv + before.proj})]_vars

\* Both ways of adding up energy agree at any time: by the layers, and by the
\* types of layers.
OfAllTypes(f) ==
  gen_energies["FC"][f] + gen_energies["MATMUL"][f] + gen_energies["ACT"][f]
    + gen_energies["SOFTMAX"][f] + gen_energies["NORM"][f] + gen_energies["G2G"][f] + gen_energies["X2G"][f]
EnergiesAddUp ==
  /\ unit_energy.mem = OfAllTypes("mem")
  /\ unit_energy.comp = OfAllTypes("comp")
  /\ unit_energy.comm = OfAllTypes("comm")

\* The value in a column of the row, by its name in the header.
Column(name) == csv[2][CHOOSE i \in DOMAIN Header : Header[i] = name]
SumOf(S) == SumFunctionOnSet([name \in S |-> Column(name)], S)

\* The columns of the table, whose names and values come from different files,
\* mean what they are called: the parts of times and energies add up, and the
\* generation takes as long as the layers of all its stages.
ColumnsAddUp ==
  pc = "done" =>
    /\ Column("s_time") = SumOf({"s_matmul", "s_fc", "s_comm", "s_softmax", "s_act", "s_lnorm"})
    /\ Column("g_time") = SumOf({"g_matmul", "g_fc", "g_comm", "g_etc", "g_softmax"})
    /\ Column("g_time") * (args.lout - 1)
         = ndec * TimeOf(FlattenSeq(gen_decoder), "type", LayerTypes)
    /\ Column("g_fc") = SumOf({"g_qkv_time", "g_prj_time", "g_ff_time"})
    /\ Column("g_comm") = SumOf({"g2g_comm", "c2g_comm"})
    /\ Column("g_etc") = SumOf({"g_act", "g_lnorm"})
    /\ Column("g_energy") = SumOf({"g_fc_mem_energy", "g_fc_comp_energy", "g_attn_mem_energy",
         "g_attn_comp_energy", "g_etc_mem_energy", "g_etc_comp_energy", "g_comm_energy"})
    /\ Column("g_dram_energy") = SumOf({"g_fc_mem_energy", "g_attn_mem_energy", "g_etc_mem_energy"})

-----------------------------------------------------------------------------
(* Liveness.                                                               *)

\* What a simulation can be done for: a generated token, a head for each GPU,
\* and no batch of another size.
Feasible ==
  /\ args.lout > 1
  /\ args.model.num_heads >= (IF args.system = "dgx-cpu" THEN DefaultGpus ELSE args.ngpu)
  /\ args.num_reqs % args.batch = 0

\* The program ends; with a header and one row in the file, whatever file was
\* there, or without a file when there is nothing to report.
Ends ==
  <>(IF Feasible THEN pc = "done" /\ Len(csv) = 2 /\ csv[1] = Header ELSE pc = "failed" /\ csv = <<>>)
=============================================================================
