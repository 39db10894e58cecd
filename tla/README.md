# A TLA+ model of the AttAcc PIM simulator

The repository simulates attention on processing-in-memory HBM3 stacks. A system-level
program (`main.py`, `src/`) computes execution times and energies of a transformer; for the
attention layers it generates a trace of PIM commands and runs it through a patched Ramulator 2
(`pim_ramulator_src/`). This directory specifies the parts with behaviour of their own: the
PIM memory controller with its scheduler, refreshes and device, the simulator around it, the
trace generators, the wrapper that keeps the log of simulations, and the system-level program from
its arguments to its table of results.

Contents: [1 inventory](#1-inventory), [2 modules](#2-modules-and-how-they-correspond-to-the-code),
[3 runs](#3-runs-and-what-they-show), [4 proofs](#4-proofs), [5 findings](#5-findings),
[6 limits](#6-what-is-not-modelled), [7 plan](#7-plan).

## 1 Inventory

Paths are relative to `pim_ramulator_src/` unless they start with `src/` or `main.py`.

| component | code | state it keeps | operations |
|---|---|---|---|
| HBM3-PIM device | `HBM3-PIM.cpp`, `patches/src_dram_lambdas_{action,preq}.patch` | per bank: closed, or open with a set of rows; timing history | prerequisite, readiness and effect of a command, row-hit check |
| PIM scheduler | `pim_scheduler.cpp` | none (drops barriers from the buffer it is given) | `compare`, `get_best_request` |
| HBM3-PIM controller | `hbm3_pim_controller.cpp` | active, priority, read, write and PIM buffers, pending reads, write mode, `m_is_pim` | `send`, `priority_send`, `tick` |
| all-bank refresh | `all_bank_refresh_hbm3.cpp` | cycle of the next round | `tick` |
| memory system | `PIM_DRAM_system.cpp` | controllers, request counters | `send`, `tick`, `is_pending` |
| frontend, main loop | `pim_loadstore_trace.cpp`, `patches/src_main.patch` | trace, index, count | `tick`, `is_finished`, loop condition |
| address mappers | `hbm3_pim_linear_mappers.cpp` | bit widths | `apply` |
| trace generators | `trace_gen/gen_trace_attacc_{bank,bg,buffer}.py` | command lists per iteration, the trace | `Attention`, `run_attention` |
| Ramulator wrapper | `src/ramulator_wrapper.py` | the log and its copy, temporary files | `output`, `run`, `update_log_file` |
| system simulation | `src/system.py` | devices, layers with their times, sums of energies | `set_xpu`, `set_accelerator`, `simulate`, `_pipeline`, `_ff_parallel`, `get_required_mem_capacity` |
| device models | `src/devices.py`, `src/config.py` | per device: the table of tiles | `get_time_and_energy`, `_get_optimal_tile`, `_get_traffic` |
| model and layers | `src/model.py`, `src/type.py` | layers of the summarization and of each generation stage | `build`, `get_flops`, `get_size` |
| command line | `main.py` | the output file | devices of a system, `write_csv` |
| baseline memory | `hbm3_controller.cpp`, `patches/src_dram_impl_HBM3.patch`, `hbm3_linear_mappers.cpp`, `no_refresh.cpp`, `hbm3_trace_recorder.cpp` | as the PIM controller, without PIM | as the PIM controller |

How they interact. `System.simulate` asks a device for the time of each layer; the PIM device asks
the wrapper (`output`), which answers from its log or writes a configuration, runs a generator and
then the simulator as child processes over files, and rewrites the log. In the simulator, one
thread alternates frontend and memory system. The frontend calls `send` until a request is refused;
the memory system maps the address and calls `send` of the channel's controller; its `tick` ticks
every controller, which first ticks its refresh manager (which calls back `priority_send`), then
schedules up to two commands, asking the scheduler for the best request of each buffer in turn and
the device for what a request needs next and whether it may be issued.

Where the behaviour is hard, and what makes each part correct:

* *Controller*: two slots per cycle that share mutable buffers and an iterator; five buffers with
  priorities; requests that move between them; barriers in a buffer that is served out of order;
  broadcast commands beside commands for one bank. Correct means: no request lost or repeated, one
  row per bank, no row lost for nothing, barriers and refreshes respected, everything served.
* *Scheduler*: a pairwise comparison that is no order, with a side condition on the rows other
  requests hit. Correct means that the loop finds what the rule says.
* *Memory system, frontend*: back-pressure, several channels, the end of the simulation. Correct
  means that every line arrives once, in the right place and phase, and is counted, and that the
  simulation ends, not too early and at all.
* *Generators*: software pipelining of two heads over loops of different lengths. Correct means that
  dependent commands are separated by barriers and that every command is emitted once.
* *Wrapper*: files shared by concurrent programs, no locks, crashes. Correct means that an answer is
  the result of a simulation of the layer asked for.
* *System simulation*: layers that are split among devices by rounded quotients, tiles remembered
  under a key that is not all they depend on, times hidden behind one another in fixed shares, sums
  kept in two places, a header in one file and the values in another. Correct means that no work is
  lost or repeated, that nothing is hidden behind something shorter, that a column means what it is
  called, and that the program ends with its table for arguments that make sense.

The complete list of hazards, each at its line and with the properties that guard against it, is in
`PROJECT.json` (`hazards`), the list of components in `components`, and the lines that each
definition translates in `map`.

## 2 Modules and how they correspond to the code

```
  HBM3PIM <- PIMScheduler <- HBM3PIMController <- ControllerProperties <- MCController
                  ^                 |                      ^
                  |      INSTANCE BarrierQueue             +- ControllerProofs <- RowProofs
           PIMSchedulerLoop <- MCScheduler, LoopProofs
  AddressMapper <- PIMDRAMSystem <- SystemProperties <- MCSystem, SystemProofs
                        |
             INSTANCE BarrierQueue
  AttentionTrace <- TraceProperties <- TraceProofs
  RamulatorLog <- LogProperties <- MCLog, LogProofs
  Transformer <- XPU <- SystemSimulation <- SimulationProperties <- MCSimulation, SimulationProofs
  Induction <- LoopProofs, SimulationProofs
```

**HBM3PIM** (device). `row_state` is a function from banks to the set of rows marked open
(`m_row_state`), so that a second row in a bank is representable, as in the code. One operator per
command (`ACTAB`, `PREA`, `PRESB`, ...) and per prerequisite lambda (`RequireAllBanksRowOpen`,
...). Commands for one bank (`ACT`, `PRE`, `RequireRowOpen`) come from Ramulator and are marked
external. The timing tables are abstracted: a command may be ready or not.

**PIMScheduler** states the choice of `get_best_request` declaratively: who competes (`Compared`:
those before the first barrier, and those that need to open or close rows), who may take over
from a request that is not ready (`TakesOver`: not against a bank that a request hits), who wins.
**PIMSchedulerLoop** is the loop as the code runs it; `LoopAgrees` relates the two.

**HBM3PIMController** has `Send` and three forced steps per cycle: `TickBegin` (clock,
`serve_completed_reads`, refresh manager), `FirstSlot` and `SecondSlot`. A slot picks the set of
ready commands and goes through the buffers in the code's order: `FromActive`, `FromPriority` or
`PriorityBlocks`, `FromPim`, `FromHost`. `Issue` is step 4/5 of `tick`: effect on the rows,
departure of the request or its move to the active buffer. Two details of the code that decide
behaviour are kept: the flag `is_pim`, set by one function and read in another, and the
iterator `req_it`, through which step 5 reads the type of the command that step 4 issued after the
element has been erased. What such a read yields is undefined, so it is any type of `Garbage`.
(In the runs a dead read yields a row or a column command. A type that no command fits has the
effect of a slot in which nothing is ready, which is possible after every issue.)
`m_clk` is counted in requests: only the order of arrivals matters.

**ControllerProperties** holds the properties; **BarrierQueue** is the abstract specification of
the PIM buffer: requests leave in any order, but none passes a barrier. `BarrierOrder` says that the
controller implements it under the mapping `AsBarrierQueue`.

**AddressMapper** is the arithmetic that composes an address in the generators and the one that
takes it apart in the mapper (`lower_bits` and `rest` are the two halves of `slice_lower_bits`).
**PIMDRAMSystem** composes it with the frontend, the memory system and
the main loop. There, a controller is a set of numbered requests, of which any may leave that no barrier
holds back (`Leaving`), with buffers that fill (`Accepts`). `moved` are the loads and stores that take no room there any more,
because they are active or pending; a load that a store in the buffer answers goes there at once
(`Forwarded`). `refreshing` says whether a refresh waits in a controller, which `is_pending` counts and which may come and
go in every tick. A cycle is `SendLine` until one is refused or `TraceSent`, then
`MemoryTick`, which also evaluates the loop condition. That controllers make progress is no part of the specification: see `Terminates` below.
**SystemProperties** has the properties.
`ChannelsPromise` closes the gap between the two halves of the project: each channel is an instance of
BarrierQueue (`Queue(c)`), the specification that `BarrierOrder` shows the controller to implement.

**AttentionTrace** is `run_attention`. The specification steps through the loops; each step is one
iteration over `j` and appends what the iteration emits. The generators differ in the numbers of
commands (`BankSizes`, `BgSizes`, `BufferSizes`), and the loops are the same. The lists are not
stored: `Cmds` gives a slice of a list by its kind, iteration and numbers, cut off at the end as by
the `break`s of the code. Commands that are always appended together (one group of MACs or moves
for all channels) count as one. **TraceProperties** has the properties.

**RamulatorLog** is the wrapper as several programs run it: `Start`, `Ask`, `Lookup`, the steps of a
simulation (`MakeYaml`, `OpenTrace`, `GenerateTrace`, `Simulate`, `RemoveTrace`, `RemoveYaml`) and of the log
(`UpdateLog` truncates, `WriteLog` fills it piece by piece), and `Kill` at any point. Measurements are abstracted to
what was measured: the configuration and the trace that the simulator found, whole or in part. A generator that fails
leaves what was there, or a part of a trace, and the simulator runs on it. The pieces of two writers of the log overlap at
their places in the file (`Overlay`); a row that is cut or partly written over is `Garbled`, and a program that reads one
may fail, answer with anything, or simulate. `Key` is what `run` logs and `Wanted` what `output` looks for: they differ in the head dimension
for models whose description (`dhead`) has another one than their layers (`k`), which are MT-76B and MT-146B.
`first` tells the two callers of `run` apart: for a program without rows, whose
answer is then looked up, and for a lookup that fails, which returns the answer itself.
**LogProperties** has the properties.

**Transformer** is `model.py`: the layers of a decoder, for the summarization (`build_sum`) and for each
generation stage (`build_gen`), as records with their sizes, and the formula for the required memory.
What depends on the name of a model (GPT, OPT, LLAMA) is in `feed_forward`; `heads` is the
rounded quotient by which tensor parallelism splits the attention. **XPU** is the search of a GPU or
CPU for the tiles of a layer: the nested loops with their `continue`s become the set of tiles that
fit and `FirstBest` of it, quotients are compared by cross-multiplication, and `Remember` is the table
with its key.

**SystemSimulation** is the program. `NewSystem`, `set_xpu` and `set_accelerator` are `main`; `Build`
starts `simulate`; `SumLayer` and `GenLayer` ask a device for one layer each; `Pipeline` overlaps the
layers of a stage once all of them are known (`Overlap`, `ff_parallel`); `Report` sums up the columns
and starts the second batch if there is one; `write_csv` ends the program. Exceptions are steps of
their own (`LayerFails`, `ReportFails`). The variable `time` and the moment a transfer is done
(`wrt_io_busy`) are kept as the code keeps them, although neither reaches the table. What a device computes for
a layer is a record of `Costs`: the formulas are closed and read no state but the tiles. PIM devices
answer for the score with all of the attention, and with zero for the context; the answer of the
wrapper is part of that cost. Energies of L2, L1, registers and ALUs are one amount, `comp`.
**SimulationProperties** has the properties.

Definitions below a comment "Wrong: ..." are plausible bugs; `PROJECT.json` (`mutants`) names for
every property of every run one that it catches.

## 3 Runs and what they show

| run | instance | properties |
|---|---|---|
| `bank` | MACABs on two rows, moves and barriers; 2 pseudochannels of one bank; 3 requests, 1 refresh round | `TypeOK SingleRow Conservation RefreshHoldsRows NoYoungerConflict BarrierOrder Drains RefreshServed` |
| `buffer_pim` | MACPBs on 2 banks of a bank group, 2 pseudochannels; 3 requests, 2 refresh rounds, which may overflow the priority buffer | `SingleRow NoYoungerConflict BarrierOrder` |
| `host` | loads and stores to two rows of one bank and one of another, with forwarding, write mode, garbage of either type; 3 requests | `SingleRow Conservation ActiveRowKept Drains` |
| `scheduler_loop` | every buffer of up to 5 requests (hit, conflict, closed bank, barrier), every ready set | `LoopAgrees` |
| `system` | 5 traces for 2 channels, with forwarding and an offset that exceeds a column; buffers of 2, up to 2 departures a tick | `TypeOK SentOnce RightPlace PhasesKept ReportComplete ChannelsPromise Terminates` |
| `attention_trace` | 3 generators, 6 lengths, 2 dimensions, 1 to 7 heads on 2 channels (1 to 4 iterations), groups of 2 | `TypeOK ScoreAfterQuery MoveAfterMac ContextInOrder ScoresComplete` |
| `ramulator_log` | 2 programs of 6 settings that differ in type, constraint and dimensions, some with the same file names, up to 2 layers, a length for which generator and simulator may fail; logs written row by row; 3 starts, 1 kill | `TypeOK LogSound AnswerRight RowsOfName` |
| `simulation` | three kinds of models of 4 heads, one also with a width that they do not divide, on 1 to 5 GPUs, GPUs with a CPU, GPUs with PIM; 1 or 2 requests, 1 to 3 tokens, second batches, 8 tables of times | `TypeOK WorkPreserved CapacityAgrees TilesOwn EnergiesAddUp ColumnsAddUp PipelineBounds Ends` |
| `group_banks`, `active_row_pim`, `head1_context`, `failed_simulation` | violations, see section 5 | |

**Bounds.** *Controller*: a conflict takes two requests of different rows, a barrier between them a
third, and a request that overtakes it is then the third or fourth; every pair of buffers is in
use together in some run. One refresh round is enough for every order of a refresh and two
requests, and a second one fills the priority buffer. Two pseudochannels distinguish a broadcast
to all banks from one to a part; two rows make every conflict. Thresholds of the write mode (0 and
1 instead of 80 % and 20 % of the buffer) make both modes happen. *System*: buffers of two fill up
in every trace but the empty one, and one channel stalls the other, for any number of ticks. *Generators*: `n_group = 2` instead of 16, and
lengths at 1, at multiples and around them, give one group, a full and a partial last group, more
iterations than commands to spread and the reverse; 1 to 7 heads on two channels give one to four
iterations, paired or not, the last full or not. *Log*: two programs and one kill are the least with
interference and with files left behind; a third start lets one of them come back, after a kill or with another
setting. A log of two rows, written one at a time, can be cut and overlapped in every way. *Simulation*: numbers
of GPUs that divide the heads, that do not, and that exceed them; one token, which has no generation
stage, two and three; a number of requests that is a multiple of the batch and one that is not. Times
of qkv, of the attention and of the transfer are longer and shorter than one another in every order
that `_pipeline` distinguishes. They are multiples of 96, so that every quotient of the code is an
integer, for the numbers of GPUs, stages and shares that occur. Caches hold some matrices and not others. The factor 8/3 of the LLAMA models
is an integer here.

**Readiness instead of timing.** In the first slot, any subset of the commands that requests need
may be ready. Within a cycle readiness only shrinks (`late`): what step 4 has found not ready,
step 5 finds not ready. Safety properties therefore hold for every table of timing constraints.

**Fairness.** `WF_vars(Tick)` for the controller: the main loop ticks the memory system for ever
while requests are pending (`src_main.patch`). After `MaxQuiet` cycles without a command all commands
are ready, since every constraint counts cycles from an earlier command; this makes `Drains` and
`RefreshServed` hold without an assumption about particular commands. `WF_vars(Next)` for the system: one thread.
That the controllers get on is not a matter of this thread, and nothing in PIMDRAMSystem makes them: `Terminates` says that the
simulation ends *if* every controller is empty again and again (`ChannelsDrain`, the promise `Drains` of the controller) and their
refreshes are now and then all done (`RefreshesDone`). `Drains` is checked for traces of one kind, so for traces that mix
loads and stores with MACs, and for refreshes beside host traffic, these premises are open.
No fairness is assumed of programs in `RamulatorLog`: only safety is checked.
`WF_vars(Next)` for `SystemSimulation`: one thread that runs until it ends and waits for nothing but the
child processes behind the costs.
`Drains` is checked for bank-level traces with a refresh and for host traces without one. With
both, an active request can be closed by a refresh and then wait for itself (hazard at
`hbm3_pim_controller.cpp:291`), for as long as the choice of ready commands is hostile; whether
the real timing allows it is open.

**Deadlock** is checked in the runs where the specification always has a next step (`bank`,
`host`). It is off where the program may stop: `buffer_pim` (a refresh that finds the priority buffer
full throws), `system` (the main loop ends), `attention_trace`, `scheduler_loop`, `ramulator_log` and
`simulation` (bounded work).

**What the less obvious properties mean.**

* `NoYoungerConflict`: a MAC that hits its open rows loses them only to a refresh or to an older
  request. This is what `rowhit_list` is for, and it fails without it.
* `RefreshHoldsRows`: while a refresh waits, neither slot opens a row, except for a request that was
  active before.
* `ActiveRowKept`: the row of an active request is closed by refreshes only.
* `Drains`: again and again there is a moment when every request accepted so far is done; as the number of
  requests is bounded, each of them is done at some time.
* `SentOnce`, `RightPlace`, `PhasesKept`: between the trace and the controllers nothing is lost, repeated or
  misplaced (an offset that exceeds a column access, as the generator for the buffer die composes for more than 1024 positions, moves the
  column and no other field), and no line is served before those that a barrier of its channel puts in front of it.
* `ReportComplete`: when the main loop stops, nothing is in flight and the counters match the trace.
* `ScoreAfterQuery`, `MoveAfterMac`, `ContextInOrder`: a barrier lies between a command
  and those it depends on, across the loops in which two heads overlap. The code puts no barrier between
  the moves of the last group of a score and the softmax that takes them; `ContextInOrder` leaves those out, as
  nothing in the repository says how they are ordered.
* `ScoresComplete`: no MAC, move or softmax is missing or repeated in the scores; of the spread vector
  commands less than one per iteration is missing, because the stride is rounded down.
* `LogSound`: a row holds the measurement of its key, in spite of other programs, of overlapping writes and of files that
  killed programs left. It is about *safe* configurations: no two programs share the names of their temporary files
  (the name leaves out the PIM type, hazard at `ramulator_wrapper.py:170`), and generator and simulator do not fail for
  their length. Other programs in the same directory may share names and fail.
* `RowsOfName`: for all configurations, a row has nothing or was measured for its own length, heads, dimension and
  constraint. Where names are shared or something fails, its cycles may be those of another PIM type or of a part of a trace.
* `AnswerRight`: an answer for a safe configuration, from a copy without cut rows, is the measurement of the layer that was asked for,
  or of the dimension in the model's description where that is another one: then no row ever matches, the layer
  is simulated on every call, and `run` simulates it with the description's dimension. Times and accesses are the same
  whether the row was found or not, where `run` and `output` count alike.
* `Terminates`: a refused line is tried again and stalls all channels, and the loop condition is evaluated once a tick, after the controllers: if
  these do their part (see *Fairness*), every line is sent in the end and the loop sees that nothing is left.
* `Conservation`: every accepted request is found in exactly one place, and one that was not accepted
  in none.
* `WorkPreserved`: the matrix products of all devices together are those of a single device, in every
  stage. Asked only where the number of devices divides the heads; elsewhere heads are lost.
* `CapacityAgrees`: the memory that `system.py` requires for weights is that of the
  layers of `model.py`; for keys and values it is that of the layers and of the columns that no head has (`Unused`): the formula
  counts the width of the model, the layers its heads times their rounded width, which is 48 of 12288 columns less for MT-146B.
* `TilesOwn`: the tiles a device takes from its table are the best for the layer at hand, although the
  key leaves out the type of the layer, which the best tiles depend on.
* `EnergiesAddUp`, `ColumnsAddUp`: the two sums of energy agree at any time, and in the row every column
  that others are parts of is their sum.
* `PipelineBounds`: the pipeline makes no decoder slower and none faster than its longest part. Of the shares of
  qkv and proj nothing is said: three quarters of what is hidden go to qkv and one to proj whatever
  their ratio. With the formulas and parameters of the repository, proj becomes negative for some
  configurations (for example GPT-175B on one H100 with PIM in the bank groups, 4096 tokens, batch 16).
* `Ends`: the program writes a header and one row exactly if the arguments are feasible, and fails with no file
  otherwise: a single token divides by zero, more GPUs than heads leave a device without work, and a
  second batch is added wrongly.

## 4 Proofs

The theorems hold for every value of the constants that satisfies the assumptions of their modules:
`OrgAssumption` (HBM3PIM: at least one of each level, rows are natural numbers) and
`ControllerAssumption` (HBM3PIMController: requests are well-formed, bounds and capacities are natural
numbers) for the controller, `AddressAssumption` and `SystemAssumption` (sizes and
capacities of one or more, traces of lines with a place in the memory) for the memory system, `TraceAssumption` for
the traces, `LogAssumption` for the log, `TileAssumption` and `SimulationAssumption` for the
system simulation. They hold for every timing, every garbage, every trace, every length and every capacity.
Assumptions beyond these are hypotheses of the theorems, named below with their reason.

* **Induction** is the base of the proofs about loops and sums: induction over the natural numbers
  (`SetInduction`) and over finite sets (`FiniteInduction`) for a *set* of those for which something holds,
  derived from `<` being well-founded. The library's `SumFunctionOnSet` is a recursion over a set in an order
  that `CHOOSE` fixes; `SumsInAnyOrder` shows that the order does not matter, `SumIn`, `SumSame` and `SumUnion`
  what the other proofs use.
* **ControllerProofs**
  * `Typing == Spec => []TypeOK`. `TypeOK` is inductive by itself. The lemmas follow
    the operators: what a request may need next (`PreqType`), the effect of a command
    (`IssueCommandType`), removal from a sequence (`RemoveAtProperties`), and the end of a slot
    (`IssueType`, `PassType`, `ServeType`). The interesting part is that a request that moves to the
    active buffer is a load or a store: `Issue` moves only when `is_pim'` is false, and `FromPim` sets it.
  * `BarriersHold == Spec => BarrierOrder`: the controller implements BarrierQueue. The
    invariant is `PimSorted`: the PIM buffer is sorted by number and by arrival, and neither exceeds
    the counters. It is needed because the scheduler decides by position and arrival, while
    BarrierQueue speaks of numbers. With it: only the front can be a barrier that is dropped
    (`DropBarrier`), and a request behind a barrier that is chosen is one that opens or closes rows,
    which does not leave the PIM buffer; a request that leaves is chosen with its final command, has
    therefore no barrier before it, and is no barrier itself unless it is at the front.
  * `Conserved == Spec /\ []RoomForActive => []Conservation`. The invariant `IInv` says
    for every number where its request is (`Located`): nowhere if it is larger than `sent`, and otherwise once
    in one buffer, or once among the pending reads, or done. A move is then a removal (`RemoveHas`), an append
    (`AppendHas`) or both; forwarding, dropping a barrier and completing a read each have a lemma.
    `RoomForActive` is the one assumption: `enqueue` into a full active buffer fails after the request
    has been opened, and the code erases it all the same.
* **RowProofs**
  * `RefreshesHoldRows == Spec => RefreshHoldsRows`. From `TypeOK`: while the priority buffer
    is not empty, a slot that gets past the active buffer either serves a refresh, or is the second slot,
    whose refresh does not fit the type of the first command. A refresh needs a command of type `row`,
    so then the first command was of type `row` or `none`; and a second one that opens rows is of
    type `row` too and does not fit either.
  * `OneRowOpen == ASSUME OneKind PROVE Spec => []SingleRow`. The invariant `InStep` says that
    banks which are opened and closed together (`Together`: all banks, those of a bank group and bank
    number in all pseudochannels, or each for itself) have the same row open, and one at most. It is needed because a
    broadcast looks at its banks one after the other and asks for an activation at the first closed one:
    only if all of them are in step does this mean that none has another row. `OneKind` makes the commands of
    a trace agree on what is in step. The generators write such traces, with the exception of MACSB,
    which fails (finding `group_banks`). Without `OneKind` the property is false: a load opens a bank behind
    the first closed one.
  * `ActiveRowsStay == ASSUME HostOnly PROVE Spec => ActiveRowKept`. A request without a MAC closes the
    bank it is addressed to and no other (`HostCloses`), and a slot serves no request that closes the bank of an
    active one (`SlotRows`). With MACs the first half is false, and so is the property (finding `active_row_pim`).
  * `HitsYieldToOlder == ASSUME PimOnly, OneAddress PROVE Spec => NoYoungerConflict`. With PIM requests alone and no
    refresh waiting, a slot serves the PIM buffer or leaves the rows alone (`PimSlotRows`). A request whose command
    closes the rows of a MAC that hits is addressed to a bank that this MAC hits, so `TakesOver` does not
    let it take over from a request before it; it can only win from the front of the buffer, and by
    `PimSorted` it is then the older one. `OneAddress` is what the generators do: a broadcast is addressed to
    the first of its banks. The scheduler compares addressed banks only, so two broadcasts to the same banks under
    different addresses would not be seen to conflict.
* **LoopProofs**, `LoopIsChoice == Spec => []LoopAgrees`: for a buffer of any length, the loop that compares
  its candidate with one request after the other finds what `get_best_request` of PIMScheduler names. Induction
  over the position (`AllFound`): after n requests the candidate is the winner among those of the first n that compete
  (`Found`). The relation is no order, since a request that is guarded by a hit does not take over even if it is
  ready; the invariant separates the two cases: as long as none of the requests seen can take over, the candidate is the best of those that are
  not ready; afterwards it is ready, and the best of those from the first that could.
* **SystemProofs**, for any traces, capacities and numbers of channels.
  * `ApplyInverts`: for all sizes of the levels that are powers of two (`PowersOfTwo`, which
    MCSystem states of its instance; otherwise bits and sizes disagree and the tables cannot describe the same memory),
    `apply(Address(v, offset)) = v`. `h2` to `h7` number the elements of each level throughout the memory: the
    address is the last of them times the size of a column plus the offset, and each shift goes back from one to
    the one above (`Digits`). `OffsetsStay` extends it to offsets that exceed a column access, as long as they stay in the
    row: the quotient goes to the column. The other theorems of the module are under `PowersOfTwo`, too.
  * `Good` is `TypeOK` and `Placed`: what a channel has accepted are exactly the requests of its lines among those
    sent so far, and what waits has not been served. `ApplyInverts` puts the current line into its channel.
    `WellFormed` (`TypeOK`), `EachLineOnce` (`SentOnce`) and `PlacesRight` (`RightPlace`) follow.
  * `PhasesInOrder` (`PhasesKept`) is inductive given `Good`: when a line leaves, so do the barrier before it, if
    it still waits, and the lines before that.
  * `QueuesImplemented` (`ChannelsPromise`): a line that is accepted is a `Submit` of its channel and a `Skip`
    of the others, a tick is a `Retire`; that numbers tell requests apart comes from `Placed`.
  * `ReportsWholeTrace` (`ReportComplete`) needs that the counters count the lines sent so far (`Counting`) and
    what the condition of the main loop leaves behind (`Ended`).
* **TraceProofs**, for every length, dimension, number of heads and organization: `TypeCorrect` (`TypeOK`),
  `ScoreFollowsQuery` (`ScoreAfterQuery`), `MovesFollowMacs` (`MoveAfterMac`) and `ContextOrdered`
  (`ContextInOrder`). None of the properties is inductive: when a MAC is appended, one has to know that a
  barrier is already behind the command it depends on. The invariant `TraceInv` says of the trace
  so far that dependent commands are separated (`Respected`), that every command that needs a barrier has one
  behind it unless its iteration is still running (`Fenced`; the loops end each iteration but the last with a
  barrier, and the last emits nothing that needs one), and, for every stage, which commands of which head can be in
  the trace and up to which number (`Reached`). `MoveAhead` is the delicate case: it is spread over the iterations before
  the last, so that a barrier follows its last command. A softmax is emitted when the loop that scores its head has
  ended, though not with a barrier, which is why the moves of the last group are exempt.
  `EveryHeadScored` (`ScoresComplete`) is about numbers of commands. The invariant `CountInv` gives, for every
  list and head, the number n of the commands emitted so far as a function of the stage and the index of its loop
  (`Count`): of a list of steps or moves as many as there were iterations, of a vector as many
  strides. It says that the trace holds exactly those numbered 0 to n - 1, each once (`Block`). Every piece of an
  iteration continues such a block where the one before it ended (`Adds`, `Added`), and there is a lemma for
  each kind of piece. The number goes from one loop to the next without a gap because a loop runs once more than its length, and
  what it does in that last turn depends on the piece: the moves of the score are one behind and catch up, the
  strides have ended. When a head is finished, its lists are complete but for what is left over when a vector is
  divided into strides (`Enough`, `StrideFits`). A context computed with Head1 may be moved twice (finding
  `head1_context`), so the lists of the context are not counted.
* **LogProofs**, for any number of programs, starts and kills, without further assumptions.
  * `LogWellFormed` (`TypeOK`) and `RowsKeepTheirName` (`RowsOfName`). The invariant `TypeInv` says of every file that it holds what
    some program writes under its name, and of every row that its result is nothing or one of its name
    (`NamedRows`). The log is rewritten in pieces that overlap; `OverlayOf` shows that what comes out are rows that were there, rows of
    the writer or garbled ones, so that a set that has all of these and every new row is never left (`RowsStay`).
  * `RowsSound` (`LogSound`). The invariant `IInv` says of a program that works on a safe configuration what its files
    hold at each of its steps (`Prepared`), and of the log and every copy that whole rows of safe configurations are right (`SoundRows`). It survives other programs
    because their steps touch neither its variables nor the files of a name that is not shared (`FilesApart`,
    `OthersKeep`), and kills because every step writes what it reads.
  * `AnswersRight` (`AnswerRight`): an answer comes from a sound row or from a simulation that `Prepared` describes
    (`OwnAnswer`), and stays right because a copy only grows until its program ends (`CopyGrows`).
* **SimulationProofs**, for all models, batches, lengths, numbers of devices and tables of costs.
  * `SimulationTyped` (`TypeOK`). The invariant `TypeInv` adds what each step needs to know to be one
    of the table: the layers have their fields, stages and indices are in range, an accelerator is set only
    for the systems that have one.
  * `EnergyByType` (`EnergiesAddUp`): a layer has one of the seven types, so that what it adds to the one sum it adds
    to exactly one of the others.
  * `TilesAreOwn == ASSUME HeadsWide PROVE Spec => []TilesOwn`. The key leaves out the type, so the proof is about the
    layers: a type can be read off the other sizes as far as the search looks at it (`OfKey`: a layer with one
    operation and inner dimension above one is an FC). `TilesInv` says that every table holds the best tiles of
    the layers its keys describe, and that the layer asked for last is in it. This needs heads of two columns or
    more (`HeadsWide`; they have 128 or more in all models of `config.py`) and, as `TilesOwn` says, more than one head
    per device.
  * `WorkIsPreserved` (`WorkPreserved`) and `CapacityIsKept` (`CapacityAgrees`), for every model.
    The invariant `BuiltInv` says that steps change the times of layers, but neither their number nor their type or
    sizes (`Shape`), so that at any time they have the shapes that `build_sum` and `build_gen` gave them. A sum
    over a decoder is then the sum over its parts (`DecoderParts`), of which some depend on the model, the
    device and the stage, and each product times the number of devices is that of the whole model. The width of the model is its heads times their rounded
    width and a remainder, which is what the formula for the capacity counts beyond the layers.
  * `OverlapBounds`: for all times, and any number of GPUs up to the number of heads, the
    result of `Overlap` lies between the longest part and the sum of the parts. `PipelineWithinBounds ==
    Spec /\ []EvenTransfers => PipelineBounds` says it of the stages of the simulation. The invariant
    `PipelineInv` says that a stage in the pipeline has the times of its devices, in
    the second batch too, although the first one has overwritten them, and that there are enough heads, because
    the summarization would have failed otherwise; from `BuiltInv` it follows that each part is where the pipeline
    looks for it (`PartsPlaced`). `EvenTransfers`: the code halves a floating-point number, the model an integer,
    so the transfers must take an even time. They do in the instance, where TLC has found both invariants and
    this hypothesis to hold.
  * `TotalsMatch == Spec => []TotalsAddUp`: what the table is computed from adds up for all numbers. `TimesInv` says
    that every time is a number, also after the pipeline; `TransfersInv` that transfers cost no energy in
    memories and cores, which is why the energies by kind of layer may leave them out. That a time is counted once
    although it can be selected by type or by name needs the layers: the FC layers are exactly the projections
    (`Layers`, by `BuiltIn`). `FlattenType` says that the layers of all stages, joined, are such layers.
  * `ColumnsMatch == Spec /\ []ExactMeans => []ColumnsAddUp` says it of the row in the file. `ReportInv`: layers and
    energies do not change between the report and the row. `HeaderPlaces` and `FourParts` find the value under each name, by the
    positions in the header and in the four lists that are joined. `ExactMeans`: the code divides
    floating-point numbers, the model integers, so the times and energies must be in a unit in which the
    quotients are exact. They are in the instance; TLC has found this hypothesis and the three invariants to hold there.

MCSimulation states `HeadsWide` of its instance (`MCHeads`).

Only model-checked: `SingleRow` of mixed traces and `ActiveRowKept` of traces with MACs are false (section 5);
`NoYoungerConflict` is proved for traces of PIM requests, and checked for them as well. All liveness
(`Drains`, `RefreshServed`, `Terminates` under its premises, `Ends`) stays with TLC: fairness and ENABLED are out of the prover's reach.

## 5 Findings

* `group_banks`: PRESB closes the banks of its own bank group, ACTSB opens those of all bank groups
  (`patches/src_dram_lambdas_action.patch:91`). Same-bank traffic leaves banks with a stale row and
  then opens a second one.
* `active_row_pim`: the check that protects the row of an active request compares the addressed bank,
  but the precharges of PIM commands are broadcasts (`hbm3_pim_controller.cpp:291`).
* `head1_context`: the loop "Head1: Context" emits the commands of Head0
  (`trace_gen/gen_trace_attacc_bank.py:304`, and the same in the other two generators).
* `failed_simulation` (`RowsMeasured`): a failed simulation is not noticed and is logged with zero cycles
  (`src/ramulator_wrapper.py:117`).

## 6 What is not modelled

* DRAM timing: the constraint tables, power-down states, refresh intervals. Properties hold for all of
  them, but nothing is said about latencies and cycle counts.
* Statistics and logging of the controller, trace recorder, build files, the setup script.
* The formulas of `devices.py` for times and energies, the parameters in `config.py`, and floating-point
  arithmetic: a table of costs stands for them, and times are integers.
* Columns of the table that only repeat an argument or a parameter (`bw`, `sys_opb` and others), and the parsing
  of arguments. `simulate` with several batches is modelled; `main` never asks for them.
* The baseline controller and device without PIM.
* In the trace model: the addresses inside a head, the dimension loops within a MAC group, and the
  order of the channels within a group. The controllers are separate for each channel.
* In the system model: the device of each channel. The abstraction is justified by `BarriersHold` and
  `QueuesImplemented` (order); progress is a premise of `Terminates`, met by what `Drains` shows for traces of one kind.
* In the log: `dbyte`, which is the same in all rows of a program's layers and goes wherever the length goes; the removal of rows
  that two writers left twice (`drop_duplicates`), which a lookup cannot tell, as it takes the first; a configuration that is read while it is
  written (it is small and there at once). A row at the boundary of two overlapping writes counts as garbled. The children of a
  program that is killed end with it.
* In the system: offsets that leave their row. The generators compose such addresses for 32768 positions and more only.
* In the system simulation: 17 of the 51 columns of the table, among them those of the energies that are merged into `comp`.
* Overflow of the active buffer: the capacities of the instances exceed the number of requests, and
  `Conserved` assumes room.

## 7 Plan

Done, in this order: device, scheduler, controller with properties; barrier abstraction; type
correctness, barrier order and row protection proved; system, traces, log; the system simulation with
its models, devices and table; one row per bank, conservation of requests and the soundness of the log proved;
the address mapping and the safety of the memory system proved; the scheduler's loop, the order of conflicting
requests, the traces, and all safety properties of the system simulation proved, the columns of its table last.

Next, modelling: (1) the baseline controller, with the host path of the PIM controller as its
implementation; (2) a controller with the timing constraints of a few commands, to decide the question of
progress under refreshes; (3) the column arithmetic of the trace generators within a head.

Next, proofs: (1) `SingleRow` under a weaker hypothesis on mixed traces; (2) the simulation with rounded
quotients: by how much the columns can then miss their totals.
