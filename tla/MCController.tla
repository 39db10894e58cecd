---------------------------- MODULE MCController ----------------------------
(***************************************************************************)
(* Instances of the HBM3-PIM controller for TLC: what each kind of trace   *)
(* sends to a channel of a few banks with two rows.                        *)
(***************************************************************************)
EXTENDS ControllerProperties

\* The traces address a MACAB to bank 0 of everything.
Bank0 == <<0, 0, 0, 0>>
BankOf(pch, ba) == <<pch, 0, 0, ba>>

Req(cmds, banks, rows) ==
  [cmd : cmds, addr : {0}, bank : banks, row : rows]

\* The trace of gen_trace_attacc_bank.py: MACAB on a row, a move, a barrier.
BankLevelTrace ==
  Req({"MACAB"}, {Bank0}, Row) \cup Req({"MVSB", "BARRIER"}, {Bank0}, {1})

\* Capacities: the PIM buffer is never full, the priority buffer holds one
\* round of refreshes and a half.
BankLevelCapacity == [b \in Buffers |-> IF b = "priority" THEN 3 ELSE MaxReqs]

\* Loads and stores: two rows of one bank and one row of another.
HostTrace ==
  LET At(addr, ba, row) ==
        [cmd : HostCommands, addr : {addr}, bank : {BankOf(0, ba)}, row : {row}]
  IN At(0, 0, 1) \cup At(1, 0, 2) \cup At(2, 1, 1)

HostCapacity ==
  [b \in Buffers |-> IF b = "pim" THEN 0 ELSE MaxReqs + NPch]

\* Loads of one row beside MACABs of another, and a barrier.
MixedTrace ==
  Req({"RD"}, {BankOf(0, 1)}, {1}) \cup Req({"MACAB"}, {Bank0}, {2}) \cup Req({"BARRIER"}, {Bank0}, {1})

MixedCapacity == [b \in Buffers |-> MaxReqs + NPch]

\* The trace of gen_trace_attacc_buffer.py: MACPBs on the banks of a bank group.
BufferLevelTrace ==
  Req({"MACPB"}, {BankOf(0, 0)}, Row) \cup Req({"MACPB"}, {BankOf(0, 1)}, {1}) \cup Req({"BARRIER"}, {Bank0}, {1})

\* The trace of gen_trace_attacc_bg.py: MACSBs, addressed to bank group 0.
GroupLevelTrace == Req({"MACSB"}, {Bank0}, Row)
=============================================================================
