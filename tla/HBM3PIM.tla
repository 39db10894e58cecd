------------------------------- MODULE HBM3PIM -------------------------------
(***************************************************************************)
(* The bank state of one HBM3-PIM channel: which rows are open in which    *)
(* bank, which command a request needs next (the prerequisite functions)   *)
(* and what a command does to the banks (the action functions).            *)
(*                                                                         *)
(* A bank is its path <<pseudochannel, rank, bankgroup, bank>> under the   *)
(* channel.  The argument open maps a bank to the set of rows that         *)
(* m_row_state marks Opened.  m_state is Opened exactly when that set is   *)
(* not empty: the action functions always change the two together.        *)
(*                                                                         *)
(* A request is a record with at least the fields cmd (its final command), *)
(* bank and row.  A refresh names only a pseudochannel: its path is        *)
(* <<p, -1, -1, -1>>.                                                      *)
(***************************************************************************)
EXTENDS Integers

CONSTANTS NPch,   \* pseudochannels in a channel
          NRank,  \* ranks in a pseudochannel
          NBG,    \* bank groups in a rank
          NBA,    \* banks in a bank group
          Row     \* rows of a bank

ASSUME OrgAssumption ==
  /\ NPch \in Nat \ {0}
  /\ NRank \in Nat \ {0}
  /\ NBG \in Nat \ {0}
  /\ NBA \in Nat \ {0}

Bank == (0 .. NPch - 1) \X (0 .. NRank - 1) \X (0 .. NBG - 1) \X (0 .. NBA - 1)

\* The path a refresh request carries: rank, bank group and bank are -1.
RefreshPath == (0 .. NPch - 1) \X {-1} \X {-1} \X {-1}

MacCommands  == {"MACAB", "MACSB", "MACPB"}
MoveCommands == {"WRGB", "MVSB", "MVGB", "SFM", "SETM", "SETH"}
HostCommands == {"RD", "WR"}
PimCommands  == MacCommands \cup MoveCommands \cup {"BARRIER"}
Finals       == HostCommands \cup PimCommands \cup {"REFab"}
Opening      == {"ACT", "ACTAB", "ACTSB", "ACTPB"}
Closing      == {"PRE", "PREA", "PRESB", "PREPB"}
Commands     == Finals \cup Opening \cup Closing

-----------------------------------------------------------------------------
(***************************************************************************)
(* The banks a broadcast reaches from the bank it is addressed to.         *)
(***************************************************************************)

SameBanks(b) == {c \in Bank : c[4] = b[4]}
PerBanks(b)  == {c \in Bank : c[2] = b[2] /\ c[3] = b[3] /\ c[4] = b[4]}

\* The order in which the nested loops of the prerequisite functions visit
\* the banks of a channel.
Before(c, b) ==
  \E k \in 1 .. 4 : c[k] < b[k] /\ \A j \in 1 .. k - 1 : c[j] = b[j]

\* The loop shared by the three MAC prerequisites: the first bank that lacks
\* the row decides, a closed one asks for act and an open one for pre.
RequireRowOpenIn(open, targets, row, cmd, act, pre) ==
  IF \A b \in targets : row \in open[b] THEN cmd
  ELSE IF \E b \in targets : /\ open[b] = {}
                             /\ \A c \in targets : Before(c, b) => row \in open[c]
       THEN act
       ELSE pre

RequireAllBanksRowOpen(open, r) ==
  RequireRowOpenIn(open, Bank, r.row, "MACAB", "ACTAB", "PREA")

RequirePIMSameBanksRowOpen(open, r) ==
  RequireRowOpenIn(open, SameBanks(r.bank), r.row, "MACSB", "ACTSB", "PRESB")

RequirePIMPerBanksRowOpen(open, r) ==
  RequireRowOpenIn(open, PerBanks(r.bank), r.row, "MACPB", "ACTPB", "PREPB")

RequireAllBanksClosed(open) ==
  IF \A b \in Bank : open[b] = {} THEN "REFab" ELSE "PREA"

\* Wrong: another open row is taken for a closed bank.
RequireRowOpen_NoPre(open, r) ==
  IF r.row \in open[r.bank] THEN r.cmd ELSE "ACT"

\* Unpatched function of ramulator2 that set_preqs registers for RD and WR.
RequireRowOpen(open, r) ==
  IF open[r.bank] = {} THEN "ACT" ELSE IF r.row \in open[r.bank] THEN r.cmd ELSE "PRE"

get_preq_command(open, r) ==
  CASE r.cmd = "MACAB" -> RequireAllBanksRowOpen(open, r)
    [] r.cmd = "MACSB" -> RequirePIMSameBanksRowOpen(open, r)
    [] r.cmd = "MACPB" -> RequirePIMPerBanksRowOpen(open, r)
    [] r.cmd = "REFab" -> RequireAllBanksClosed(open)
    [] r.cmd \in HostCommands -> RequireRowOpen(open, r)
    [] OTHER -> r.cmd

\* Set by set_rowhits for the column commands only.  Such a command is what
\* get_preq_command returns only when the addressed bank has the row open.
check_rowbuffer_hit(cmd) == cmd \in MacCommands \cup HostCommands

-----------------------------------------------------------------------------
(***************************************************************************)
(* The action functions: the banks after command cmd was issued for r.     *)
(***************************************************************************)

Opened(open, targets, row) ==
  [b \in Bank |-> IF b \in targets THEN open[b] \cup {row} ELSE open[b]]

Closed(open, targets) ==
  [b \in Bank |-> IF b \in targets THEN {} ELSE open[b]]

\* Wrong: an all-bank command that stays in the addressed pseudochannel.
ACTAB_OnePch(open, r) == Opened(open, {b \in Bank : b[1] = r.bank[1]}, r.row)
PREA_OnePch(open) == Closed(open, {b \in Bank : b[1] = 0})

\* Wrong: a precharge without the broadcast over the pseudochannels.
PREPB_OneBank(open, r) == Closed(open, {r.bank})

ACTAB(open, r) == Opened(open, Bank, r.row)
ACTSB(open, r) == Opened(open, SameBanks(r.bank), r.row)
ACTPB(open, r) == Opened(open, PerBanks(r.bank), r.row)
PREA(open)     == Closed(open, Bank)

\* PRESB filters by rank and bank group, as PREPB does, and so closes fewer
\* banks than ACTSB opens.
PRESB(open, r) == Closed(open, PerBanks(r.bank))
PREPB(open, r) == Closed(open, PerBanks(r.bank))

\* Unpatched functions of ramulator2 that set_actions registers.
ACT(open, r) == Opened(open, {r.bank}, r.row)
PRE(open, r) == Closed(open, {r.bank})

issue_command(open, cmd, r) ==
  CASE cmd = "ACT"   -> ACT(open, r)
    [] cmd = "PRE"   -> PRE(open, r)
    [] cmd = "PREA"  -> PREA(open)
    [] cmd = "ACTAB" -> ACTAB(open, r)
    [] cmd = "ACTSB" -> ACTSB(open, r)
    [] cmd = "ACTPB" -> ACTPB(open, r)
    [] cmd = "PRESB" -> PRESB(open, r)
    [] cmd = "PREPB" -> PREPB(open, r)
    [] OTHER -> open
=============================================================================
