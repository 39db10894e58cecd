----------------------------- MODULE RowProofs -----------------------------
(***************************************************************************)
(* Proofs about the rows of the banks: who may open one while a refresh is *)
(* waiting, and that a bank has one row open at most.                      *)
(***************************************************************************)
EXTENDS ControllerProofs

USE DEF Buffers

\* Only an activation opens a row; the one of a load or store, its own row.
LEMMA OpensRow ==
  ASSUME NEW open, NEW c, NEW r, NEW b \in Bank,
         NEW row \in issue_command(open, c, r)[b] \ open[b]
  PROVE  /\ c \in Opening
         /\ c = "ACT" => b = r.bank /\ row = r.row
<1>1. \A targets : Closed(open, targets)[b] \subseteq open[b]
  BY DEF Closed
<1>2. Opened(open, {r.bank}, r.row)[b] = IF b = r.bank THEN open[b] \cup {r.row} ELSE open[b]
  BY DEF Opened
<1>3. CASE c \in {"PRE", "PREA", "PRESB", "PREPB"}
  BY <1>1, <1>3 DEF issue_command, PRE, PREA, PRESB, PREPB
<1>4. CASE c = "ACT"
  BY <1>2, <1>4 DEF issue_command, ACT, Opening
<1>5. CASE c \in {"ACTAB", "ACTSB", "ACTPB"}
  BY <1>5 DEF Opening
<1>6. CASE c \notin {"ACT", "ACTAB", "ACTSB", "ACTPB", "PRE", "PREA", "PRESB", "PREPB"}
  <2>1. issue_command(open, c, r) = open
    BY <1>6 DEF issue_command
  <2> QED BY <2>1
<1> QED BY <1>3, <1>4, <1>5, <1>6

\* What a slot that serves a request does to the banks.
LEMMA ServeRows ==
  ASSUME NEW src, NEW i, NEW bufs, NEW gone, Serve(src, i, bufs, gone)
  PROVE  \/ /\ row_state' = issue_command(row_state, Command(bufs[src][i]), bufs[src][i])
            /\ ~ Interrupts(bufs[src][i])
         \/ row_state' = row_state
BY DEF Serve, Issue, Pass

\* In a slot that passes over a waiting refresh only column commands are left.
LEMMA OnlyColumnsPass ==
  ASSUME TypeOK, buffer["priority"] # <<>>, ~ PriorityAsked,
         NEW r, Fits(r)
  PROVE  Command(r) \notin Opening
<1> DEFINE p == buffer["priority"][1]
<1>1. p \in RefreshRequest
  <2>1. buffer["priority"] \in Seq(RefreshRequest)
    BY DEF TypeOK, Admitted
  <2> QED BY <2>1, EmptySeq, ElementOfSeq
<1>2. Command(p) \in {"REFab", "PREA"}
  <2>1. p \in Request /\ p.cmd = "REFab"
    BY <1>1 DEF Request, RefreshRequest
  <2> QED BY <2>1, PreqType DEF Command
<1>3. get_command_type(Command(p)) = "row"
  BY <1>2 DEF get_command_type
<1>4. phase # "first" /\ (first.type = "none" \/ first.type = "row")
  BY <1>3 DEF PriorityAsked, Fits, compare_command_type
<1>5. get_command_type(Command(r)) # "row"
  BY <1>4 DEF Fits, compare_command_type
<1> QED BY <1>5 DEF get_command_type, Opening

\* While a refresh waits, neither slot of a tick opens a row for a request that
\* was not active already: step 5 may pass over the refresh, but then the type
\* of command it looks for rules out every activation.
THEOREM RefreshesHoldRows == Spec => RefreshHoldsRows
<1> DEFINE Held == buffer["priority"] # <<>> =>
                     \A b \in Bank : \A row \in row_state'[b] \ row_state[b] :
                       \E r \in Waiting("active") : r.bank = b /\ r.row = row
<1>1. TypeOK /\ [Next]_vars => [Held]_vars
  <2> SUFFICES ASSUME TypeOK, [Next]_vars, buffer["priority"] # <<>>,
                      NEW b \in Bank, NEW row \in row_state'[b] \ row_state[b]
               PROVE  \E r \in Waiting("active") : r.bank = b /\ r.row = row
    OBVIOUS
  <2>1. row_state' # row_state
    OBVIOUS
  <2>2. Slot
    BY <2>1 DEF Next, Tick, Send, TickBegin, RefreshFails, FirstSlot, SecondSlot, vars
  <2>3. PICK R \in ReadySets :
          \/ FromActive(R)
          \/ FromPriority(R)
          \/ PriorityBlocks(R)
          \/ FromPim(R)
          \/ FromHost(R)
    BY <2>2 DEF Slot
  <2>4. ASSUME NEW src, NEW i, NEW bufs, NEW gone, Serve(src, i, bufs, gone)
        PROVE  /\ Command(bufs[src][i]) \in Opening
               /\ Command(bufs[src][i]) = "ACT" => b = bufs[src][i].bank /\ row = bufs[src][i].row
    BY <2>1, <2>4, ServeRows, OpensRow
  <2>5. CASE FromActive(R)
    <3>1. PICK i \in Taken(R, buffer["active"]) : Serve("active", i, buffer, {})
      BY <2>5 DEF FromActive
    <3>2. buffer["active"] \in Seq(HostRequest(HostCommands))
      BY DEF TypeOK, Admitted
    <3>3. i \in DOMAIN buffer["active"] /\ buffer["active"][i] \in HostRequest(HostCommands)
      BY <3>1, <3>2, TakenInBuffer, LenProperties, ElementOfSeq DEF Taken
    <3>4. Command(buffer["active"][i]) = "ACT"
      <4>1. buffer["active"][i].cmd \in HostCommands
        BY <3>3 DEF HostRequest
      <4> QED BY <2>4, <3>1, <4>1
              DEF Command, get_preq_command, RequireRowOpen, HostCommands, Opening, MacCommands
    <3> QED BY <2>4, <3>1, <3>3, <3>4 DEF Waiting, ToSet
  <2>6. CASE FromPriority(R)
    <3>1. buffer["priority"] \in Seq(RefreshRequest)
      BY DEF TypeOK, Admitted
    <3>2. buffer["priority"][1] \in Request /\ buffer["priority"][1].cmd = "REFab"
      <4>1. buffer["priority"][1] \in RefreshRequest
        BY <3>1, EmptySeq, ElementOfSeq
      <4> QED BY <4>1 DEF Request, RefreshRequest
    <3>3. Command(buffer["priority"][1]) \notin Opening
      BY <3>2, PreqType DEF Command, Opening
    <3> QED BY <2>4, <2>6, <3>3 DEF FromPriority
  <2>7. CASE PriorityBlocks(R)
    BY <2>1, <2>7 DEF PriorityBlocks, Pass
  <2>8. CASE FromPim(R)
    <3>1. PICK i \in Taken(R, PimSearched["pim"]) :
            Serve("pim", i, PimSearched, Dropped(buffer["pim"]))
      BY <2>8 DEF FromPim
    <3>2. Command(PimSearched["pim"][i]) \notin Opening
      BY <2>8, <3>1, OnlyColumnsPass DEF FromPim, Taken
    <3> QED BY <2>4, <3>1, <3>2
  <2>9. CASE FromHost(R)
    <3>1. PimSearched[HostBuffer] = buffer[HostBuffer]
      BY SearchedType DEF HostBuffer
    <3>2. ASSUME NEW i \in Taken(R, buffer[HostBuffer]),
                 Serve(HostBuffer, i, PimSearched, Dropped(buffer["pim"]))
          PROVE  FALSE
      <4>1. Command(PimSearched[HostBuffer][i]) \notin Opening
        BY <2>9, <3>1, <3>2, OnlyColumnsPass DEF FromHost, Taken
      <4> QED BY <2>4, <3>2, <4>1
    <3>3. ASSUME NEW types, Pass(PimSearched, Dropped(buffer["pim"]), types) PROVE FALSE
      BY <2>1, <3>3 DEF Pass
    <3> QED BY <2>9, <3>2, <3>3 DEF FromHost
  <2> QED BY <2>3, <2>5, <2>6, <2>7, <2>8, <2>9
<1> QED BY <1>1, Typing, PTL DEF Spec, RefreshHoldsRows

-----------------------------------------------------------------------------
(* One row in every bank.                                                  *)

\* Traces with one kind of requests that open rows: for the units in all banks
\* together, for those of the buffer dies, or from the host.
AllBank == TraceCommands \cap (HostCommands \cup {"MACSB", "MACPB"}) = {}
PerBank == TraceCommands \cap (HostCommands \cup {"MACAB", "MACSB"}) = {}
HostOnly == TraceCommands \cap MacCommands = {}
OneKind == AllBank \/ PerBank \/ HostOnly

\* The banks that are opened and closed together with bank b.
Together(b) == IF AllBank THEN Bank ELSE IF PerBank THEN PerBanks(b) ELSE {b}

\* They have the same row, and one at most.
InStep(open) ==
  /\ \A b \in Bank : \A x, y \in open[b] : x = y
  /\ \A b \in Bank : \A c \in Together(b) : open[c] = open[b]

LEMMA OpenedInStep ==
  ASSUME NEW open, InStep(open), NEW targets \in SUBSET Bank, NEW row,
         \A b \in targets : open[b] = {},
         \A b \in Bank : \A c \in Together(b) : c \in Bank /\ (c \in targets <=> b \in targets)
  PROVE  InStep(Opened(open, targets, row))
<1> DEFINE new == Opened(open, targets, row)
<1>1. \A b \in Bank : new[b] = IF b \in targets THEN {row} ELSE open[b]
  BY DEF Opened
<1> HIDE DEF new
<1>2. InStep(new)
  BY <1>1 DEF InStep
<1> QED BY <1>2 DEF new

LEMMA ClosedInStep ==
  ASSUME NEW open, InStep(open), NEW targets \in SUBSET Bank,
         \A b \in Bank : \A c \in Together(b) : c \in Bank /\ (c \in targets <=> b \in targets)
  PROVE  InStep(Closed(open, targets))
<1> DEFINE new == Closed(open, targets)
<1>1. \A b \in Bank : new[b] = IF b \in targets THEN {} ELSE open[b]
  BY DEF Closed
<1> HIDE DEF new
<1>2. InStep(new)
  BY <1>1 DEF InStep
<1> QED BY <1>2 DEF new

\* Broadcasts ask for an activation when a bank they reach is closed.
LEMMA NeedsOpening ==
  ASSUME NEW open, NEW r
  PROVE  /\ r.cmd = "MACAB" =>
              \/ get_preq_command(open, r) \in {"MACAB", "PREA"}
              \/ get_preq_command(open, r) = "ACTAB" /\ \E b \in Bank : open[b] = {}
         /\ r.cmd = "MACPB" =>
              \/ get_preq_command(open, r) \in {"MACPB", "PREPB"}
              \/ get_preq_command(open, r) = "ACTPB" /\ \E b \in PerBanks(r.bank) : open[b] = {}
BY DEF get_preq_command, RequireAllBanksRowOpen, RequirePIMSameBanksRowOpen,
       RequirePIMPerBanksRowOpen, RequireAllBanksClosed, RequireRowOpen, RequireRowOpenIn, HostCommands

\* The next command of a request keeps the banks in step: an activation is
\* asked for when a bank is closed, and then all that it reaches are.
LEMMA CommandInStep ==
  ASSUME OneKind, NEW open, InStep(open),
         NEW r \in HostRequest(HostCommands \cup PimCommands) \cup RefreshRequest
  PROVE  InStep(issue_command(open, get_preq_command(open, r), r))
<1> DEFINE c == get_preq_command(open, r)
           new == issue_command(open, c, r)
<1>1. \A b \in Bank : PerBanks(b) \subseteq Bank /\ \A d \in PerBanks(b) : PerBanks(d) = PerBanks(b)
  BY DEF PerBanks
<1>2. \A b \in Bank : b \in PerBanks(b)
  BY DEF PerBanks
<1>3. \A b \in Bank : \A d \in Together(b) : d \in Bank
  BY <1>1 DEF Together
<1>4. InStep(Closed(open, Bank))
  BY <1>3, ClosedInStep
<1>5. CASE r \in RefreshRequest
  <2>1. r.cmd = "REFab"
    BY <1>5 DEF RefreshRequest
  <2>2. c = "REFab" \/ c = "PREA"
    BY <2>1 DEF get_preq_command, RequireAllBanksClosed, HostCommands
  <2>3. new = open \/ new = Closed(open, Bank)
    BY <2>2 DEF issue_command, PREA
  <2> QED BY <1>4, <2>3
<1>6. CASE r \in HostRequest(HostCommands \cup PimCommands)
  <2>1. r.cmd \in (HostCommands \cup PimCommands) \cap TraceCommands /\ r.bank \in Bank
    BY <1>6 DEF HostRequest
  <2>2. CASE r.cmd = "MACAB"
    <3>1. AllBank
      BY <2>1, <2>2 DEF OneKind, PerBank, HostOnly, MacCommands
    <3>2. c = "MACAB" \/ c = "PREA" \/ (c = "ACTAB" /\ \E b \in Bank : open[b] = {})
      BY NeedsOpening, <2>2
    <3>3. new = open \/ new = Closed(open, Bank)
            \/ (new = Opened(open, Bank, r.row) /\ \E b \in Bank : open[b] = {})
      BY <3>2 DEF issue_command, PREA, ACTAB
    <3>4. CASE new = Opened(open, Bank, r.row) /\ \E b \in Bank : open[b] = {}
      <4>1. \A b \in Bank : open[b] = {}
        BY <3>1, <3>4 DEF InStep, Together
      <4> QED BY <1>3, <3>4, <4>1, OpenedInStep
    <3> QED BY <1>4, <3>3, <3>4
  <2>3. CASE r.cmd = "MACPB"
    <3> DEFINE T == PerBanks(r.bank)
    <3>1. PerBank /\ ~ AllBank
      BY <2>1, <2>3 DEF OneKind, PerBank, AllBank, HostOnly, MacCommands
    <3>2. c = "MACPB" \/ c = "PREPB" \/ (c = "ACTPB" /\ \E b \in T : open[b] = {})
      BY NeedsOpening, <2>3
    <3>3. new = open \/ new = Closed(open, T)
            \/ (new = Opened(open, T, r.row) /\ \E b \in T : open[b] = {})
      BY <3>2 DEF issue_command, PREPB, ACTPB
    <3>4. T \subseteq Bank /\ \A b \in Bank : \A d \in Together(b) : d \in Bank /\ (d \in T <=> b \in T)
      <4>1. \A b \in Bank : Together(b) = PerBanks(b)
        BY <3>1 DEF Together
      <4> QED BY <1>1, <1>2, <2>1, <4>1
    <3>5. CASE new = Opened(open, T, r.row) /\ \E b \in T : open[b] = {}
      <4>1. \A b \in T : \A d \in T : d \in Together(b)
        BY <1>1, <2>1, <3>1 DEF Together
      <4>2. \A b \in T : open[b] = {}
        BY <3>4, <3>5, <4>1 DEF InStep
      <4> QED BY <3>4, <3>5, <4>2, OpenedInStep
    <3>6. CASE new = Closed(open, T)
      BY <3>4, <3>6, ClosedInStep
    <3> QED BY <3>3, <3>5, <3>6
  <2>4. CASE r.cmd \in HostCommands
    <3> DEFINE T == {r.bank}
    <3>1. \A b \in Bank : Together(b) = {b}
      BY <2>1, <2>4 DEF OneKind, PerBank, AllBank, HostOnly, Together
    <3>2. c = r.cmd \/ c = "PRE" \/ (c = "ACT" /\ open[r.bank] = {})
      BY <2>4 DEF get_preq_command, RequireRowOpen, HostCommands
    <3>3. new = open \/ new = Closed(open, T) \/ (new = Opened(open, T, r.row) /\ open[r.bank] = {})
      BY <2>4, <3>2 DEF issue_command, PRE, ACT, HostCommands
    <3> QED BY <2>1, <3>1, <3>3, OpenedInStep, ClosedInStep
  <2>5. CASE r.cmd \in MoveCommands \cup {"BARRIER"}
    <3>1. new = open
      BY <2>5 DEF get_preq_command, issue_command, MoveCommands, HostCommands
    <3> QED BY <3>1
  <2>6. CASE r.cmd = "MACSB"
    BY <2>1, <2>6 DEF OneKind, AllBank, PerBank, HostOnly, MacCommands
  <2> QED BY <2>1, <2>2, <2>3, <2>4, <2>5, <2>6 DEF PimCommands, MacCommands
<1> QED BY <1>5, <1>6

\* The requests that a slot may serve.
Asking ==
  HostRequest(HostCommands \cup PimCommands)
    \cup (IF buffer["priority"] = <<>> THEN {} ELSE RefreshRequest)

\* What a slot does to the banks: nothing, or the next command of a request that
\* closes no bank of an active one.
LEMMA SlotRows ==
  ASSUME TypeOK, Slot
  PROVE  \/ row_state' = row_state
         \/ \E r \in Asking :
              row_state' = issue_command(row_state, Command(r), r) /\ ~ Interrupts(r)
<1>1. PICK R \in ReadySets :
        \/ FromActive(R)
        \/ FromPriority(R)
        \/ PriorityBlocks(R)
        \/ FromPim(R)
        \/ FromHost(R)
  BY DEF Slot
<1>2. Typed(buffer) /\ Typed(PimSearched) /\ PimSearched["priority"] = buffer["priority"]
  BY SearchedType DEF TypeOK, Typed
<1>3. ASSUME NEW bufs, Typed(bufs), bufs["priority"] = buffer["priority"], NEW src \in Buffers, NEW i \in 1 .. Len(bufs[src]),
             NEW gone, Serve(src, i, bufs, gone)
      PROVE  row_state' = row_state
             \/ \E r \in Asking :
                  row_state' = issue_command(row_state, Command(r), r) /\ ~ Interrupts(r)
  <2>1. bufs[src] \in Seq(Admitted(src)) /\ bufs[src] # <<>>
    BY <1>3, EmptySeq DEF Typed
  <2>2. src # "priority" => Admitted(src) \subseteq HostRequest(HostCommands \cup PimCommands)
    BY DEF Admitted, HostRequest, HostCommands
  <2>3. src = "priority" => Admitted(src) = RefreshRequest /\ buffer["priority"] # <<>>
    BY <1>3, <2>1 DEF Admitted
  <2>4. Admitted(src) \subseteq Asking
    BY <2>2, <2>3 DEF Asking
  <2>5. bufs[src][i] \in Asking
    BY <1>3, <2>1, <2>4, ElementOfSeq
  <2> QED BY <1>3, <2>5, ServeRows
<1>4. ASSUME NEW bufs, Typed(bufs), NEW src \in Buffers, NEW i \in Taken(R, bufs[src])
      PROVE  i \in 1 .. Len(bufs[src])
  BY <1>4, TakenInBuffer DEF Taken, Typed
<1>5. CASE FromActive(R)
  <2>1. PICK i \in Taken(R, buffer["active"]) : Serve("active", i, buffer, {})
    BY <1>5 DEF FromActive
  <2> QED BY <1>2, <1>3, <1>4, <2>1
<1>6. CASE FromPriority(R)
  <2>1. buffer["priority"] \in Seq(Admitted("priority")) /\ buffer["priority"] # <<>>
    BY <1>2, <1>6 DEF FromPriority, PriorityAsked, Typed
  <2>2. 1 \in 1 .. Len(buffer["priority"])
    BY <2>1, EmptySeq, LenProperties
  <2>3. Serve("priority", 1, buffer, {})
    BY <1>6 DEF FromPriority
  <2> QED BY <1>2, <1>3, <2>2, <2>3
<1>7. CASE PriorityBlocks(R)
  BY <1>7 DEF PriorityBlocks, Pass
<1>8. CASE FromPim(R)
  <2>1. PICK i \in Taken(R, PimSearched["pim"]) : Serve("pim", i, PimSearched, Dropped(buffer["pim"]))
    BY <1>8 DEF FromPim
  <2> QED BY <1>2, <1>3, <1>4, <2>1
<1>9. CASE FromHost(R)
  <2>1. HostBuffer \in Buffers /\ PimSearched[HostBuffer] = buffer[HostBuffer]
    BY SearchedType DEF HostBuffer
  <2>2. CASE Taken(R, buffer[HostBuffer]) = {}
    BY <1>9, <2>2 DEF FromHost, Pass
  <2>3. CASE \E i \in Taken(R, buffer[HostBuffer]) :
               Serve(HostBuffer, i, PimSearched, Dropped(buffer["pim"]))
    <3>1. PICK i \in Taken(R, buffer[HostBuffer]) :
            Serve(HostBuffer, i, PimSearched, Dropped(buffer["pim"]))
      BY <2>3
    <3>2. i \in 1 .. Len(PimSearched[HostBuffer])
      BY <1>2, <1>4, <2>1, <3>1
    <3> QED BY <1>2, <1>3, <2>1, <3>1, <3>2
  <2> QED BY <1>9, <2>2, <2>3 DEF FromHost
<1> QED BY <1>1, <1>5, <1>6, <1>7, <1>8, <1>9

\* No bank ever has two rows open, for any organization, order of requests and
\* refreshes, timing and garbage, if requests of one kind only open rows.  (The
\* condition is needed: an activation of all banks is asked for when the first
\* bank without the row is closed, whatever the banks after it have open.)
THEOREM OneRowOpen ==
  ASSUME OneKind
  PROVE  Spec => []SingleRow
<1>1. Init => InStep(row_state)
  BY DEF Init, InStep, Together, PerBanks
<1>2. TypeOK /\ InStep(row_state) /\ [Next]_vars => InStep(row_state)'
  <2> SUFFICES ASSUME TypeOK, InStep(row_state), [Next]_vars
               PROVE  InStep(row_state')
    BY DEF InStep, Together, PerBanks
  <2>1. Slot \/ row_state' = row_state
    BY DEF Next, Tick, Send, TickBegin, RefreshFails, FirstSlot, SecondSlot, vars
  <2>2. CASE Slot
    BY <2>2, SlotRows, CommandInStep DEF Command, Asking
  <2> QED BY <2>1, <2>2
<1>3. InStep(row_state) => SingleRow
  BY DEF InStep, SingleRow
<1> QED BY <1>1, <1>2, <1>3, Typing, PTL DEF Spec

-----------------------------------------------------------------------------
(* The row of an active request.                                           *)

\* A request of the host closes the bank it is addressed to, and no other.
LEMMA HostCloses ==
  ASSUME HostOnly, NEW open, NEW r \in HostRequest(HostCommands \cup PimCommands), NEW b \in Bank,
         open[b] # {}, issue_command(open, get_preq_command(open, r), r)[b] = {}
  PROVE  get_preq_command(open, r) \in Closing /\ b = r.bank
<1> DEFINE c == get_preq_command(open, r)
<1>1. r.cmd \in HostCommands \cup MoveCommands \cup {"BARRIER"}
  BY DEF HostRequest, HostOnly, PimCommands
<1>2. c \in {"ACT", "PRE"} \cup HostCommands \cup MoveCommands \cup {"BARRIER"}
  BY <1>1 DEF get_preq_command, RequireRowOpen, HostCommands, MoveCommands
<1>3. CASE c = "PRE"
  BY <1>3 DEF issue_command, PRE, Closed, Closing
<1>4. CASE c = "ACT"
  BY <1>4 DEF issue_command, ACT, Opened
<1>5. CASE c \in HostCommands \cup MoveCommands \cup {"BARRIER"}
  BY <1>5 DEF issue_command, HostCommands, MoveCommands
<1> QED BY <1>2, <1>3, <1>4, <1>5

\* With loads and stores beside transfers, the row that was opened for an active
\* request stays open until a refresh comes.  (With MACs it does not: the check
\* of step 2.3 and 5.3 compares single banks, and their precharges are
\* broadcasts.)
THEOREM ActiveRowsStay ==
  ASSUME HostOnly
  PROVE  Spec => ActiveRowKept
<1> DEFINE Kept == \A b \in Bank :
                     row_state[b] # {} /\ row_state'[b] = {} =>
                       \/ buffer["priority"] # <<>>
                       \/ \A r \in Waiting("active") : r.bank # b
<1>1. TypeOK /\ [Next]_vars => [Kept]_vars
  <2> SUFFICES ASSUME TypeOK, [Next]_vars, NEW b \in Bank,
                      row_state[b] # {}, row_state'[b] = {}, buffer["priority"] = <<>>,
                      NEW a \in Waiting("active"), a.bank = b
               PROVE  FALSE
    OBVIOUS
  <2>1. Slot
    BY DEF Next, Tick, Send, TickBegin, RefreshFails, FirstSlot, SecondSlot, vars
  <2>2. PICK r \in HostRequest(HostCommands \cup PimCommands) :
          row_state' = issue_command(row_state, Command(r), r) /\ ~ Interrupts(r)
    BY <2>1, SlotRows DEF Asking
  <2>3. Command(r) \in Closing /\ r.bank = b
    BY <2>2, HostCloses DEF Command
  <2>4. \E k \in DOMAIN buffer["active"] : buffer["active"][k].bank = b
    BY DEF Waiting, ToSet
  <2> QED BY <2>2, <2>3, <2>4 DEF Interrupts
<1> QED BY <1>1, Typing, PTL DEF Spec, ActiveRowKept

-----------------------------------------------------------------------------
(* The rows that the MACs of the PIM buffer hit.                           *)

\* The banks a MAC works on.
Reach(r) ==
  IF r.cmd = "MACAB" THEN Bank ELSE IF r.cmd = "MACSB" THEN SameBanks(r.bank) ELSE PerBanks(r.bank)

\* Traces of PIM requests alone, that address MACs on the same banks the same
\* way.  The generators do: a broadcast is addressed to the first bank of those
\* it reaches.
PimOnly == TraceCommands \cap HostCommands = {}
OneAddress ==
  \A t, u \in Requests :
    t.cmd \in MacCommands /\ u.cmd \in MacCommands /\ Reach(t) \cap Reach(u) # {} => t.bank = u.bank

\* What the PIM buffer holds came from the trace.
OfTrace(q) == \A i \in 1 .. Len(q) : \E t \in Requests : t.cmd = q[i].cmd /\ t.bank = q[i].bank

LEMMA SearchedOfTrace ==
  ASSUME NEW q \in Seq(PimRequest), OfTrace(q), NEW s, Searched(q, s)
  PROVE  OfTrace(s)
<1> DEFINE p == DropBarrier(q)
<1>1. p \in Seq(PimRequest) /\ OfTrace(p)
  <2>1. CASE p = q
    BY <2>1
  <2>2. CASE q # <<>> /\ p = Tail(q)
    <3>1. /\ p \in Seq(PimRequest)
          /\ Len(p) = Len(q) - 1
          /\ Len(q) \in Nat
          /\ \A i \in 1 .. Len(p) : p[i] = q[i + 1]
      BY <2>2, HeadTailProperties, LenProperties
    <3> HIDE DEF p
    <3>2. \A i \in 1 .. Len(p) : i + 1 \in 1 .. Len(q)
      BY <3>1
    <3> QED BY <3>1, <3>2 DEF OfTrace
  <2> QED BY <2>1, <2>2 DEF DropBarrier
<1> HIDE DEF p
<1>2. ASSUME NEW i \in 1 .. Len(p), s = RemoveAt(p, i) PROVE OfTrace(s)
  <2>1. /\ Len(s) = Len(p) - 1
        /\ Len(p) \in Nat
        /\ \A j \in 1 .. Len(s) : s[j] = p[IF j < i THEN j ELSE j + 1]
    BY <1>1, <1>2, RemoveAtProperties, LenProperties
  <2>2. \A j \in 1 .. Len(s) : \E k \in 1 .. Len(p) : s[j] = p[k]
    <3> SUFFICES ASSUME NEW j \in 1 .. Len(s) PROVE \E k \in 1 .. Len(p) : s[j] = p[k]
      OBVIOUS
    <3>1. CASE j < i
      BY <2>1, <3>1
    <3>2. CASE ~ (j < i)
      BY <2>1, <3>2
    <3> QED BY <3>1, <3>2
  <2> QED BY <1>1, <2>2 DEF OfTrace
<1> QED BY <1>1, <1>2 DEF Searched, p

LEMMA AlwaysOfTrace == Spec => []OfTrace(buffer["pim"])
<1> DEFINE q == buffer["pim"]
<1>1. Init => OfTrace(q)
  BY DEF Init, OfTrace
<1>2. TypeOK /\ PimSorted /\ OfTrace(q) /\ [Next]_vars => OfTrace(q)'
  <2> SUFFICES ASSUME TypeOK, PimSorted, OfTrace(q), [Next]_vars
               PROVE  OfTrace(buffer'["pim"])
    BY DEF OfTrace
  <2>1. q \in Seq(PimRequest) /\ DOMAIN buffer = Buffers
    BY PimBufferType
  <2>2. CASE Slot
    BY <2>1, <2>2, SlotSearches, SearchedOfTrace
  <2>3. ASSUME NEW t \in Requests, Send(t) PROVE OfTrace(buffer'["pim"])
    <3> DEFINE r == [id |-> sent + 1, cmd |-> t.cmd, addr |-> t.addr,
                     bank |-> t.bank, row |-> t.row, arrive |-> m_clk]
    <3>1. r.cmd = t.cmd /\ r.bank = t.bank
      OBVIOUS
    <3>2. \/ UNCHANGED buffer
          \/ buffer' = [buffer EXCEPT ![BufferOf(t.cmd)] = Append(@, r)]
      BY <2>3 DEF Send
    <3> HIDE DEF r
    <3>3. buffer'["pim"] = q \/ buffer'["pim"] = Append(q, r)
      BY <2>1, <3>2
    <3>4. /\ Len(q) \in Nat
          /\ Len(Append(q, r)) = Len(q) + 1
          /\ \A i \in 1 .. Len(q) : Append(q, r)[i] = q[i]
          /\ Append(q, r)[Len(q) + 1] = r
      <4>1. q \in Seq(PimRequest \cup {r})
        BY <2>1
      <4> QED BY <4>1, AppendProperties, LenProperties
    <3> QED BY <3>1, <3>3, <3>4 DEF OfTrace
  <2>4. CASE TickBegin
    BY <2>1, <2>4 DEF TickBegin, refresh_tick
  <2>5. CASE RefreshFails \/ UNCHANGED vars
    BY <2>5 DEF RefreshFails, vars
  <2> QED BY <2>2, <2>3, <2>4, <2>5 DEF Next, Tick, FirstSlot, SecondSlot
<1> QED BY <1>1, <1>2, Typing, AlwaysSorted, PTL DEF Spec

\* The prerequisite function of each MAC.
LEMMA PreqOfMac ==
  ASSUME NEW open, NEW r
  PROVE  /\ r.cmd = "MACAB" => get_preq_command(open, r) = RequireAllBanksRowOpen(open, r)
         /\ r.cmd = "MACSB" => get_preq_command(open, r) = RequirePIMSameBanksRowOpen(open, r)
         /\ r.cmd = "MACPB" => get_preq_command(open, r) = RequirePIMPerBanksRowOpen(open, r)
BY DEF get_preq_command, HostCommands

\* A MAC that hits has its row open in all banks it works on, and loses it in
\* one of them when it hits no more.
LEMMA HitReach ==
  ASSUME NEW open, NEW new, NEW h, h.cmd \in MacCommands,
         get_preq_command(open, h) = h.cmd, get_preq_command(new, h) # h.cmd
  PROVE  \E b \in Reach(h) \cap Bank : h.row \in open[b] /\ h.row \notin new[b]
<1>1. ASSUME NEW s
      PROVE  get_preq_command(s, h) = h.cmd <=> \A b \in Reach(h) : h.row \in s[b]
  <2>1. CASE h.cmd = "MACAB"
    BY <2>1, PreqOfMac DEF RequireAllBanksRowOpen, RequireRowOpenIn, Reach
  <2>2. CASE h.cmd = "MACSB"
    BY <2>2, PreqOfMac DEF RequirePIMSameBanksRowOpen, RequireRowOpenIn, Reach
  <2>3. CASE h.cmd = "MACPB"
    BY <2>3, PreqOfMac DEF RequirePIMPerBanksRowOpen, RequireRowOpenIn, Reach
  <2> QED BY <2>1, <2>2, <2>3 DEF MacCommands
<1>2. Reach(h) \subseteq Bank
  BY DEF Reach, SameBanks, PerBanks
<1> QED BY <1>1, <1>2

\* A row is lost to the precharge of a MAC that works on its bank too.
LEMMA LosesRow ==
  ASSUME NEW open, NEW r \in PimRequest, NEW b \in Bank, NEW row \in open[b],
         row \notin issue_command(open, get_preq_command(open, r), r)[b]
  PROVE  /\ get_preq_command(open, r) \in Closing
         /\ r.cmd \in MacCommands
         /\ b \in Reach(r)
<1> DEFINE c == get_preq_command(open, r)
<1>1. \A targets, x : row \in Opened(open, targets, x)[b]
  BY DEF Opened
<1>2. \A targets : row \notin Closed(open, targets)[b] => b \in targets
  BY DEF Closed
<1>3. PerBanks(r.bank) \subseteq SameBanks(r.bank)
  BY DEF PerBanks, SameBanks
<1>4. r.cmd \in PimCommands
  BY PimRequestType
<1>5. CASE r.cmd = "MACAB"
  <2>1. c \in {"MACAB", "ACTAB", "PREA"}
    BY <1>5, PreqOfMac DEF RequireAllBanksRowOpen, RequireRowOpenIn
  <2> QED BY <1>1, <1>5, <2>1 DEF issue_command, ACTAB, Closing, MacCommands, Reach
<1>6. CASE r.cmd = "MACSB"
  <2>1. c \in {"MACSB", "ACTSB", "PRESB"}
    BY <1>6, PreqOfMac DEF RequirePIMSameBanksRowOpen, RequireRowOpenIn
  <2> QED BY <1>1, <1>2, <1>3, <1>6, <2>1 DEF issue_command, ACTSB, PRESB, Closing, MacCommands, Reach
<1>7. CASE r.cmd = "MACPB"
  <2>1. c \in {"MACPB", "ACTPB", "PREPB"}
    BY <1>7, PreqOfMac DEF RequirePIMPerBanksRowOpen, RequireRowOpenIn
  <2> QED BY <1>1, <1>2, <1>7, <2>1 DEF issue_command, ACTPB, PREPB, Closing, MacCommands, Reach
<1>8. CASE r.cmd \in MoveCommands \cup {"BARRIER"}
  <2>1. issue_command(open, c, r) = open
    BY <1>8 DEF get_preq_command, issue_command, MoveCommands, HostCommands
  <2> QED BY <2>1
<1> QED BY <1>4, <1>5, <1>6, <1>7, <1>8 DEF PimCommands, MacCommands

\* The scheduler lets no request of the PIM buffer precharge the bank of a hit,
\* but the one at the front: another one is in rowhit_list's way.
LEMMA OnlyFrontCloses ==
  ASSUME NEW q \in Seq(PimRequest), NEW n, NEW c, Sorted(q, n, c),
         NEW R, NEW i \in Taken(R, q), Command(q[i]) \in Closing,
         NEW k \in 1 .. Len(q), IsHit(row_state, q[k]), q[k].bank = q[i].bank
  PROVE  i = 1
<1>1. Len(q) \in Nat /\ DOMAIN q = 1 .. Len(q) /\ i \in 1 .. Len(q)
  BY LenProperties, TakenInBuffer DEF Taken
<1>2. \A j \in 1 .. Len(q) : q[j].arrive \in Nat
  BY ElementOfSeq, PimRequestType
<1>3. q[i].bank \in rowhit_list(row_state, q)
  BY <1>1 DEF rowhit_list
<1>4. ~ IsHit(row_state, q[i])
  BY DEF IsHit, check_rowbuffer_hit, Command, Closing, MacCommands, HostCommands
<1>5. i \notin TakesOver(row_state, R, q) \ {1}
  BY <1>3, <1>4 DEF TakesOver
<1>6. i \in Competing(row_state, R, q) /\ check_ready(row_state, R, q[i])
  BY DEF Taken, Best, get_best_request
<1>7. PICK t \in TakesOver(row_state, R, q) : t <= i
  BY <1>6 DEF Competing
<1>8. t \in Compared(row_state, q) /\ check_ready(row_state, R, q[t]) /\ t \in 1 .. Len(q)
  BY <1>1, <1>7 DEF TakesOver, Compared
<1>9. t \in Competing(row_state, R, q)
  BY <1>7, <1>8 DEF Competing
<1>10. Wins(q, i, t)
  BY <1>9 DEF Taken, Best, get_best_request
<1>11. ASSUME t < i PROVE FALSE
  <2>1. q[t].arrive <= q[i].arrive
    BY <1>1, <1>8, <1>11 DEF Sorted
  <2> QED BY <1>1, <1>2, <1>8, <1>10, <1>11, <2>1 DEF Wins
<1>12. t = i
  BY <1>1, <1>7, <1>8, <1>11
<1> QED BY <1>5, <1>7, <1>12

\* With PIM requests alone and no refresh waiting, a slot serves the PIM buffer
\* or leaves the banks as they are.
LEMMA PimSlotRows ==
  ASSUME TypeOK, PimOnly, Slot, buffer["priority"] = <<>>, row_state' # row_state
  PROVE  \E R, i : /\ i \in Taken(R, DropBarrier(buffer["pim"]))
                   /\ LET r == DropBarrier(buffer["pim"])[i] IN
                      row_state' = issue_command(row_state, Command(r), r)
<1>1. PICK R \in ReadySets :
        \/ FromActive(R)
        \/ FromPriority(R)
        \/ PriorityBlocks(R)
        \/ FromPim(R)
        \/ FromHost(R)
  BY DEF Slot
<1>2. \A b \in {"active", "read", "write"} : Admitted(b) = {}
  BY DEF Admitted, HostRequest, PimOnly, HostCommands
<1>3. \A b \in {"active", "read", "write"} : \A i \in Taken(R, buffer[b]) : FALSE
  <2> SUFFICES ASSUME NEW b \in {"active", "read", "write"}, NEW i \in Taken(R, buffer[b]) PROVE FALSE
    OBVIOUS
  <2>1. buffer[b] \in Seq(Admitted(b))
    BY DEF TypeOK
  <2>2. i \in 1 .. Len(buffer[b])
    BY <2>1, TakenInBuffer DEF Taken
  <2> QED BY <1>2, <2>1, <2>2, ElementOfSeq
<1>4. ~ FromActive(R)
  BY <1>3 DEF FromActive
<1>5. ~ FromPriority(R) /\ ~ PriorityBlocks(R)
  BY DEF FromPriority, PriorityBlocks, PriorityAsked
<1>6. ~ FromHost(R)
  <2>1. HostBuffer \in {"active", "read", "write"}
    BY DEF HostBuffer
  <2>2. \A bufs, gone, types : ~ Pass(bufs, gone, types)
    BY DEF Pass
  <2> QED BY <1>3, <2>1, <2>2 DEF FromHost
<1>7. PICK i \in Taken(R, PimSearched["pim"]) : Serve("pim", i, PimSearched, Dropped(buffer["pim"]))
  BY <1>1, <1>4, <1>5, <1>6 DEF FromPim
<1>8. PimSearched["pim"] = DropBarrier(buffer["pim"])
  BY PimBufferType
<1> QED BY <1>7, <1>8, ServeRows

\* A MAC of the PIM buffer that hits loses its rows to a refresh or to an older
\* request, never to a younger one, for every organization and trace of PIM
\* requests, capacity and choice of ready commands: rowhit_list and the order
\* of the buffer together see to it.
THEOREM HitsYieldToOlder ==
  ASSUME PimOnly, OneAddress
  PROVE  Spec => NoYoungerConflict
<1> DEFINE Kept == \A h \in Hits :
                     get_preq_command(row_state', h) # h.cmd /\ buffer["priority"] = <<>> =>
                       \E r \in Waiting("pim") : r.id < h.id /\ Command(r) \in Closing
<1>1. TypeOK /\ PimSorted /\ OfTrace(buffer["pim"]) /\ [Next]_vars => [Kept]_vars
  <2> DEFINE q == buffer["pim"]
             p == DropBarrier(q)
  <2> SUFFICES ASSUME TypeOK, PimSorted, OfTrace(q), [Next]_vars, NEW h \in Hits,
                      get_preq_command(row_state', h) # h.cmd, buffer["priority"] = <<>>
               PROVE  \E r \in Waiting("pim") : r.id < h.id /\ Command(r) \in Closing
    OBVIOUS
  <2>1. Command(h) = h.cmd /\ h.cmd \in MacCommands /\ h \in Waiting("pim")
    BY DEF Hits
  <2>2. row_state' # row_state
    BY <2>1 DEF Command
  <2>3. Slot
    BY <2>2 DEF Next, Tick, Send, TickBegin, RefreshFails, FirstSlot, SecondSlot, vars
  <2>4. PICK R, i : /\ i \in Taken(R, p)
                    /\ row_state' = issue_command(row_state, Command(p[i]), p[i])
    BY <2>2, <2>3, PimSlotRows
  <2>5. /\ q \in Seq(PimRequest) /\ p \in Seq(PimRequest)
        /\ Sorted(p, sent, m_clk)
    BY PimBufferType, SortedDropBarrier DEF PimSorted
  <2>6. PICK k \in 1 .. Len(p) : p[k] = h
    <3>1. PICK j \in 1 .. Len(q) : q[j] = h
      BY <2>1, <2>5, LenProperties DEF Waiting, ToSet
    <3>2. CASE p = q
      BY <3>1, <3>2
    <3>3. CASE q # <<>> /\ Head(q).cmd = "BARRIER" /\ p = Tail(q)
      <4>1. /\ Head(q) = q[1] /\ Len(q) \in Nat /\ Len(p) = Len(q) - 1
            /\ \A l \in 1 .. Len(p) : p[l] = q[l + 1]
        BY <2>5, <3>3, HeadTailProperties, LenProperties
      <4>2. j # 1
        BY <2>1, <3>1, <3>3, <4>1 DEF MacCommands
      <4> HIDE DEF p
      <4>3. j - 1 \in 1 .. Len(p) /\ (j - 1) + 1 = j
        BY <4>1, <4>2
      <4> QED BY <3>1, <4>1, <4>3
    <3> QED BY <3>2, <3>3 DEF DropBarrier
  <2>7. \A l \in 1 .. Len(p) : p[l] \in Waiting("pim")
    <3>1. CASE p = q
      BY <2>5, <3>1, LenProperties DEF Waiting, ToSet
    <3>2. CASE q # <<>> /\ p = Tail(q)
      <4>1. /\ Len(q) \in Nat /\ Len(p) = Len(q) - 1 /\ DOMAIN q = 1 .. Len(q)
            /\ \A l \in 1 .. Len(p) : p[l] = q[l + 1]
        BY <2>5, <3>2, HeadTailProperties, LenProperties
      <4>2. \A l \in 1 .. Len(p) : l + 1 \in 1 .. Len(q)
        <5> HIDE DEF p
        <5> QED BY <4>1
      <4> QED BY <4>1, <4>2 DEF Waiting, ToSet
    <3> QED BY <3>1, <3>2 DEF DropBarrier
  <2>8. OfTrace(p)
    BY <2>5, SearchedOfTrace DEF Searched
  <2> HIDE DEF p
  <2>9. i \in 1 .. Len(p) /\ p[i] \in PimRequest /\ h \in PimRequest
    BY <2>4, <2>5, <2>6, TakenInBuffer, ElementOfSeq DEF Taken
  <2>10. PICK b \in Reach(h) \cap Bank : h.row \in row_state[b] /\ h.row \notin row_state'[b]
    BY <2>1, HitReach DEF Command
  <2>11. /\ Command(p[i]) \in Closing
         /\ p[i].cmd \in MacCommands
         /\ b \in Reach(p[i])
    BY <2>4, <2>9, <2>10, LosesRow DEF Command
  <2>12. p[i].bank = h.bank
    <3>1. PICK t \in Requests : t.cmd = p[i].cmd /\ t.bank = p[i].bank
      BY <2>8, <2>9 DEF OfTrace
    <3>2. PICK u \in Requests : u.cmd = h.cmd /\ u.bank = h.bank
      BY <2>6, <2>8 DEF OfTrace
    <3> QED BY <2>1, <2>10, <2>11, <3>1, <3>2 DEF OneAddress, Reach
  <2>13. i = 1
    BY <2>1, <2>4, <2>5, <2>6, <2>11, <2>12, OnlyFrontCloses
       DEF IsHit, check_rowbuffer_hit, Command
  <2>14. k # i
    BY <2>1, <2>6, <2>11 DEF Closing, MacCommands
  <2>15. p[i].id < h.id
    BY <2>5, <2>6, <2>9, <2>13, <2>14, LenProperties DEF Sorted
  <2> QED BY <2>7, <2>9, <2>11, <2>15
<1> QED BY <1>1, Typing, AlwaysSorted, AlwaysOfTrace, PTL DEF Spec, NoYoungerConflict
=============================================================================
