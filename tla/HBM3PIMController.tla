-------------------------- MODULE HBM3PIMController --------------------------
(***************************************************************************)
(* The HBM3-PIM memory controller of one channel, with its all-bank        *)
(* refresh manager.  Between two ticks the memory system may send any      *)
(* number of requests; a tick is three forced steps: TickBegin (clock,     *)
(* completed reads, refresh), FirstSlot (schedule_request and the issue of *)
(* its choice) and SecondSlot (schedule_sec_request and its issue).        *)
(*                                                                         *)
(* The timing constraints of the DRAM are abstracted: in every slot any    *)
(* set of commands may be ready.  Every constraint counts cycles from an   *)
(* issued command, so after MaxQuiet ticks without one all are ready.      *)
(* The cycle counter only ever orders arrivals: m_clk holds the number of  *)
(* requests sent before the current cycle.                                 *)
(***************************************************************************)
EXTENDS PIMScheduler

CONSTANTS Requests,        \* what may be sent: records of cmd, addr, bank, row
          MaxReqs,         \* bound: requests sent in a behaviour
          MaxRefresh,      \* bound: refresh rounds in a behaviour
          MaxQuiet,        \* ticks without a command after which all are ready
          Capacity,        \* how many requests each buffer takes
          wr_high,         \* write mode is entered with more writes than this
          wr_low,          \* and may be left with fewer writes than this
          read_latency,    \* cycles from a read command to its departure
          Garbage          \* command types a read through a dead iterator may yield

Buffers == {"active", "priority", "read", "write", "pim"}
CommandTypes == {"row", "col", "none"}

\* A request is sent with the bank and row its address maps to.
ASSUME ControllerAssumption ==
  /\ Requests \subseteq [cmd : HostCommands \cup PimCommands, addr : Nat, bank : Bank, row : Row]
  /\ MaxReqs \in Nat
  /\ MaxRefresh \in Nat
  /\ MaxQuiet \in Nat
  /\ Capacity \in [Buffers -> Nat]
  /\ wr_high \in Nat
  /\ wr_low \in Nat
  /\ read_latency \in Nat
  /\ Garbage \subseteq CommandTypes

VARIABLES
  row_state,        \* bank -> the rows marked Opened
  buffer,           \* buffer name -> its requests, in order
  pending,          \* reads about to depart, with the cycles left
  is_pim,           \* the last request scheduled came from the PIM buffer
  m_is_write_mode,
  phase,            \* which part of a cycle comes next
  first,            \* what step 5 of the tick is told about step 4
  late,             \* commands step 4 found not ready, as far as step 5 may ask again
  quiet,            \* completed ticks since the last command, up to MaxQuiet
  m_clk,
  sent,             \* requests accepted so far; the last one's id
  refreshes,        \* refresh rounds so far
  done              \* ids of the requests that have left the controller

vars == <<row_state, buffer, pending, is_pim, m_is_write_mode, phase, first,
          late, quiet, m_clk, sent, refreshes, done>>

\* The requests each buffer holds: of the trace, and refreshes, which have
\* neither id nor address.
TraceCommands == {t.cmd : t \in Requests}
HostRequest(cmds) ==
  [id : 1 .. MaxReqs, cmd : cmds \cap TraceCommands, addr : Nat, bank : Bank, row : Row, arrive : 0 .. MaxReqs]
RefreshRequest ==
  [id : {0}, cmd : {"REFab"}, addr : {-1}, bank : RefreshPath, row : {-1}, arrive : {-1}]
Admitted(b) ==
  CASE b = "active"   -> HostRequest(HostCommands)
    [] b = "priority" -> RefreshRequest
    [] b = "read"     -> HostRequest({"RD"})
    [] b = "write"    -> HostRequest({"WR"})
    [] b = "pim"      -> HostRequest(PimCommands)

TypeOK ==
  /\ row_state \in [Bank -> SUBSET Row]
  /\ DOMAIN buffer = Buffers
  /\ \A b \in Buffers : buffer[b] \in Seq(Admitted(b))
  /\ pending \in Seq([id : 1 .. MaxReqs, left : Nat])
  /\ is_pim \in BOOLEAN
  /\ m_is_write_mode \in BOOLEAN
  /\ phase \in {"frontend", "first", "second", "failed"}
  /\ first \in [issued : BOOLEAN, type : CommandTypes]
  /\ late \subseteq Commands \X (Bank \cup RefreshPath)
  /\ quiet \in 0 .. MaxQuiet
  /\ m_clk \in 0 .. MaxReqs
  /\ sent \in 0 .. MaxReqs
  /\ m_clk <= sent
  /\ refreshes \in 0 .. MaxRefresh
  /\ done \subseteq 1 .. MaxReqs

NothingIssued == [issued |-> FALSE, type |-> "none"]

Init ==
  /\ row_state = [b \in Bank |-> {}]
  /\ buffer = [b \in Buffers |-> <<>>]
  /\ pending = <<>>
  /\ is_pim = FALSE
  /\ m_is_write_mode = FALSE
  /\ phase = "frontend"
  /\ first = NothingIssued
  /\ late = {}
  /\ quiet = 0
  /\ m_clk = 0
  /\ sent = 0
  /\ refreshes = 0
  /\ done = {}

-----------------------------------------------------------------------------
(***************************************************************************)
(* Between two ticks: the memory system hands over a request.  One that    *)
(* finds its buffer full is refused and changes nothing.                   *)
(***************************************************************************)

BufferOf(cmd) ==
  IF cmd = "RD" THEN "read" ELSE IF cmd = "WR" THEN "write" ELSE "pim"

Forwarded(t) ==
  t.cmd = "RD" /\ \E k \in DOMAIN buffer["write"] : buffer["write"][k].addr = t.addr

Send(t) ==
  /\ phase = "frontend"
  /\ sent < MaxReqs
  /\ sent' = sent + 1
  /\ \/ /\ Forwarded(t)
        /\ pending' = Append(pending, [id |-> sent + 1, left |-> 1])
        /\ UNCHANGED buffer
     \/ /\ ~ Forwarded(t)
        /\ Len(buffer[BufferOf(t.cmd)]) < Capacity[BufferOf(t.cmd)]
        /\ buffer' = [buffer EXCEPT ![BufferOf(t.cmd)] =
             Append(@, [id |-> sent + 1, cmd |-> t.cmd, addr |-> t.addr,
                        bank |-> t.bank, row |-> t.row, arrive |-> m_clk])]
        /\ UNCHANGED pending
  /\ UNCHANGED <<row_state, is_pim, m_is_write_mode, phase, first, late, quiet,
                 m_clk, refreshes, done>>

-----------------------------------------------------------------------------
(***************************************************************************)
(* The begin of a tick.                                                    *)
(***************************************************************************)

\* Wrong: a read that departs stays in the list.
serve_completed_reads_Keeps ==
  LET aged == [k \in DOMAIN pending |->
                 [pending[k] EXCEPT !.left = IF @ = 0 THEN 0 ELSE @ - 1]]
  IN /\ pending' = aged
     /\ done' = done \cup (IF aged # <<>> /\ aged[1].left = 0 THEN {aged[1].id} ELSE {})

\* Another cycle: only the first pending read may depart.
serve_completed_reads ==
  LET aged == [k \in DOMAIN pending |->
                 [pending[k] EXCEPT !.left = IF @ = 0 THEN 0 ELSE @ - 1]]
  IN IF aged # <<>> /\ aged[1].left = 0
     THEN pending' = Tail(aged) /\ done' = done \cup {aged[1].id}
     ELSE pending' = aged /\ UNCHANGED done

\* One REFab request for every pseudochannel.
RefreshRound ==
  [p \in 1 .. NPch |-> [id |-> 0, cmd |-> "REFab", addr |-> -1,
                        bank |-> <<p - 1, -1, -1, -1>>, row |-> -1, arrive |-> -1]]

\* A refresh round may come due in any tick.
refresh_tick ==
  \/ UNCHANGED <<buffer, refreshes>>
  \/ /\ refreshes < MaxRefresh
     /\ Len(buffer["priority"]) + NPch <= Capacity["priority"]
     /\ refreshes' = refreshes + 1
     /\ buffer' = [buffer EXCEPT !["priority"] = @ \o RefreshRound]

TickBegin ==
  /\ phase = "frontend"
  /\ phase' = "first"
  /\ m_clk' = sent
  /\ serve_completed_reads
  /\ refresh_tick
  /\ UNCHANGED <<row_state, is_pim, m_is_write_mode, first, late, quiet, sent>>

\* A refresh request that finds the priority buffer full ends the program.
RefreshFails ==
  /\ phase = "frontend"
  /\ refreshes < MaxRefresh
  /\ Len(buffer["priority"]) + NPch > Capacity["priority"]
  /\ phase' = "failed"
  /\ UNCHANGED <<row_state, buffer, pending, is_pim, m_is_write_mode, first,
                 late, quiet, m_clk, sent, refreshes, done>>

-----------------------------------------------------------------------------
(***************************************************************************)
(* Types of commands.  The tables of the code omit PRESB, PREPB and        *)
(* BARRIER.                                                                *)
(***************************************************************************)

get_command_type(c) ==
  IF c \in {"ACT", "PRE", "PREA", "REFab", "ACTAB", "ACTSB", "ACTPB"} THEN "row"
  ELSE IF c \in HostCommands \cup MacCommands \cup MoveCommands THEN "col"
  ELSE "none"

compare_command_type(type, c) ==
  /\ type # "none"
  /\ get_command_type(c) # "none"
  /\ type # get_command_type(c)

\* The command that request r needs next, and whether the running slot may
\* take it: the second slot wants a command of the other type than the first.
Command(r) == get_preq_command(row_state, r)
Fits(r) == phase = "first" \/ compare_command_type(first.type, Command(r))

\* The commands whose timing a slot may ask for, and the sets of them that may
\* be ready.  Within a tick a command can only become less ready: what step 4
\* issues delays others, and if it issues nothing all stays as it is.
Asked ==
  {<<Command(r), r.bank>> : r \in {x \in UNION {ToSet(buffer[b]) : b \in Buffers} : x.cmd # "BARRIER"}}

ReadySets ==
  {R \in SUBSET (Asked \ late) :
     \/ R = Asked \ late
     \/ phase = "first" /\ quiet < MaxQuiet
     \/ phase = "second" /\ first.issued}

\* Wrong: step 5 forgets to compare the types of the commands.
Taken_AnyType(R, q) ==
  {i \in get_best_request(row_state, R, q) : check_ready(row_state, R, q[i])}

\* What get_best_request returns for buffer q, and whether the slot takes it.
Best(R, q) == get_best_request(row_state, R, q)
Taken(R, q) == {i \in Best(R, q) : check_ready(row_state, R, q[i]) /\ Fits(q[i])}

HostBuffer == IF m_is_write_mode' THEN "write" ELSE "read"

set_write_mode ==
  m_is_write_mode' =
    IF m_is_write_mode
    THEN ~ (Len(buffer["write"]) < wr_low /\ buffer["read"] # <<>>)
    ELSE Len(buffer["write"]) > wr_high \/ buffer["read"] = <<>>

-----------------------------------------------------------------------------
(***************************************************************************)
(* The end of a slot.  The first one leaves to the second what it reads    *)
(* through req_it: the type of a command, or garbage when req_it is dead.  *)
(***************************************************************************)

EndOfSlot(issued, types) ==
  \/ /\ phase = "first"
     /\ phase' = "second"
     /\ \E t \in types : first' = [issued |-> issued, type |-> t]
     /\ UNCHANGED quiet
  \/ /\ phase = "second"
     /\ phase' = "frontend"
     /\ first' = NothingIssued
     /\ quiet' = IF issued \/ first.issued THEN 0
                 ELSE IF quiet < MaxQuiet THEN quiet + 1 ELSE quiet

\* Removed from the PIM buffer because a barrier reached its front.
Dropped(q) == IF q # <<>> /\ Head(q).cmd = "BARRIER" THEN {Head(q).id} ELSE {}

\* Issue the next command of request number i of buffer src; bufs are the
\* buffers at that point and gone the requests that left them so far.
Issue(src, i, bufs, gone) ==
  LET r == bufs[src][i]
      c == Command(r)
      final == c = r.cmd
      moved == ~ final /\ ~ is_pim' /\ c \in Opening
      room == Len(bufs["active"]) < Capacity["active"]
      queued == IF moved /\ room THEN [bufs EXCEPT !["active"] = Append(@, r)] ELSE bufs
  IN /\ row_state' = issue_command(row_state, c, r)
     /\ pending' = IF final /\ r.cmd = "RD"
                   THEN Append(pending, [id |-> r.id, left |-> read_latency])
                   ELSE pending
     /\ done' = done \cup gone \cup (IF final /\ r.cmd \notin {"RD", "REFab"} THEN {r.id} ELSE {})
     /\ buffer' = IF final \/ moved THEN [queued EXCEPT ![src] = RemoveAt(@, i)] ELSE bufs
     /\ EndOfSlot(TRUE, {get_command_type(c)} \cup (IF final \/ moved THEN Garbage ELSE {}))

\* Nothing to issue: only the buffers may have lost a barrier.
Pass(bufs, gone, types) ==
  /\ buffer' = bufs
  /\ done' = done \cup gone
  /\ UNCHANGED <<row_state, pending>>
  /\ EndOfSlot(FALSE, types)

\* Wrong: no such check.
Interrupts_Never(r) == FALSE

\* A command that would close the bank of an active request is dropped.
Interrupts(r) ==
  /\ Command(r) \in Closing
  /\ \E k \in DOMAIN buffer["active"] : buffer["active"][k].bank = r.bank

Serve(src, i, bufs, gone) ==
  LET r == bufs[src][i] IN
  \/ ~ Interrupts(r) /\ Issue(src, i, bufs, gone)
  \/ Interrupts(r) /\ Pass(bufs, gone, {get_command_type(Command(r))})

-----------------------------------------------------------------------------
(***************************************************************************)
(* Where a slot finds its request, in order: the active buffer, the front  *)
(* of the priority buffer, the PIM buffer, the read or the write buffer.   *)
(* A priority request that is not ready ends the search.                   *)
(***************************************************************************)

FromActive(R) ==
  /\ UNCHANGED <<is_pim, m_is_write_mode>>
  /\ \E i \in Taken(R, buffer["active"]) : Serve("active", i, buffer, {})

ActivePasses(R) == Taken(R, buffer["active"]) = {}

\* Wrong: the last priority request is overlooked.
PriorityAsked_NotLast == Len(buffer["priority"]) > 1 /\ Fits(buffer["priority"][1])

PriorityAsked == buffer["priority"] # <<>> /\ Fits(buffer["priority"][1])

FromPriority(R) ==
  /\ ActivePasses(R)
  /\ PriorityAsked
  /\ check_ready(row_state, R, buffer["priority"][1])
  /\ is_pim' = FALSE
  /\ UNCHANGED m_is_write_mode
  /\ Serve("priority", 1, buffer, {})

PriorityBlocks(R) ==
  /\ ActivePasses(R)
  /\ PriorityAsked
  /\ ~ check_ready(row_state, R, buffer["priority"][1])
  /\ UNCHANGED <<is_pim, m_is_write_mode>>
  /\ Pass(buffer, {}, {get_command_type(Command(buffer["priority"][1]))})

\* The buffers and the departed requests after get_best_request(m_pim_buffer).
PimSearched == [buffer EXCEPT !["pim"] = DropBarrier(@)]

\* Wrong: the flag of the previous slot is left as it was.
FromPim_StaleFlag(R) ==
  /\ ActivePasses(R)
  /\ ~ PriorityAsked
  /\ UNCHANGED <<is_pim, m_is_write_mode>>
  /\ \E i \in Taken(R, PimSearched["pim"]) :
       Serve("pim", i, PimSearched, Dropped(buffer["pim"]))

FromPim(R) ==
  /\ ActivePasses(R)
  /\ ~ PriorityAsked
  /\ is_pim' = TRUE
  /\ UNCHANGED m_is_write_mode
  /\ \E i \in Taken(R, PimSearched["pim"]) :
       Serve("pim", i, PimSearched, Dropped(buffer["pim"]))

\* What is left: the read or the write buffer, or nothing at all.  Step 5 then
\* looks through req_it at the request that was not ready, or past the end.
FromHost(R) ==
  LET gone == Dropped(buffer["pim"]) IN
  /\ ActivePasses(R)
  /\ ~ PriorityAsked
  /\ Taken(R, PimSearched["pim"]) = {}
  /\ is_pim' = FALSE
  /\ set_write_mode
  /\ \/ \E i \in Taken(R, buffer[HostBuffer]) : Serve(HostBuffer, i, PimSearched, gone)
     \/ /\ Taken(R, buffer[HostBuffer]) = {}
        /\ Pass(PimSearched, gone,
             IF buffer[HostBuffer] = <<>> THEN {"none"} \cup Garbage
             ELSE {get_command_type(Command(buffer[HostBuffer][i])) :
                     i \in Best(R, buffer[HostBuffer])})

Slot ==
  /\ \E R \in ReadySets :
       /\ \/ FromActive(R)
          \/ FromPriority(R)
          \/ PriorityBlocks(R)
          \/ FromPim(R)
          \/ FromHost(R)
       /\ late' = IF phase = "first" THEN (Asked \ R) \cap Asked' ELSE {}
  /\ UNCHANGED <<m_clk, sent, refreshes>>

FirstSlot == phase = "first" /\ Slot
SecondSlot == phase = "second" /\ Slot

Tick == TickBegin \/ FirstSlot \/ SecondSlot

Next ==
  \/ \E t \in Requests : Send(t)
  \/ Tick
  \/ RefreshFails

\* The main loop of the simulator ticks the memory system until it is idle.
Spec == Init /\ [][Next]_vars /\ WF_vars(Tick)
=============================================================================
