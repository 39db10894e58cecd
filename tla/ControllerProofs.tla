-------------------------- MODULE ControllerProofs --------------------------
(***************************************************************************)
(* Proofs about the HBM3-PIM controller, for every value of the constants: *)
(* any organization, any requests, capacities, thresholds and bounds, and  *)
(* every choice of ready commands: types, the order of the PIM buffer, and *)
(* that no request is lost or duplicated.                                  *)
(***************************************************************************)
EXTENDS ControllerProperties, SequenceTheorems, TLAPS

USE DEF Buffers

-----------------------------------------------------------------------------
(* Sequences. *)

\* Removing position i keeps the other elements in their order.
LEMMA RemoveAtProperties ==
  ASSUME NEW S, NEW s \in Seq(S), NEW i \in 1 .. Len(s)
  PROVE  /\ RemoveAt(s, i) \in Seq(S)
         /\ Len(RemoveAt(s, i)) = Len(s) - 1
         /\ \A j \in 1 .. Len(s) - 1 :
              RemoveAt(s, i)[j] = IF j < i THEN s[j] ELSE s[j + 1]
<1> DEFINE f == SubSeq(s, 1, i - 1)
           t == SubSeq(s, i + 1, Len(s))
<1>1. Len(s) \in Nat /\ i \in Int
  BY LenProperties
<1>2. /\ f \in Seq(S)
      /\ Len(f) = i - 1
      /\ \A j \in 1 .. i - 1 : f[j] = s[j]
  <2>1. \A j \in 1 .. i - 1 : s[j] \in S
    BY <1>1, ElementOfSeq
  <2>2. /\ f \in Seq(S)
        /\ Len(f) = IF 1 <= i - 1 THEN i - 1 - 1 + 1 ELSE 0
        /\ \A j \in 1 .. i - 1 - 1 + 1 : f[j] = s[1 + j - 1]
    BY <1>1, <2>1, SubSeqProperties
  <2> HIDE DEF f
  <2> QED BY <1>1, <2>2
<1>3. /\ t \in Seq(S)
      /\ Len(t) = Len(s) - i
      /\ \A j \in 1 .. Len(s) - i : t[j] = s[i + j]
  <2>1. \A j \in i + 1 .. Len(s) : s[j] \in S
    BY <1>1, ElementOfSeq
  <2>2. /\ t \in Seq(S)
        /\ Len(t) = IF i + 1 <= Len(s) THEN Len(s) - (i + 1) + 1 ELSE 0
        /\ \A j \in 1 .. Len(s) - (i + 1) + 1 : t[j] = s[i + 1 + j - 1]
    BY <1>1, <2>1, SubSeqProperties
  <2> HIDE DEF t
  <2> QED BY <1>1, <2>2
<1>4. RemoveAt(s, i) = f \o t
  BY DEF RemoveAt
<1> HIDE DEF f, t
<1>5. /\ f \o t \in Seq(S)
      /\ Len(f \o t) = Len(f) + Len(t)
      /\ \A j \in 1 .. Len(f) + Len(t) : (f \o t)[j] = IF j <= Len(f) THEN f[j] ELSE t[j - Len(f)]
  BY <1>2, <1>3, ConcatProperties
<1> QED BY <1>1, <1>2, <1>3, <1>4, <1>5

-----------------------------------------------------------------------------
(* Type correctness. *)

Request == HostRequest(HostCommands \cup PimCommands) \cup RefreshRequest
RowState == [Bank -> SUBSET Row]
Typed(bufs) == DOMAIN bufs = Buffers /\ \A b \in Buffers : bufs[b] \in Seq(Admitted(b))

LEMMA AdmittedRequest ==
  ASSUME NEW b \in Buffers
  PROVE  Admitted(b) \subseteq Request
BY DEF Admitted, Request, HostRequest, HostCommands

\* What a request may need next.
LEMMA PreqType ==
  ASSUME NEW open, NEW r \in Request
  PROVE  /\ get_preq_command(open, r) \in Commands
         /\ r.cmd = "REFab" => get_preq_command(open, r) \in {"REFab", "PREA"}
BY DEF get_preq_command, RequireAllBanksRowOpen, RequirePIMSameBanksRowOpen,
       RequirePIMPerBanksRowOpen, RequireAllBanksClosed, RequireRowOpen, RequireRowOpenIn,
       Commands, Finals, Opening, Closing, HostCommands, PimCommands, MacCommands,
       MoveCommands, Request, HostRequest, RefreshRequest

\* A command keeps the bank state well-formed.
LEMMA IssueCommandType ==
  ASSUME NEW open \in RowState, NEW r, NEW c, c \in Opening => r.row \in Row
  PROVE  issue_command(open, c, r) \in RowState
<1>1. \A targets : Closed(open, targets) \in RowState
  BY DEF Closed, RowState
<1>2. r.row \in Row => \A targets : Opened(open, targets, r.row) \in RowState
  BY DEF Opened, RowState
<1> QED BY <1>1, <1>2 DEF issue_command, ACT, PRE, PREA, ACTAB, ACTSB, ACTPB, PRESB, PREPB, Opening

LEMMA CommandType ==
  ASSUME NEW c
  PROVE  get_command_type(c) \in CommandTypes
BY DEF get_command_type, CommandTypes

\* What a slot leaves behind besides is_pim, m_is_write_mode and late.
SlotTyped ==
  /\ row_state \in RowState
  /\ Typed(buffer)
  /\ pending \in Seq([id : 1 .. MaxReqs, left : Nat])
  /\ phase \in {"frontend", "first", "second", "failed"}
  /\ first \in [issued : BOOLEAN, type : CommandTypes]
  /\ quiet \in 0 .. MaxQuiet
  /\ done \subseteq 1 .. MaxReqs

LEMMA EndOfSlotType ==
  ASSUME ControllerAssumption, TypeOK,
         NEW issued \in BOOLEAN, NEW types \in SUBSET CommandTypes,
         EndOfSlot(issued, types)
  PROVE  /\ phase' \in {"frontend", "first", "second", "failed"}
         /\ first' \in [issued : BOOLEAN, type : CommandTypes]
         /\ quiet' \in 0 .. MaxQuiet
<1>1. CASE phase = "first"
  BY <1>1 DEF EndOfSlot, TypeOK
<1>2. CASE phase = "second"
  <2>1. /\ phase' = "frontend"
        /\ first' = NothingIssued
        /\ \/ quiet' = 0
           \/ quiet < MaxQuiet /\ quiet' = quiet + 1
           \/ quiet' = quiet
    BY <1>2, Zenon DEF EndOfSlot
  <2>2. quiet' \in 0 .. MaxQuiet
    BY <2>1 DEF TypeOK, ControllerAssumption
  <2> QED BY <2>1, <2>2 DEF NothingIssued, CommandTypes
<1> QED BY <1>1, <1>2 DEF EndOfSlot

LEMMA PassType ==
  ASSUME ControllerAssumption, TypeOK,
         NEW bufs, Typed(bufs),
         NEW gone \in SUBSET (1 .. MaxReqs), NEW types \in SUBSET CommandTypes,
         Pass(bufs, gone, types)
  PROVE  SlotTyped'
BY EndOfSlotType DEF Pass, SlotTyped, TypeOK, RowState, Typed

\* The request that a slot issues: in a typed buffer, and addressed by its kind.
LEMMA IssueType ==
  ASSUME ControllerAssumption, TypeOK,
         NEW bufs, Typed(bufs),
         NEW src \in Buffers, NEW i \in 1 .. Len(bufs[src]),
         src = "pim" => is_pim' = TRUE, is_pim' \in BOOLEAN,
         NEW gone \in SUBSET (1 .. MaxReqs),
         Issue(src, i, bufs, gone)
  PROVE  SlotTyped'
<1> DEFINE r == bufs[src][i]
           c == Command(r)
           final == c = r.cmd
           moved == ~ final /\ ~ is_pim' /\ c \in Opening
<1>1. /\ r \in Admitted(src)
      /\ r \in Request
      /\ bufs[src] \in Seq(Admitted(src))
  BY ElementOfSeq, AdmittedRequest DEF Typed
<1>2. /\ c \in Commands
      /\ r.cmd = "REFab" => c \in {"REFab", "PREA"}
      /\ get_command_type(c) \in CommandTypes
  BY <1>1, PreqType, CommandType DEF Command
<1>3. /\ c \in Opening => r.row \in Row
      /\ r.cmd # "REFab" => r.id \in 1 .. MaxReqs
  BY <1>1, <1>2 DEF Request, HostRequest, RefreshRequest, Opening
<1>4. moved => r \in Admitted("active")
  <2>1. SUFFICES ASSUME moved PROVE r \in Admitted("active")
    OBVIOUS
  <2>2. src # "pim"
    BY <2>1
  <2>3. src # "priority"
    BY <1>1, <1>2, <2>1 DEF Admitted, RefreshRequest, Opening
  <2> QED BY <1>1, <2>2, <2>3 DEF Admitted, HostRequest, HostCommands
<1>5. row_state' \in RowState
  BY <1>3, IssueCommandType DEF Issue, TypeOK, RowState
<1>6. pending' \in Seq([id : 1 .. MaxReqs, left : Nat])
  <2>1. r.cmd = "RD" => [id |-> r.id, left |-> read_latency] \in [id : 1 .. MaxReqs, left : Nat]
    BY <1>3 DEF ControllerAssumption
  <2> QED BY <2>1, AppendProperties DEF Issue, TypeOK
<1>7. done' \subseteq 1 .. MaxReqs
  BY <1>3 DEF Issue, TypeOK
<1>8. /\ phase' \in {"frontend", "first", "second", "failed"}
      /\ first' \in [issued : BOOLEAN, type : CommandTypes]
      /\ quiet' \in 0 .. MaxQuiet
  <2>1. EndOfSlot(TRUE, {get_command_type(c)} \cup (IF final \/ moved THEN Garbage ELSE {}))
    BY DEF Issue
  <2>2. {get_command_type(c)} \cup (IF final \/ moved THEN Garbage ELSE {}) \in SUBSET CommandTypes
    BY <1>2 DEF ControllerAssumption
  <2> HIDE DEF c, final, moved
  <2> QED BY <2>1, <2>2, EndOfSlotType
<1>9. Typed(buffer')
  <2> DEFINE queued == IF moved /\ Len(bufs["active"]) < Capacity["active"]
                       THEN [bufs EXCEPT !["active"] = Append(@, r)] ELSE bufs
  <2>1. Typed(queued) /\ i \in 1 .. Len(queued[src])
    <3>1. CASE queued = bufs
      BY <3>1
    <3>2. CASE moved /\ queued = [bufs EXCEPT !["active"] = Append(@, r)]
      <4>1. /\ Append(bufs["active"], r) \in Seq(Admitted("active"))
            /\ Len(Append(bufs["active"], r)) = Len(bufs["active"]) + 1
            /\ Len(bufs["active"]) \in Nat
        BY <1>4, <3>2, AppendProperties, LenProperties DEF Typed
      <4> HIDE DEF queued, moved, r
      <4>2. i \in 1 .. Len(queued[src])
        BY <3>2, <4>1 DEF Typed
      <4> QED BY <3>2, <4>1, <4>2 DEF Typed
    <3> QED BY <3>1, <3>2
  <2>2. buffer' = IF final \/ moved THEN [queued EXCEPT ![src] = RemoveAt(@, i)] ELSE bufs
    BY Zenon DEF Issue
  <2> HIDE DEF queued, final, moved
  <2>3. RemoveAt(queued[src], i) \in Seq(Admitted(src))
    BY <2>1, RemoveAtProperties DEF Typed
  <2> QED BY <2>1, <2>2, <2>3 DEF Typed
<1> QED BY <1>5, <1>6, <1>7, <1>8, <1>9 DEF SlotTyped, Typed

LEMMA ServeType ==
  ASSUME ControllerAssumption, TypeOK,
         NEW bufs, Typed(bufs),
         NEW src \in Buffers, NEW i \in 1 .. Len(bufs[src]),
         src = "pim" => is_pim' = TRUE, is_pim' \in BOOLEAN,
         NEW gone \in SUBSET (1 .. MaxReqs),
         Serve(src, i, bufs, gone)
  PROVE  SlotTyped'
<1>1. CASE Issue(src, i, bufs, gone)
  BY <1>1, IssueType
<1>2. CASE Pass(bufs, gone, {get_command_type(Command(bufs[src][i]))})
  BY <1>2, PassType, CommandType
<1> QED BY <1>1, <1>2 DEF Serve

\* The request that get_best_request returns is one of the buffer.
LEMMA TakenInBuffer ==
  ASSUME NEW R, NEW S, NEW q \in Seq(S), NEW i \in Best(R, q)
  PROVE  i \in 1 .. Len(q)
BY LenProperties DEF Best, get_best_request, Competing, Compared

\* The PIM buffer without a barrier at its front.
LEMMA SearchedType ==
  ASSUME TypeOK
  PROVE  /\ Typed(PimSearched)
         /\ \A b \in Buffers \ {"pim"} : PimSearched[b] = buffer[b]
         /\ Dropped(buffer["pim"]) \subseteq 1 .. MaxReqs
<1>1. buffer["pim"] \in Seq(HostRequest(PimCommands))
  BY DEF TypeOK, Admitted
<1>2. DropBarrier(buffer["pim"]) \in Seq(HostRequest(PimCommands))
  BY <1>1, HeadTailProperties DEF DropBarrier
<1>3. Dropped(buffer["pim"]) \subseteq 1 .. MaxReqs
  <2>1. buffer["pim"] # <<>> => Head(buffer["pim"]).id \in 1 .. MaxReqs
    <3>1. buffer["pim"] # <<>> => Head(buffer["pim"]) \in HostRequest(PimCommands)
      BY <1>1, HeadTailProperties
    <3>2. \A r \in HostRequest(PimCommands) : r.id \in 1 .. MaxReqs
      BY DEF HostRequest
    <3> QED BY <3>1, <3>2
  <2> QED BY <2>1 DEF Dropped
<1>4. Typed(PimSearched)
  BY <1>2 DEF PimSearched, TypeOK, Typed, Admitted
<1> QED BY <1>3, <1>4 DEF PimSearched, TypeOK

LEMMA SlotType ==
  ASSUME ControllerAssumption, TypeOK, Slot
  PROVE  TypeOK'
<1>1. PICK R \in ReadySets :
        /\ \/ FromActive(R)
           \/ FromPriority(R)
           \/ PriorityBlocks(R)
           \/ FromPim(R)
           \/ FromHost(R)
        /\ late' = IF phase = "first" THEN (Asked \ R) \cap Asked' ELSE {}
  BY DEF Slot
<1>2. Typed(buffer) /\ \A b \in Buffers : buffer[b] \in Seq(Admitted(b))
  BY DEF TypeOK, Typed
<1>3. SlotTyped' /\ is_pim' \in BOOLEAN /\ m_is_write_mode' \in BOOLEAN
  <2>1. CASE FromActive(R)
    <3>1. PICK i \in Taken(R, buffer["active"]) : Serve("active", i, buffer, {})
      BY <2>1 DEF FromActive
    <3>2. i \in 1 .. Len(buffer["active"])
      BY <1>2, <3>1, TakenInBuffer DEF Taken
    <3>3. is_pim' \in BOOLEAN /\ m_is_write_mode' \in BOOLEAN
      BY <2>1 DEF FromActive, TypeOK
    <3> QED BY <1>2, <3>1, <3>2, <3>3, ServeType
  <2>2. CASE FromPriority(R)
    <3>1. 1 \in 1 .. Len(buffer["priority"])
      BY <1>2, <2>2, EmptySeq DEF FromPriority, PriorityAsked
    <3>2. is_pim' \in BOOLEAN /\ m_is_write_mode' \in BOOLEAN /\ Serve("priority", 1, buffer, {})
      BY <2>2 DEF FromPriority, TypeOK
    <3> QED BY <1>2, <3>1, <3>2, ServeType
  <2>3. CASE PriorityBlocks(R)
    <3>1. is_pim' \in BOOLEAN /\ m_is_write_mode' \in BOOLEAN
      BY <2>3 DEF PriorityBlocks, TypeOK
    <3> QED BY <1>2, <2>3, <3>1, PassType, CommandType DEF PriorityBlocks
  <2>4. CASE FromPim(R)
    <3>1. PICK i \in Taken(R, PimSearched["pim"]) :
            Serve("pim", i, PimSearched, Dropped(buffer["pim"]))
      BY <2>4 DEF FromPim
    <3>2. i \in 1 .. Len(PimSearched["pim"])
      BY <3>1, SearchedType, TakenInBuffer DEF Taken, Typed
    <3>3. is_pim' = TRUE /\ m_is_write_mode' \in BOOLEAN
      BY <2>4 DEF FromPim, TypeOK
    <3> QED BY <3>1, <3>2, <3>3, SearchedType, ServeType
  <2>5. CASE FromHost(R)
    <3> DEFINE gone == Dropped(buffer["pim"])
               seen == IF buffer[HostBuffer] = <<>> THEN {"none"} \cup Garbage
                       ELSE {get_command_type(Command(buffer[HostBuffer][i])) :
                               i \in Best(R, buffer[HostBuffer])}
    <3>1. is_pim' = FALSE /\ m_is_write_mode' \in BOOLEAN
      BY <2>5, Zenon DEF FromHost, set_write_mode, TypeOK
    <3>2. HostBuffer \in Buffers \ {"pim"}
      BY DEF HostBuffer
    <3>3. PimSearched[HostBuffer] = buffer[HostBuffer]
      BY <3>2, SearchedType
    <3>4. ASSUME NEW i \in Taken(R, buffer[HostBuffer]), Serve(HostBuffer, i, PimSearched, gone)
          PROVE  SlotTyped'
      <4>1. i \in 1 .. Len(PimSearched[HostBuffer])
        BY <1>2, <3>2, <3>3, <3>4, TakenInBuffer DEF Taken
      <4> QED BY <3>1, <3>2, <3>4, <4>1, SearchedType, ServeType
    <3>5. ASSUME Pass(PimSearched, gone, seen) PROVE SlotTyped'
      <4>1. seen \subseteq CommandTypes
        BY CommandType DEF CommandTypes, ControllerAssumption
      <4> HIDE DEF seen
      <4> QED BY <3>5, <4>1, SearchedType, PassType
    <3> QED BY <2>5, <3>1, <3>4, <3>5 DEF FromHost
  <2> QED BY <1>1, <2>1, <2>2, <2>3, <2>4, <2>5
<1>4. late' \subseteq Commands \X (Bank \cup RefreshPath)
  <2>1. \A b \in Buffers : ToSet(buffer[b]) \subseteq Request
    BY <1>2, AdmittedRequest, LenProperties, ElementOfSeq DEF ToSet
  <2>2. \A r \in Request : Command(r) \in Commands /\ r.bank \in Bank \cup RefreshPath
    BY PreqType DEF Command, Request, HostRequest, RefreshRequest
  <2>3. Asked \subseteq Commands \X (Bank \cup RefreshPath)
    BY <2>1, <2>2 DEF Asked
  <2> QED BY <1>1, <2>3
<1>5. m_clk' = m_clk /\ sent' = sent /\ refreshes' = refreshes
  BY DEF Slot
<1> QED BY <1>3, <1>4, <1>5 DEF TypeOK, SlotTyped, Typed, RowState

LEMMA SendType ==
  ASSUME ControllerAssumption, TypeOK, NEW t \in Requests, Send(t)
  PROVE  TypeOK'
<1>1. t \in [cmd : HostCommands \cup PimCommands, addr : Nat, bank : Bank, row : Row]
  BY DEF ControllerAssumption
<1>2. sent + 1 \in 1 .. MaxReqs /\ sent' = sent + 1 /\ m_clk' = m_clk
  BY DEF Send, TypeOK, ControllerAssumption
<1>3. CASE Forwarded(t) /\ pending' = Append(pending, [id |-> sent + 1, left |-> 1]) /\ UNCHANGED buffer
  <2>1. pending' \in Seq([id : 1 .. MaxReqs, left : Nat])
    BY <1>2, <1>3, AppendProperties DEF TypeOK
  <2> QED BY <1>2, <1>3, <2>1 DEF Send, TypeOK, Asked, ControllerAssumption
<1>4. CASE /\ buffer' = [buffer EXCEPT ![BufferOf(t.cmd)] =
                Append(@, [id |-> sent + 1, cmd |-> t.cmd, addr |-> t.addr,
                           bank |-> t.bank, row |-> t.row, arrive |-> m_clk])]
           /\ UNCHANGED pending
  <2> DEFINE r == [id |-> sent + 1, cmd |-> t.cmd, addr |-> t.addr,
                   bank |-> t.bank, row |-> t.row, arrive |-> m_clk]
             b == BufferOf(t.cmd)
  <2>1. b \in Buffers /\ r \in Admitted(b)
    <3>1. m_clk \in 0 .. MaxReqs
      BY DEF TypeOK
    <3>2. \A cmds : t.cmd \in cmds => r \in HostRequest(cmds)
      BY <1>1, <1>2, <3>1 DEF HostRequest, TraceCommands
    <3> HIDE DEF r
    <3>3. b \in Buffers
      BY DEF BufferOf
    <3>4. CASE t.cmd \in HostCommands
      BY <3>2, <3>4 DEF BufferOf, Admitted, HostCommands, PimCommands, MacCommands, MoveCommands
    <3>5. CASE t.cmd \in PimCommands
      BY <3>2, <3>5 DEF BufferOf, Admitted, HostCommands, PimCommands, MacCommands, MoveCommands
    <3> QED BY <1>1, <3>3, <3>4, <3>5
  <2>2. Append(buffer[b], r) \in Seq(Admitted(b))
    BY <2>1, AppendProperties DEF TypeOK
  <2> HIDE DEF r, b
  <2>3. buffer' = [buffer EXCEPT ![b] = Append(@, r)]
    BY <1>4 DEF r, b
  <2>4. DOMAIN buffer' = Buffers /\ \A n \in Buffers : buffer'[n] \in Seq(Admitted(n))
    BY <2>1, <2>2, <2>3 DEF TypeOK
  <2> QED BY SMTT(40), <1>2, <1>4, <2>4 DEF Send, TypeOK, ControllerAssumption
<1> QED BY <1>3, <1>4 DEF Send

LEMMA TickBeginType ==
  ASSUME OrgAssumption, ControllerAssumption, TypeOK, TickBegin
  PROVE  TypeOK'
<1> DEFINE Pending == [id : 1 .. MaxReqs, left : Nat]
<1>1. pending' \in Seq(Pending) /\ done' \subseteq 1 .. MaxReqs
  <2> DEFINE aged == [k \in DOMAIN pending |->
                        [pending[k] EXCEPT !.left = IF @ = 0 THEN 0 ELSE @ - 1]]
  <2>1. aged \in Seq(Pending)
    <3>1. Len(pending) \in Nat /\ DOMAIN pending = 1 .. Len(pending)
      BY LenProperties DEF TypeOK
    <3>2. \A k \in DOMAIN pending : pending[k] \in Pending
      BY <3>1, ElementOfSeq DEF TypeOK
    <3>3. \A x \in Pending : [x EXCEPT !.left = IF @ = 0 THEN 0 ELSE @ - 1] \in Pending
      OBVIOUS
    <3>4. aged \in [1 .. Len(pending) -> Pending]
      BY <3>1, <3>2, <3>3
    <3> HIDE DEF aged, Pending
    <3> QED BY <3>1, <3>4, SeqDef
  <2>2. \/ aged # <<>> /\ pending' = Tail(aged) /\ done' = done \cup {aged[1].id}
        \/ pending' = aged /\ done' = done
    BY Zenon DEF TickBegin, serve_completed_reads
  <2> HIDE DEF aged
  <2>3. aged # <<>> => Tail(aged) \in Seq(Pending) /\ aged[1] \in Pending
    <3> HIDE DEF Pending
    <3>1. aged # <<>> => Tail(aged) \in Seq(Pending)
      BY <2>1, HeadTailProperties
    <3>2. aged # <<>> => Len(aged) \in Nat \ {0}
      BY <2>1, EmptySeq
    <3>3. aged # <<>> => aged[1] \in Pending
      BY <2>1, <3>2, ElementOfSeq
    <3> QED BY <3>1, <3>3
  <2> QED BY <2>1, <2>2, <2>3 DEF TypeOK
<1>2. /\ DOMAIN buffer' = Buffers
      /\ \A b \in Buffers : buffer'[b] \in Seq(Admitted(b))
      /\ refreshes' \in 0 .. MaxRefresh
  <2>1. RefreshRound \in Seq(RefreshRequest)
    <3>1. RefreshRound \in [1 .. NPch -> RefreshRequest]
      <4>1. \A p \in 1 .. NPch : <<p - 1, -1, -1, -1>> \in RefreshPath
        BY DEF RefreshPath, OrgAssumption
      <4> QED BY <4>1 DEF RefreshRound, RefreshRequest
    <3> QED BY <3>1, SeqDef DEF OrgAssumption
  <2>2. buffer["priority"] \o RefreshRound \in Seq(RefreshRequest)
    BY <2>1, ConcatProperties DEF TypeOK, Admitted
  <2>3. CASE UNCHANGED <<buffer, refreshes>>
    BY <2>3 DEF TypeOK
  <2>4. CASE /\ refreshes < MaxRefresh
             /\ refreshes' = refreshes + 1
             /\ buffer' = [buffer EXCEPT !["priority"] = @ \o RefreshRound]
    <3>1. refreshes' \in 0 .. MaxRefresh
      BY <2>4 DEF TypeOK, ControllerAssumption
    <3>2. /\ DOMAIN buffer' = Buffers
          /\ buffer'["priority"] = buffer["priority"] \o RefreshRound
          /\ \A b \in Buffers \ {"priority"} : buffer'[b] = buffer[b]
      BY <2>4 DEF TypeOK
    <3>3. Admitted("priority") = RefreshRequest
      BY DEF Admitted
    <3>4. \A b \in Buffers : buffer'[b] \in Seq(Admitted(b))
      <4>1. \A b \in Buffers : buffer[b] \in Seq(Admitted(b))
        BY DEF TypeOK
      <4> QED BY <2>2, <3>2, <3>3, <4>1
    <3> QED BY <3>1, <3>2, <3>4 DEF TypeOK
  <2> QED BY <2>3, <2>4 DEF TickBegin, refresh_tick
<1> QED BY SMTT(40), <1>1, <1>2 DEF TickBegin, TypeOK

\* Every reachable state is well-formed: in particular the active buffer holds
\* loads and stores only, and no request leaves its own kind of buffer for
\* another one.
THEOREM Typing == Spec => []TypeOK
<1>1. Init => TypeOK
  <2> SUFFICES ASSUME Init PROVE TypeOK
    OBVIOUS
  <2>1. row_state \in [Bank -> SUBSET Row]
    BY DEF Init
  <2>2. DOMAIN buffer = Buffers /\ \A b \in Buffers : buffer[b] \in Seq(Admitted(b))
    BY EmptySeq DEF Init
  <2>3. pending \in Seq([id : 1 .. MaxReqs, left : Nat])
    BY EmptySeq DEF Init
  <2>4. /\ phase \in {"frontend", "first", "second", "failed"}
        /\ first \in [issued : BOOLEAN, type : CommandTypes]
    BY DEF Init, NothingIssued, CommandTypes
  <2>5. /\ quiet \in 0 .. MaxQuiet /\ refreshes \in 0 .. MaxRefresh
        /\ m_clk \in 0 .. MaxReqs /\ sent \in 0 .. MaxReqs /\ m_clk <= sent
    BY ControllerAssumption DEF Init, ControllerAssumption
  <2>6. /\ is_pim \in BOOLEAN /\ m_is_write_mode \in BOOLEAN
        /\ late \subseteq Commands \X (Bank \cup RefreshPath) /\ done \subseteq 1 .. MaxReqs
    BY DEF Init
  <2> QED BY <2>1, <2>2, <2>3, <2>4, <2>5, <2>6 DEF TypeOK
<1>2. TypeOK /\ [Next]_vars => TypeOK'
  <2> SUFFICES ASSUME TypeOK, [Next]_vars PROVE TypeOK'
    OBVIOUS
  <2>1. ASSUME NEW t \in Requests, Send(t) PROVE TypeOK'
    BY <2>1, ControllerAssumption, SendType
  <2>2. CASE TickBegin
    BY <2>2, OrgAssumption, ControllerAssumption, TickBeginType
  <2>3. CASE FirstSlot \/ SecondSlot
    BY <2>3, ControllerAssumption, SlotType DEF FirstSlot, SecondSlot
  <2>4. CASE RefreshFails
    BY <2>4 DEF RefreshFails, TypeOK
  <2>5. CASE UNCHANGED vars
    BY <2>5 DEF vars, TypeOK
  <2> QED BY <2>1, <2>2, <2>3, <2>4, <2>5 DEF Next, Tick
<1> QED BY <1>1, <1>2, PTL DEF Spec

-----------------------------------------------------------------------------
(* The controller implements BarrierQueue.  The choice of the scheduler    *)
(* respects barriers only because the PIM buffer stays sorted by arrival:  *)
(* a barrier at the front is ready in every cycle and, as the oldest ready *)
(* request, is never passed.                                               *)

PimRequest == HostRequest(PimCommands)

\* Requests of q in the order they were sent, before number n and cycle c.
Sorted(q, n, c) ==
  /\ \A i, j \in 1 .. Len(q) : i < j => q[i].id < q[j].id /\ q[i].arrive <= q[j].arrive
  /\ \A i \in 1 .. Len(q) : q[i].id <= n /\ q[i].arrive <= c

PimSorted == Sorted(buffer["pim"], sent, m_clk)

LEMMA PimRequestType ==
  ASSUME NEW r \in PimRequest
  PROVE  r.id \in Nat /\ r.arrive \in Nat /\ r.cmd \in PimCommands
BY ControllerAssumption DEF PimRequest, HostRequest, ControllerAssumption

LEMMA BarrierQueueByIndex ==
  ASSUME NEW q \in Seq(PimRequest)
  PROVE  AsBarrierQueue(q) = {Seen(q[i]) : i \in 1 .. Len(q)}
BY LenProperties DEF AsBarrierQueue, ToSet

\* Taking one request out of a sorted buffer.
LEMMA SortedRemoveAt ==
  ASSUME NEW q \in Seq(PimRequest), NEW i \in 1 .. Len(q),
         NEW n, NEW c, Sorted(q, n, c)
  PROVE  /\ Sorted(RemoveAt(q, i), n, c)
         /\ AsBarrierQueue(RemoveAt(q, i)) = AsBarrierQueue(q) \ {Seen(q[i])}
<1> DEFINE s == RemoveAt(q, i)
           at(j) == IF j < i THEN j ELSE j + 1
<1>1. /\ s \in Seq(PimRequest)
      /\ Len(s) = Len(q) - 1
      /\ Len(q) \in Nat
      /\ \A j \in 1 .. Len(s) : s[j] = q[at(j)]
  BY RemoveAtProperties, LenProperties
<1>2. \A j \in 1 .. Len(s) : at(j) \in 1 .. Len(q) /\ at(j) # i
  BY <1>1
<1>3. \A j, k \in 1 .. Len(s) : j < k => at(j) < at(k)
  BY <1>1
<1>4. \A k \in 1 .. Len(q) : k # i => \E j \in 1 .. Len(s) : at(j) = k
  <2> SUFFICES ASSUME NEW k \in 1 .. Len(q), k # i PROVE \E j \in 1 .. Len(s) : at(j) = k
    OBVIOUS
  <2>1. CASE k < i
    BY <1>1, <2>1
  <2>2. CASE k > i
    <3>1. k - 1 \in 1 .. Len(s) /\ at(k - 1) = k
      BY <1>1, <2>2
    <3> QED BY <3>1
  <2> QED BY <2>1, <2>2
<1>5. \A k \in 1 .. Len(q) : k # i => Seen(q[k]) # Seen(q[i])
  <2> SUFFICES ASSUME NEW k \in 1 .. Len(q), k # i PROVE q[k].id # q[i].id
    BY DEF Seen
  <2>1. q[k].id \in Nat /\ q[i].id \in Nat
    BY ElementOfSeq, PimRequestType
  <2> QED BY <1>1, <2>1 DEF Sorted
<1> HIDE DEF s, at
<1>6. AsBarrierQueue(s) = {Seen(q[at(j)]) : j \in 1 .. Len(s)}
  BY <1>1, BarrierQueueByIndex
<1>7. AsBarrierQueue(s) = AsBarrierQueue(q) \ {Seen(q[i])}
  <2>1. AsBarrierQueue(q) = {Seen(q[k]) : k \in 1 .. Len(q)}
    BY BarrierQueueByIndex
  <2>2. ASSUME NEW x \in AsBarrierQueue(s) PROVE x \in AsBarrierQueue(q) \ {Seen(q[i])}
    <3>1. PICK j \in 1 .. Len(s) : x = Seen(q[at(j)])
      BY <1>6, <2>2
    <3>2. at(j) \in 1 .. Len(q) /\ at(j) # i
      BY <1>2
    <3> QED BY <1>5, <2>1, <3>1, <3>2
  <2>3. ASSUME NEW x \in AsBarrierQueue(q) \ {Seen(q[i])} PROVE x \in AsBarrierQueue(s)
    <3>1. PICK k \in 1 .. Len(q) : x = Seen(q[k])
      BY <2>1, <2>3
    <3>2. PICK j \in 1 .. Len(s) : at(j) = k
      BY <1>4, <2>3, <3>1
    <3> QED BY <1>6, <3>1, <3>2
  <2> QED BY <2>2, <2>3
<1>8. Sorted(s, n, c)
  BY <1>1, <1>2, <1>3 DEF Sorted
<1> QED BY <1>7, <1>8 DEF s

LEMMA SortedTail ==
  ASSUME NEW q \in Seq(PimRequest), q # <<>>,
         NEW n, NEW c, Sorted(q, n, c)
  PROVE  /\ Sorted(Tail(q), n, c)
         /\ AsBarrierQueue(Tail(q)) = AsBarrierQueue(q) \ {Seen(q[1])}
<1>1. Len(q) \in Nat \ {0}
  BY EmptySeq
<1>2. SubSeq(q, 1, 1 - 1) = <<>>
  BY SubSeqEmpty
<1>3. RemoveAt(q, 1) = Tail(q)
  <2>1. RemoveAt(q, 1) = SubSeq(q, 1, 1 - 1) \o SubSeq(q, 1 + 1, Len(q))
    BY DEF RemoveAt
  <2>2. Tail(q) = SubSeq(q, 1 + 1, Len(q)) /\ Tail(q) \in Seq(PimRequest)
    BY TailIsSubSeq, HeadTailProperties
  <2> QED BY <1>2, <2>1, <2>2, ConcatEmptySeq
<1>4. 1 \in 1 .. Len(q)
  BY <1>1
<1>5. /\ Sorted(RemoveAt(q, 1), n, c)
      /\ AsBarrierQueue(RemoveAt(q, 1)) = AsBarrierQueue(q) \ {Seen(q[1])}
  BY <1>4, SortedRemoveAt
<1> QED BY <1>3, <1>5

\* The search of the scheduler may drop the barrier at the front.
LEMMA SortedDropBarrier ==
  ASSUME NEW q \in Seq(PimRequest), NEW n, NEW c, Sorted(q, n, c)
  PROVE  /\ DropBarrier(q) \in Seq(PimRequest)
         /\ Sorted(DropBarrier(q), n, c)
         /\ \/ DropBarrier(q) = q
            \/ /\ q # <<>> /\ Len(q) \in Nat \ {0}
               /\ q[1].cmd = "BARRIER"
               /\ AsBarrierQueue(DropBarrier(q)) = AsBarrierQueue(q) \ {Seen(q[1])}
<1>1. CASE q # <<>> /\ Head(q).cmd = "BARRIER"
  <2>1. Head(q) = q[1] /\ Tail(q) \in Seq(PimRequest) /\ Len(q) \in Nat \ {0}
    BY <1>1, HeadTailProperties, EmptySeq
  <2> QED BY <1>1, <2>1, SortedTail DEF DropBarrier
<1>2. CASE ~ (q # <<>> /\ Head(q).cmd = "BARRIER")
  BY <1>2 DEF DropBarrier
<1> QED BY <1>1, <1>2

\* No barrier stands before a request that the scheduler serves.
LEMMA BestPassesNoBarrier ==
  ASSUME NEW q \in Seq(PimRequest), NEW n, NEW c, Sorted(q, n, c),
         NEW R, NEW i \in Best(R, q),
         Command(q[i]) = q[i].cmd
  PROVE  \A k \in 1 .. i - 1 : q[k].cmd # "BARRIER" /\ q[i].cmd # "BARRIER"
<1>1. Len(q) \in Nat /\ DOMAIN q = 1 .. Len(q) /\ i \in 1 .. Len(q)
  BY LenProperties, TakenInBuffer
<1>2. \A k \in 1 .. Len(q) : q[k] \in PimRequest
  BY ElementOfSeq
<1>3. q[i].cmd \notin Opening \cup Closing
  BY <1>1, <1>2, PimRequestType
     DEF PimCommands, MacCommands, MoveCommands, Opening, Closing
<1>4. i \in Compared(row_state, q)
  BY DEF Best, get_best_request, Competing
<1>5. i = 1 \/ \A k \in 2 .. i : q[k].cmd # "BARRIER"
  BY <1>3, <1>4 DEF Compared, Command
<1>6. ASSUME i # 1, q[1].cmd = "BARRIER" PROVE FALSE
  <2>1. 1 \in Compared(row_state, q)
    BY <1>1 DEF Compared
  <2>2. check_ready(row_state, R, q[1])
    BY <1>6 DEF check_ready
  <2>3. 1 \in TakesOver(row_state, R, q)
    BY <2>1, <2>2 DEF TakesOver
  <2>4. 1 \in Competing(row_state, R, q)
    BY <2>1, <2>2, <2>3 DEF Competing
  <2>5. Wins(q, i, 1)
    BY <2>4 DEF Best, get_best_request
  <2>6. q[1].arrive <= q[i].arrive
    BY <1>1, <1>6 DEF Sorted
  <2>7. q[1].arrive \in Nat /\ q[i].arrive \in Nat
    BY <1>1, <1>2, PimRequestType
  <2> QED BY <1>1, <1>6, <2>5, <2>6, <2>7 DEF Wins
<1> QED BY <1>1, <1>5, <1>6

-----------------------------------------------------------------------------
(* What a slot does to the PIM buffer is a step of BarrierQueue.           *)

\* What becomes of PIM buffer q in a slot: nothing, the loss of a barrier at
\* its front, or also of a request that no barrier keeps in its place.
Searched(q, s) ==
  \/ s = q
  \/ s = DropBarrier(q)
  \/ \E i \in 1 .. Len(DropBarrier(q)) :
       /\ s = RemoveAt(DropBarrier(q), i)
       /\ \A k \in 1 .. i - 1 :
            DropBarrier(q)[k].cmd # "BARRIER" /\ DropBarrier(q)[i].cmd # "BARRIER"

\* The requests of D may leave q together.
MayRetire(q, D) ==
  \A d \in D, y \in AsBarrierQueue(q) : Promise!Precedes(y, d) => y \in D

LEMMA MayRetireOne ==
  ASSUME NEW q \in Seq(PimRequest), NEW n, NEW c, Sorted(q, n, c),
         NEW i \in 1 .. Len(q),
         \A k \in 1 .. i - 1 : q[k].cmd # "BARRIER" /\ q[i].cmd # "BARRIER"
  PROVE  MayRetire(q, {Seen(q[i])}) /\ Seen(q[i]) \in AsBarrierQueue(q)
<1>1. Len(q) \in Nat
  BY LenProperties
<1>2. Seen(q[i]) \in AsBarrierQueue(q)
  BY BarrierQueueByIndex
<1>3. ASSUME NEW y \in AsBarrierQueue(q), Promise!Precedes(y, Seen(q[i])) PROVE FALSE
  <2>1. PICK k \in 1 .. Len(q) : y = Seen(q[k])
    BY <1>3, BarrierQueueByIndex
  <2>2. /\ q[k].id < q[i].id
        /\ q[k].cmd = "BARRIER" \/ q[i].cmd = "BARRIER"
    BY <1>3, <2>1 DEF Promise!Precedes, Seen
  <2>3. q[k].id \in Nat /\ q[i].id \in Nat
    BY ElementOfSeq, PimRequestType
  <2>4. k < i
    BY <1>1, <2>2, <2>3 DEF Sorted
  <2> QED BY <1>1, <2>2, <2>4
<1> QED BY <1>2, <1>3 DEF MayRetire

LEMMA SearchedRetires ==
  ASSUME NEW q \in Seq(PimRequest), NEW n, NEW c, Sorted(q, n, c),
         NEW s, Searched(q, s)
  PROVE  /\ Sorted(s, n, c)
         /\ \E D \in SUBSET AsBarrierQueue(q) :
              MayRetire(q, D) /\ AsBarrierQueue(s) = AsBarrierQueue(q) \ D
<1> DEFINE p == DropBarrier(q)
<1>1. /\ p \in Seq(PimRequest)
      /\ Sorted(p, n, c)
  BY SortedDropBarrier
<1>2. PICK E \in SUBSET AsBarrierQueue(q) :
        MayRetire(q, E) /\ AsBarrierQueue(p) = AsBarrierQueue(q) \ E
  <2>1. CASE p = q
    <3>1. MayRetire(q, {}) /\ AsBarrierQueue(p) = AsBarrierQueue(q) \ {}
      BY <2>1 DEF MayRetire
    <3> QED BY <3>1
  <2>2. CASE /\ Len(q) \in Nat \ {0}
             /\ AsBarrierQueue(p) = AsBarrierQueue(q) \ {Seen(q[1])}
    <3>1. 1 \in 1 .. Len(q)
      BY <2>2
    <3>2. MayRetire(q, {Seen(q[1])}) /\ Seen(q[1]) \in AsBarrierQueue(q)
      BY <3>1, MayRetireOne
    <3> QED BY <2>2, <3>2
  <2> QED BY <2>1, <2>2, SortedDropBarrier
<1>3. CASE s = q
  <2>1. MayRetire(q, {}) /\ AsBarrierQueue(s) = AsBarrierQueue(q) \ {}
    BY <1>3 DEF MayRetire
  <2> QED BY <1>3, <2>1
<1>4. CASE s = p
  BY <1>1, <1>2, <1>4
<1>5. ASSUME NEW i \in 1 .. Len(p), s = RemoveAt(p, i),
             \A k \in 1 .. i - 1 : p[k].cmd # "BARRIER" /\ p[i].cmd # "BARRIER"
      PROVE  /\ Sorted(s, n, c)
             /\ \E D \in SUBSET AsBarrierQueue(q) :
                  MayRetire(q, D) /\ AsBarrierQueue(s) = AsBarrierQueue(q) \ D
  <2> HIDE DEF p
  <2>1. /\ Sorted(s, n, c)
        /\ AsBarrierQueue(s) = AsBarrierQueue(p) \ {Seen(p[i])}
    BY <1>1, <1>5, SortedRemoveAt
  <2>2. MayRetire(p, {Seen(p[i])}) /\ Seen(p[i]) \in AsBarrierQueue(p)
    BY <1>1, <1>5, MayRetireOne
  <2> DEFINE D == E \cup {Seen(p[i])}
  <2>3. D \in SUBSET AsBarrierQueue(q) /\ AsBarrierQueue(s) = AsBarrierQueue(q) \ D
    BY <1>2, <2>1, <2>2
  <2>4. MayRetire(q, D)
    BY <1>2, <2>2 DEF MayRetire
  <2> QED BY <2>1, <2>3, <2>4
<1> QED BY <1>3, <1>4, <1>5 DEF Searched

\* A slot that serves another buffer leaves the PIM buffer as it found it.
LEMMA OthersKeepPim ==
  ASSUME NEW bufs, DOMAIN bufs = Buffers,
         NEW src \in Buffers \ {"pim"}, NEW i, NEW gone,
         Serve(src, i, bufs, gone)
  PROVE  buffer'["pim"] = bufs["pim"]
<1>1. CASE Issue(src, i, bufs, gone)
  <2> DEFINE r == bufs[src][i]
             c == Command(r)
             moved == c # r.cmd /\ ~ is_pim' /\ c \in Opening
             queued == IF moved /\ Len(bufs["active"]) < Capacity["active"]
                       THEN [bufs EXCEPT !["active"] = Append(@, r)] ELSE bufs
  <2>1. buffer' = IF c = r.cmd \/ moved THEN [queued EXCEPT ![src] = RemoveAt(@, i)] ELSE bufs
    BY <1>1, Zenon DEF Issue
  <2>2. queued["pim"] = bufs["pim"] /\ DOMAIN queued = Buffers
    OBVIOUS
  <2> HIDE DEF queued, moved, c, r
  <2> QED BY <2>1, <2>2
<1>2. CASE buffer' = bufs
  BY <1>2
<1> QED BY <1>1, <1>2 DEF Serve, Pass

\* A request leaves the PIM buffer only when its own command is issued.
LEMMA ServesPim ==
  ASSUME NEW bufs, DOMAIN bufs = Buffers, is_pim' = TRUE,
         NEW i, NEW gone, Serve("pim", i, bufs, gone)
  PROVE  \/ buffer'["pim"] = bufs["pim"]
         \/ /\ buffer'["pim"] = RemoveAt(bufs["pim"], i)
            /\ Command(bufs["pim"][i]) = bufs["pim"][i].cmd
<1>1. CASE Issue("pim", i, bufs, gone)
  <2> DEFINE r == bufs["pim"][i]
             c == Command(r)
  <2>1. buffer' = IF c = r.cmd THEN [bufs EXCEPT !["pim"] = RemoveAt(@, i)] ELSE bufs
    BY <1>1, Zenon DEF Issue
  <2> HIDE DEF c, r
  <2>2. CASE c = r.cmd
    BY <2>1, <2>2 DEF c, r
  <2>3. CASE c # r.cmd
    BY <2>1, <2>3
  <2> QED BY <2>2, <2>3
<1>2. CASE buffer' = bufs
  BY <1>2
<1> QED BY <1>1, <1>2 DEF Serve, Pass

LEMMA PimBufferType ==
  ASSUME TypeOK
  PROVE  /\ buffer["pim"] \in Seq(PimRequest)
         /\ DOMAIN buffer = Buffers
         /\ DOMAIN PimSearched = Buffers
         /\ PimSearched["pim"] = DropBarrier(buffer["pim"])
<1>1. Admitted("pim") = PimRequest
  BY DEF Admitted, PimRequest
<1> QED BY <1>1 DEF TypeOK, PimSearched

LEMMA SlotSearches ==
  ASSUME TypeOK, PimSorted, Slot
  PROVE  Searched(buffer["pim"], buffer'["pim"])
<1> DEFINE q == buffer["pim"]
           p == DropBarrier(q)
<1>1. PICK R \in ReadySets :
        \/ FromActive(R)
        \/ FromPriority(R)
        \/ PriorityBlocks(R)
        \/ FromPim(R)
        \/ FromHost(R)
  BY DEF Slot
<1>2. /\ q \in Seq(PimRequest)
      /\ DOMAIN buffer = Buffers
      /\ DOMAIN PimSearched = Buffers
      /\ PimSearched["pim"] = p
  BY PimBufferType
<1>3. CASE FromActive(R) \/ FromPriority(R) \/ PriorityBlocks(R)
  <2>1. CASE FromActive(R)
    BY <1>2, <2>1, OthersKeepPim DEF FromActive, Searched
  <2>2. CASE FromPriority(R)
    BY <1>2, <2>2, OthersKeepPim DEF FromPriority, Searched
  <2>3. CASE PriorityBlocks(R)
    BY <2>3 DEF PriorityBlocks, Pass, Searched
  <2> QED BY <1>3, <2>1, <2>2, <2>3
<1>4. CASE FromPim(R)
  <2>1. PICK i \in Taken(R, p) : Serve("pim", i, PimSearched, Dropped(q))
    BY <1>2, <1>4 DEF FromPim
  <2>2. is_pim' = TRUE
    BY <1>4 DEF FromPim
  <2> HIDE DEF p
  <2>3. p \in Seq(PimRequest) /\ Sorted(p, sent, m_clk)
    BY <1>2, SortedDropBarrier DEF p, PimSorted
  <2>4. i \in Best(R, p) /\ i \in 1 .. Len(p)
    BY <2>1, <2>3, TakenInBuffer DEF Taken
  <2>5. \/ buffer'["pim"] = p
        \/ /\ buffer'["pim"] = RemoveAt(p, i)
           /\ Command(p[i]) = p[i].cmd
    BY <1>2, <2>1, <2>2, ServesPim
  <2>6. Command(p[i]) = p[i].cmd =>
          \A k \in 1 .. i - 1 : p[k].cmd # "BARRIER" /\ p[i].cmd # "BARRIER"
    BY <2>3, <2>4, BestPassesNoBarrier
  <2> QED BY <2>4, <2>5, <2>6 DEF Searched, p
<1>5. CASE FromHost(R)
  <2>1. HostBuffer \in Buffers \ {"pim"}
    BY DEF HostBuffer
  <2>2. ASSUME NEW i, Serve(HostBuffer, i, PimSearched, Dropped(q)) PROVE buffer'["pim"] = p
    BY <1>2, <2>1, <2>2, OthersKeepPim
  <2>3. ASSUME NEW types, Pass(PimSearched, Dropped(q), types) PROVE buffer'["pim"] = p
    BY <1>2, <2>3 DEF Pass
  <2>4. buffer'["pim"] = p
    <3> HIDE DEF p
    <3> QED BY <1>5, <2>2, <2>3, Zenon DEF FromHost
  <2> QED BY <2>4 DEF Searched
<1> QED BY <1>1, <1>3, <1>4, <1>5

\* Whatever a slot does is a Retire, and leaves the PIM buffer sorted.
LEMMA SlotRetires ==
  ASSUME TypeOK, PimSorted, Slot
  PROVE  PimSorted' /\ Promise!Next
<1>1. sent' = sent /\ m_clk' = m_clk
  BY DEF Slot
<1>2. buffer["pim"] \in Seq(PimRequest)
  BY PimBufferType
<1>3. PICK D \in SUBSET AsBarrierQueue(buffer["pim"]) :
        /\ MayRetire(buffer["pim"], D)
        /\ AsBarrierQueue(buffer'["pim"]) = AsBarrierQueue(buffer["pim"]) \ D
  BY <1>2, SlotSearches, SearchedRetires DEF PimSorted
<1>4. Sorted(buffer'["pim"], sent, m_clk)
  BY <1>2, SlotSearches, SearchedRetires DEF PimSorted
<1>5. AsBarrierQueue(buffer["pim"])' = AsBarrierQueue(buffer'["pim"])
  BY DEF AsBarrierQueue, ToSet, Seen
<1>6. PimSorted'
  BY <1>1, <1>4 DEF PimSorted, Sorted
<1>7. Promise!Retire(D)
  BY <1>1, <1>3, <1>5 DEF Promise!Retire, MayRetire
<1> QED BY <1>6, <1>7 DEF Promise!Next

-----------------------------------------------------------------------------
(* The steps between the slots, and the theorem.                           *)

\* A request sent is later than all that the PIM buffer holds.
LEMMA SortedAppend ==
  ASSUME NEW q \in Seq(PimRequest), NEW n \in Nat, NEW c \in Nat, Sorted(q, n, c),
         NEW r \in PimRequest, r.id = n + 1, r.arrive = c
  PROVE  /\ Sorted(Append(q, r), n + 1, c)
         /\ AsBarrierQueue(Append(q, r)) = AsBarrierQueue(q) \cup {Seen(r)}
<1> DEFINE s == Append(q, r)
<1>1. /\ s \in Seq(PimRequest)
      /\ Len(q) \in Nat
      /\ Len(s) = Len(q) + 1
      /\ \A i \in 1 .. Len(q) : s[i] = q[i]
      /\ s[Len(q) + 1] = r
  BY AppendProperties, LenProperties
<1>2. \A i \in 1 .. Len(q) : q[i].id \in Nat /\ q[i].arrive \in Nat
  BY ElementOfSeq, PimRequestType
<1> HIDE DEF s
<1>3. Sorted(s, n + 1, c)
  <2>1. \A i \in 1 .. Len(s) : i \in 1 .. Len(q) \/ i = Len(q) + 1
    BY <1>1
  <2>2. \A i \in 1 .. Len(s) : s[i].id <= n + 1 /\ s[i].arrive <= c
    BY <1>1, <1>2, <2>1 DEF Sorted
  <2>3. \A i, j \in 1 .. Len(s) : i < j => s[i].id < s[j].id /\ s[i].arrive <= s[j].arrive
    BY <1>1, <1>2, <2>1 DEF Sorted
  <2> QED BY <2>2, <2>3 DEF Sorted
<1>4. AsBarrierQueue(s) = AsBarrierQueue(q) \cup {Seen(r)}
  <2>1. /\ AsBarrierQueue(s) = {Seen(s[i]) : i \in 1 .. Len(s)}
        /\ AsBarrierQueue(q) = {Seen(q[i]) : i \in 1 .. Len(q)}
    BY <1>1, BarrierQueueByIndex
  <2>2. 1 .. Len(s) = (1 .. Len(q)) \cup {Len(q) + 1}
    BY <1>1
  <2> QED BY <1>1, <2>1, <2>2
<1> QED BY <1>3, <1>4 DEF s

LEMMA SendSubmits ==
  ASSUME TypeOK, PimSorted, NEW t \in Requests, Send(t)
  PROVE  PimSorted' /\ Promise!Next
<1> DEFINE r == [id |-> sent + 1, cmd |-> t.cmd, addr |-> t.addr,
                 bank |-> t.bank, row |-> t.row, arrive |-> m_clk]
           q == buffer["pim"]
<1>1. /\ sent' = sent + 1 /\ m_clk' = m_clk
      /\ sent \in Nat /\ m_clk \in Nat
      /\ sent + 1 \in 1 .. MaxReqs
  BY ControllerAssumption DEF Send, TypeOK, ControllerAssumption
<1>2. q \in Seq(PimRequest)
  BY PimBufferType
<1>3. AsBarrierQueue(buffer["pim"])' = AsBarrierQueue(buffer'["pim"])
  BY DEF AsBarrierQueue, ToSet, Seen
<1>4. PimSorted' <=> Sorted(buffer'["pim"], sent + 1, m_clk)
  BY <1>1 DEF PimSorted, Sorted
<1>5. CASE buffer'["pim"] = q
  <2>1. \A i \in 1 .. Len(q) : q[i].id \in Nat
    BY <1>2, ElementOfSeq, PimRequestType
  <2>2. Sorted(q, sent + 1, m_clk)
    BY <1>1, <2>1 DEF PimSorted, Sorted
  <2>3. Promise!Skip
    BY <1>1, <1>3, <1>5 DEF Promise!Skip
  <2> QED BY <1>4, <1>5, <2>2, <2>3 DEF Promise!Next
<1>6. CASE t.cmd \in PimCommands /\ buffer'["pim"] = Append(q, r)
  <2>1. r \in PimRequest
    <3>1. t \in [cmd : HostCommands \cup PimCommands, addr : Nat, bank : Bank, row : Row]
      BY ControllerAssumption DEF ControllerAssumption
    <3>2. m_clk \in 0 .. MaxReqs
      BY DEF TypeOK
    <3> QED BY <1>1, <1>6, <3>1, <3>2 DEF PimRequest, HostRequest, TraceCommands
  <2>2. r.id = sent + 1 /\ r.arrive = m_clk
    OBVIOUS
  <2>3. Seen(r) = [id |-> sent + 1, barrier |-> t.cmd = "BARRIER"]
    BY DEF Seen
  <2> HIDE DEF r
  <2>4. /\ Sorted(Append(q, r), sent + 1, m_clk)
        /\ AsBarrierQueue(Append(q, r)) = AsBarrierQueue(q) \cup {Seen(r)}
    BY <1>1, <1>2, <2>1, <2>2, SortedAppend DEF PimSorted
  <2>5. Promise!Submit(t.cmd = "BARRIER")
    BY <1>1, <1>3, <1>6, <2>3, <2>4 DEF Promise!Submit
  <2>6. (t.cmd = "BARRIER") \in BOOLEAN
    OBVIOUS
  <2> QED BY <1>4, <1>6, <2>4, <2>5, <2>6 DEF Promise!Next
<1>7. buffer'["pim"] = q \/ (t.cmd \in PimCommands /\ buffer'["pim"] = Append(q, r))
  <2>1. t.cmd \in HostCommands \cup PimCommands
    BY ControllerAssumption DEF ControllerAssumption
  <2>2. \/ BufferOf(t.cmd) # "pim"
        \/ BufferOf(t.cmd) = "pim" /\ t.cmd \in PimCommands
    BY <2>1 DEF BufferOf, HostCommands
  <2>3. \/ UNCHANGED buffer
        \/ buffer' = [buffer EXCEPT ![BufferOf(t.cmd)] = Append(@, r)]
    BY DEF Send
  <2>4. BufferOf(t.cmd) \in Buffers
    BY DEF BufferOf
  <2> HIDE DEF r
  <2> QED BY <2>2, <2>3, <2>4, PimBufferType
<1> QED BY <1>5, <1>6, <1>7

\* Every step keeps the PIM buffer sorted and is a step of BarrierQueue.
LEMMA StepKeepsOrder ==
  ASSUME TypeOK, PimSorted, [Next]_vars
  PROVE  PimSorted' /\ [Promise!Next]_(Promise!vars)
<1>1. ASSUME NEW t \in Requests, Send(t)
      PROVE  PimSorted' /\ Promise!Next
  BY <1>1, SendSubmits
<1>2. CASE FirstSlot \/ SecondSlot
  BY <1>2, SlotRetires DEF FirstSlot, SecondSlot
<1>3. ASSUME buffer'["pim"] = buffer["pim"], sent' = sent, m_clk' \in {m_clk, sent}
      PROVE  PimSorted' /\ UNCHANGED Promise!vars
  <2>1. UNCHANGED Promise!vars
    BY <1>3 DEF Promise!vars, AsBarrierQueue, ToSet, Seen
  <2>2. \A i \in 1 .. Len(buffer["pim"]) : buffer["pim"][i].arrive \in Nat
    BY PimBufferType, ElementOfSeq, PimRequestType
  <2>3. sent \in Nat /\ m_clk \in Nat /\ m_clk <= sent
    BY DEF TypeOK
  <2> QED BY <1>3, <2>1, <2>2, <2>3 DEF PimSorted, Sorted
<1>4. CASE TickBegin
  <2>1. buffer'["pim"] = buffer["pim"]
    BY <1>4, PimBufferType DEF TickBegin, refresh_tick
  <2> QED BY <1>3, <1>4, <2>1 DEF TickBegin
<1>5. CASE RefreshFails
  BY <1>3, <1>5 DEF RefreshFails
<1>6. CASE UNCHANGED vars
  BY <1>3, <1>6 DEF vars
<1> QED BY <1>1, <1>2, <1>4, <1>5, <1>6 DEF Next, Tick

\* The PIM buffer is always sorted by arrival.
LEMMA AlwaysSorted == Spec => []PimSorted
<1>1. Init => PimSorted
  BY DEF Init, PimSorted, Sorted
<1>2. TypeOK /\ PimSorted /\ [Next]_vars => PimSorted'
  BY StepKeepsOrder
<1> QED BY <1>1, <1>2, Typing, PTL DEF Spec

\* The controller keeps the promise of the PIM buffer, for every organization,
\* trace, capacity and choice of ready commands: no request passes a barrier.
THEOREM BarriersHold == Spec => BarrierOrder
<1>1. TypeOK /\ PimSorted /\ [Next]_vars => [Promise!Next]_(Promise!vars)
  BY StepKeepsOrder
<1>2. Init => Promise!Init
  BY DEF Init, Promise!Init, AsBarrierQueue, ToSet
<1> QED BY <1>1, <1>2, Typing, AlwaysSorted, PTL DEF Spec, BarrierOrder, Promise!Spec

-----------------------------------------------------------------------------
(* The controller neither loses nor duplicates a request, as long as its   *)
(* active buffer has room: requests are then only ever moved.              *)

USE DEF Place

\* How often the request with id n is in a sequence: not at all, or once.
Absent(s, n) == \A k \in DOMAIN s : s[k].id # n
Once(s, n) == \E k \in DOMAIN s : s[k].id = n /\ \A j \in DOMAIN s : s[j].id = n => j = k
Has(s, n, yes) == IF yes THEN Once(s, n) ELSE Absent(s, n)

-----------------------------------------------------------------------------
(* Sequences. *)

LEMMA AppendHas ==
  ASSUME NEW S, NEW s \in Seq(S), NEW x \in S, NEW n, NEW yes \in BOOLEAN
  PROVE  /\ x.id # n /\ Has(s, n, yes) => Has(Append(s, x), n, yes)
         /\ x.id = n /\ Absent(s, n) => Once(Append(s, x), n)
<1>1. /\ Len(s) \in Nat /\ DOMAIN s = 1 .. Len(s)
      /\ DOMAIN Append(s, x) = 1 .. Len(s) + 1
      /\ \A k \in 1 .. Len(s) : Append(s, x)[k] = s[k]
      /\ Append(s, x)[Len(s) + 1] = x
  BY AppendProperties, LenProperties
<1> DEFINE t == Append(s, x)
<1> HIDE DEF t
<1>2. x.id # n /\ Absent(s, n) => Absent(t, n)
  BY <1>1 DEF Absent, t
<1>3. x.id # n /\ Once(s, n) => Once(t, n)
  BY <1>1 DEF Once, t
<1>4. x.id = n /\ Absent(s, n) => Once(t, n)
  <2> SUFFICES ASSUME x.id = n, Absent(s, n)
               PROVE  /\ Len(s) + 1 \in DOMAIN t
                      /\ t[Len(s) + 1].id = n
                      /\ \A j \in DOMAIN t : t[j].id = n => j = Len(s) + 1
    BY DEF Once
  <2> QED BY <1>1 DEF Absent, t
<1> QED BY <1>2, <1>3, <1>4 DEF Has, t

LEMMA RemoveHas ==
  ASSUME NEW S, NEW s \in Seq(S), NEW i \in 1 .. Len(s), NEW n, NEW yes \in BOOLEAN
  PROVE  /\ s[i].id # n /\ Has(s, n, yes) => Has(RemoveAt(s, i), n, yes)
         /\ s[i].id = n /\ Once(s, n) => Absent(RemoveAt(s, i), n)
<1> DEFINE t == RemoveAt(s, i)
<1>1. /\ Len(s) \in Nat /\ DOMAIN s = 1 .. Len(s)
      /\ DOMAIN t = 1 .. Len(s) - 1
      /\ \A k \in 1 .. Len(s) - 1 : t[k] = IF k < i THEN s[k] ELSE s[k + 1]
  BY RemoveAtProperties, LenProperties
<1> HIDE DEF t
<1>2. s[i].id # n /\ Absent(s, n) => Absent(t, n)
  BY <1>1 DEF Absent
<1>3. s[i].id # n /\ Once(s, n) => Once(t, n)
  <2> SUFFICES ASSUME s[i].id # n, NEW k \in DOMAIN s, s[k].id = n,
                      \A j \in DOMAIN s : s[j].id = n => j = k
               PROVE  Once(t, n)
    BY DEF Once
  <2> DEFINE p == IF k < i THEN k ELSE k - 1
  <2>1. p \in DOMAIN t /\ t[p].id = n
    BY <1>1
  <2>2. \A j \in DOMAIN t : t[j].id = n => j = p
    BY <1>1
  <2> QED BY <2>1, <2>2 DEF Once
<1>4. s[i].id = n /\ Once(s, n) => Absent(t, n)
  BY <1>1 DEF Absent, Once
<1> QED BY <1>2, <1>3, <1>4 DEF Has, t

\* A request that is appended to the sequence it is then removed from.
LEMMA ReplaceHas ==
  ASSUME NEW S, NEW s \in Seq(S), NEW i \in 1 .. Len(s), NEW n, s[i].id = n, Once(s, n)
  PROVE  Once(RemoveAt(Append(s, s[i]), i), n)
<1> DEFINE a == Append(s, s[i])
           t == RemoveAt(a, i)
<1>1. /\ s[i] \in S /\ Len(s) \in Nat /\ DOMAIN s = 1 .. Len(s)
      /\ a \in Seq(S) /\ Len(a) = Len(s) + 1 /\ i \in 1 .. Len(a)
      /\ \A k \in 1 .. Len(s) : a[k] = s[k]
      /\ a[Len(s) + 1] = s[i]
  BY AppendProperties, LenProperties, ElementOfSeq
<1> HIDE DEF a
<1>2. /\ DOMAIN t = 1 .. Len(s)
      /\ \A k \in 1 .. Len(s) : t[k] = IF k < i THEN a[k] ELSE a[k + 1]
  <2>1. /\ t \in Seq(S) /\ Len(t) = Len(a) - 1
        /\ \A k \in 1 .. Len(a) - 1 : t[k] = IF k < i THEN a[k] ELSE a[k + 1]
    BY <1>1, RemoveAtProperties
  <2> HIDE DEF t
  <2>2. DOMAIN t = 1 .. Len(t)
    BY <2>1, LenProperties
  <2> QED BY <1>1, <2>1, <2>2
<1> HIDE DEF t
<1>3. \A j \in 1 .. Len(s) : s[j].id = n => j = i
  BY <1>1 DEF Once
<1>4. Len(s) \in DOMAIN t /\ t[Len(s)].id = n
  BY <1>1, <1>2
<1>5. \A j \in DOMAIN t : t[j].id = n => j = Len(s)
  BY <1>1, <1>2, <1>3
<1> QED BY <1>4, <1>5 DEF Once, t, a

LEMMA TailHas ==
  ASSUME NEW S, NEW s \in Seq(S), s # <<>>, NEW n, NEW yes \in BOOLEAN
  PROVE  /\ 1 \in 1 .. Len(s) /\ Head(s) = s[1] /\ Tail(s) \in Seq(S)
         /\ s[1].id # n /\ Has(s, n, yes) => Has(Tail(s), n, yes)
         /\ s[1].id = n /\ Once(s, n) => Absent(Tail(s), n)
<1>1. /\ Len(s) \in Nat \ {0} /\ DOMAIN s = 1 .. Len(s) /\ Tail(s) \in Seq(S)
      /\ DOMAIN Tail(s) = 1 .. Len(s) - 1
      /\ \A k \in 1 .. Len(s) - 1 : Tail(s)[k] = s[k + 1]
  BY HeadTailProperties, LenProperties, EmptySeq
<1> DEFINE t == Tail(s)
<1> HIDE DEF t
<1>2. s[1].id # n /\ Absent(s, n) => Absent(t, n)
  BY <1>1 DEF Absent, t
<1>3. s[1].id # n /\ Once(s, n) => Once(t, n)
  <2> SUFFICES ASSUME s[1].id # n, NEW k \in DOMAIN s, s[k].id = n,
                      \A j \in DOMAIN s : s[j].id = n => j = k
               PROVE  Once(t, n)
    BY DEF Once
  <2>1. k - 1 \in DOMAIN t /\ t[k - 1].id = n
    BY <1>1 DEF t
  <2>2. \A j \in DOMAIN t : t[j].id = n => j = k - 1
    BY <1>1 DEF t
  <2> QED BY <2>1, <2>2 DEF Once
<1>4. s[1].id = n /\ Once(s, n) => Absent(t, n)
  BY <1>1 DEF Absent, Once, t
<1>5. Head(s) = s[1]
  BY <1>1
<1> QED BY <1>1, <1>2, <1>3, <1>4, <1>5 DEF Has, t

-----------------------------------------------------------------------------
(* Where a request is.                                                     *)

PlaceNames == Place \cup {"nowhere"}

Where(bufs, pend, left, n, p) ==
  /\ \A b \in Buffers : Has(bufs[b], n, p = b)
  /\ Has(pend, n, p = "pending")
  /\ n \in left <=> p = "done"

\* Every request that was sent is in one place, and no other one is anywhere.
Located(bufs, pend, left) ==
  \A n \in 1 .. MaxReqs : \E p \in PlaceNames :
    Where(bufs, pend, left, n, p) /\ (p = "nowhere" <=> n > sent)

IInv == Located(buffer, pending, done)

\* Buffers and the list of pending reads, as sequences of one kind.
Known == Request \cup [id : 1 .. MaxReqs, left : Nat]

LEMMA KnownSeq ==
  ASSUME NEW T \in SUBSET Known, NEW s \in Seq(T)
  PROVE  s \in Seq(Known)
<1>1. Len(s) \in Nat /\ s \in [1 .. Len(s) -> T]
  BY LenProperties
<1>2. s \in [1 .. Len(s) -> Known]
  BY <1>1
<1> QED BY <1>1, <1>2, SeqDef

LEMMA TypedKnown ==
  ASSUME NEW bufs, Typed(bufs), NEW b \in Buffers
  PROVE  bufs[b] \in Seq(Known)
<1>1. Admitted(b) \subseteq Known
  BY AdmittedRequest DEF Known
<1>2. bufs[b] \in Seq(Admitted(b))
  BY DEF Typed
<1> QED BY <1>1, <1>2, KnownSeq

\* Of a request in a buffer: where it is.
LEMMA InBuffer ==
  ASSUME NEW bufs, Typed(bufs), NEW b \in Buffers, NEW k \in 1 .. Len(bufs[b]),
         NEW n, bufs[b][k].id = n, NEW pend, NEW left, NEW p, Where(bufs, pend, left, n, p)
  PROVE  p = b
<1>1. k \in DOMAIN bufs[b]
  BY TypedKnown, LenProperties
<1>2. ~ Absent(bufs[b], n)
  BY <1>1 DEF Absent
<1> QED BY <1>2 DEF Where, Has

-----------------------------------------------------------------------------
(* The steps.                                                              *)

\* Issuing moves one request, or none.
LEMMA IssueLocated ==
  ASSUME ControllerAssumption, TypeOK,
         NEW bufs, Typed(bufs), Len(bufs["active"]) < Capacity["active"],
         NEW src \in Buffers, NEW i \in 1 .. Len(bufs[src]),
         NEW gone, Located(bufs, pending, done \cup gone),
         Issue(src, i, bufs, gone)
  PROVE  Located(buffer', pending', done')
<1> DEFINE r == bufs[src][i]
           c == Command(r)
           final == c = r.cmd
           moved == ~ final /\ ~ is_pim' /\ c \in Opening
           queued == IF moved THEN [bufs EXCEPT !["active"] = Append(@, r)] ELSE bufs
           served == [id |-> r.id, left |-> read_latency]
<1>1. /\ buffer' = IF final \/ moved THEN [queued EXCEPT ![src] = RemoveAt(@, i)] ELSE bufs
      /\ pending' = IF final /\ r.cmd = "RD" THEN Append(pending, served) ELSE pending
      /\ done' = done \cup gone \cup (IF final /\ r.cmd \notin {"RD", "REFab"} THEN {r.id} ELSE {})
  BY Zenon DEF Issue
<1>2. /\ \A b \in Buffers : bufs[b] \in Seq(Known)
      /\ r \in Known /\ r \in Request
      /\ pending \in Seq(Known)
      /\ DOMAIN bufs = Buffers
  <2>1. \A b \in Buffers : bufs[b] \in Seq(Known)
    BY TypedKnown
  <2>2. r \in Request
    BY ElementOfSeq, AdmittedRequest DEF Typed
  <2>3. pending \in Seq(Known)
    BY KnownSeq DEF TypeOK, Known
  <2> QED BY <2>1, <2>2, <2>3 DEF Typed, Known
<1>3. /\ r.cmd # "REFab" => r.id \in 1 .. MaxReqs
      /\ r.cmd = "REFab" => r.id = 0
  BY <1>2 DEF Request, HostRequest, RefreshRequest, HostCommands, PimCommands, MacCommands, MoveCommands
<1>4. r.id \in 1 .. MaxReqs => served \in Known /\ served.id = r.id
  BY DEF Known, ControllerAssumption
<1> SUFFICES ASSUME NEW n \in 1 .. MaxReqs
             PROVE  \E p \in PlaceNames :
                      Where(buffer', pending', done', n, p) /\ (p = "nowhere" <=> n > sent)
  BY DEF Located
<1>5. PICK p \in PlaceNames : Where(bufs, pending, done \cup gone, n, p) /\ (p = "nowhere" <=> n > sent)
  BY DEF Located
<1>6. CASE r.id # n
  <2>1. \A b \in Buffers : queued[b] \in Seq(Known) /\ Has(queued[b], n, p = b)
    BY <1>2, <1>5, <1>6, AppendHas, AppendProperties DEF Where
  <2>2. i \in 1 .. Len(queued[src]) /\ queued[src][i] = r /\ DOMAIN queued = Buffers
    BY <1>2, AppendProperties, LenProperties
  <2>3. Has(RemoveAt(queued[src], i), n, p = src)
    BY <1>6, <2>1, <2>2, RemoveHas
  <2>4. \A b \in Buffers : Has(buffer'[b], n, p = b)
    <3> HIDE DEF queued, final, moved, r
    <3> QED BY <1>1, <1>5, <2>1, <2>2, <2>3 DEF Where
  <2>5. Has(pending', n, p = "pending")
    <3>1. r.cmd = "RD" => r.id \in 1 .. MaxReqs
      BY <1>3
    <3> QED BY <1>1, <1>2, <1>4, <1>5, <1>6, <3>1, AppendHas DEF Where
  <2>6. n \in done' <=> p = "done"
    BY <1>1, <1>5, <1>6 DEF Where
  <2> QED BY <1>5, <2>4, <2>5, <2>6 DEF Where
<1>7. CASE r.id = n
  <2>1. p = src
    BY <1>5, <1>7, InBuffer
  <2>2. /\ Once(bufs[src], n) /\ \A b \in Buffers \ {src} : Absent(bufs[b], n)
        /\ Absent(pending, n) /\ n \notin done \cup gone
        /\ ~ (n > sent)
    BY <1>5, <2>1 DEF Where, Has, PlaceNames
  <2>3. Absent(RemoveAt(bufs[src], i), n)
    <3>1. bufs[src] \in Seq(Known) /\ bufs[src][i].id = n
      BY <1>2, <1>7
    <3> HIDE DEF r
    <3> QED BY <2>2, <3>1, RemoveHas, TRUE \in BOOLEAN
  <2>4. CASE final
    <3>1. \A b \in Buffers : Absent(buffer'[b], n)
      <4>1. buffer' = [bufs EXCEPT ![src] = RemoveAt(@, i)]
        BY <1>1, <2>4
      <4> HIDE DEF r
      <4> QED BY <1>2, <2>2, <2>3, <4>1
    <3>2. CASE r.cmd = "RD"
      <4>1. Once(pending', n) /\ n \notin done'
        BY <1>1, <1>2, <1>4, <1>7, <2>2, <2>4, <3>2, AppendHas
      <4>2. Where(buffer', pending', done', n, "pending")
        BY <3>1, <4>1 DEF Where, Has
      <4> QED BY <2>2, <4>2 DEF PlaceNames
    <3>3. CASE r.cmd # "RD"
      <4>1. Absent(pending', n) /\ n \in done'
        BY <1>1, <1>3, <1>7, <2>2, <2>4, <3>3
      <4>2. Where(buffer', pending', done', n, "done")
        BY <3>1, <4>1 DEF Where, Has
      <4> QED BY <2>2, <4>2 DEF PlaceNames
    <3> QED BY <3>2, <3>3
  <2>5. CASE moved
    <3>1. pending' = pending /\ n \notin done'
      BY <1>1, <2>2, <2>5
    <3>2. buffer' = [queued EXCEPT ![src] = RemoveAt(@, i)]
      BY <1>1, <2>5
    <3>3. queued = [bufs EXCEPT !["active"] = Append(@, r)]
      BY <2>5
    <3>4. CASE src = "active"
      <4>1. Once(RemoveAt(Append(bufs["active"], r), i), n)
        BY <1>2, <1>7, <2>2, <3>4, ReplaceHas
      <4> HIDE DEF r, queued
      <4>2. /\ buffer'["active"] = RemoveAt(Append(bufs["active"], r), i)
            /\ \A b \in Buffers \ {"active"} : buffer'[b] = bufs[b]
        BY <1>2, <3>2, <3>3, <3>4
      <4> QED BY <2>2, <3>1, <3>4, <4>1, <4>2 DEF Where, Has, PlaceNames
    <3>5. CASE src # "active"
      <4>1. Once(Append(bufs["active"], r), n)
        BY <1>2, <1>7, <2>2, <3>5, AppendHas
      <4> HIDE DEF r, queued
      <4>2. /\ buffer'["active"] = Append(bufs["active"], r)
            /\ buffer'[src] = RemoveAt(bufs[src], i)
            /\ \A b \in Buffers \ {"active", src} : buffer'[b] = bufs[b]
        BY <1>2, <3>2, <3>3, <3>5
      <4>3. \A b \in Buffers : Has(buffer'[b], n, "active" = b)
        BY <2>2, <2>3, <4>1, <4>2 DEF Has
      <4> QED BY <2>2, <3>1, <4>3 DEF Where, Has, PlaceNames
    <3> QED BY <3>4, <3>5
  <2>6. CASE ~ final /\ ~ moved
    <3>1. buffer' = bufs /\ pending' = pending /\ done' = done \cup gone
      BY <1>1, <2>6
    <3> QED BY <1>5, <3>1
  <2> QED BY <2>4, <2>5, <2>6
<1> QED BY <1>6, <1>7

LEMMA ServeLocated ==
  ASSUME ControllerAssumption, TypeOK,
         NEW bufs, Typed(bufs), Len(bufs["active"]) < Capacity["active"],
         NEW src \in Buffers, NEW i \in 1 .. Len(bufs[src]),
         NEW gone, Located(bufs, pending, done \cup gone),
         Serve(src, i, bufs, gone)
  PROVE  Located(buffer', pending', done')
<1>1. CASE Issue(src, i, bufs, gone)
  BY <1>1, IssueLocated
<1>2. CASE Pass(bufs, gone, {get_command_type(Command(bufs[src][i]))})
  BY <1>2 DEF Pass
<1> QED BY <1>1, <1>2 DEF Serve

\* Dropping a barrier moves it from the PIM buffer to the requests done.
LEMMA SearchedLocated ==
  ASSUME TypeOK, IInv
  PROVE  Located(PimSearched, pending, done \cup Dropped(buffer["pim"]))
<1>1. /\ Typed(buffer) /\ buffer["pim"] \in Seq(Known) /\ DOMAIN buffer = Buffers
  <2>1. Typed(buffer)
    BY DEF TypeOK, Typed
  <2> QED BY <2>1, TypedKnown DEF Typed
<1>2. CASE buffer["pim"] = <<>> \/ Head(buffer["pim"]).cmd # "BARRIER"
  <2>1. DropBarrier(buffer["pim"]) = buffer["pim"] /\ Dropped(buffer["pim"]) = {}
    BY <1>2 DEF DropBarrier, Dropped
  <2>2. \A b \in Buffers : PimSearched[b] = buffer[b]
    BY <1>1, <2>1 DEF PimSearched
  <2> QED BY <2>1, <2>2 DEF IInv, Located, Where
<1>3. CASE buffer["pim"] # <<>> /\ Head(buffer["pim"]).cmd = "BARRIER"
  <2> DEFINE r == Head(buffer["pim"])
  <2>1. /\ PimSearched = [buffer EXCEPT !["pim"] = Tail(@)]
        /\ Dropped(buffer["pim"]) = {r.id}
    BY <1>1, <1>3 DEF PimSearched, DropBarrier, Dropped
  <2>2. /\ PimSearched["pim"] = Tail(buffer["pim"])
        /\ \A b \in Buffers \ {"pim"} : PimSearched[b] = buffer[b]
    BY <1>1, <2>1
  <2>3. 1 \in 1 .. Len(buffer["pim"]) /\ r = buffer["pim"][1]
    BY <1>1, <1>3, TailHas, TRUE \in BOOLEAN
  <2> SUFFICES ASSUME NEW n \in 1 .. MaxReqs
               PROVE  \E p \in PlaceNames :
                        /\ Where(PimSearched, pending, done \cup {r.id}, n, p)
                        /\ p = "nowhere" <=> n > sent
    BY <2>1 DEF Located
  <2>4. PICK p \in PlaceNames :
          Where(buffer, pending, done, n, p) /\ (p = "nowhere" <=> n > sent)
    BY DEF IInv, Located
  <2>5. CASE r.id # n
    <3>1. Has(Tail(buffer["pim"]), n, p = "pim")
      BY <1>1, <1>3, <2>3, <2>4, <2>5, TailHas DEF Where
    <3>2. \A b \in Buffers : Has(PimSearched[b], n, p = b)
      BY <2>2, <2>4, <3>1 DEF Where
    <3> QED BY <2>4, <2>5, <3>2 DEF Where
  <2>6. CASE r.id = n
    <3>1. p = "pim"
      BY <1>1, <2>3, <2>4, <2>6, InBuffer
    <3>2. /\ Once(buffer["pim"], n) /\ \A b \in Buffers \ {"pim"} : Absent(buffer[b], n)
          /\ Absent(pending, n) /\ ~ (n > sent)
      BY <2>4, <3>1 DEF Where, Has
    <3>3. Absent(Tail(buffer["pim"]), n)
      BY <1>1, <1>3, <2>3, <2>6, <3>2, TailHas, TRUE \in BOOLEAN
    <3>4. Where(PimSearched, pending, done \cup {r.id}, n, "done")
      BY <2>2, <2>6, <3>2, <3>3 DEF Where, Has
    <3> QED BY <3>2, <3>4 DEF PlaceNames
  <2> QED BY <2>5, <2>6
<1> QED BY <1>2, <1>3

RoomForActive == Len(buffer["active"]) < Capacity["active"]

LEMMA SlotLocated ==
  ASSUME ControllerAssumption, TypeOK, IInv, RoomForActive, Slot
  PROVE  IInv'
<1>1. PICK R \in ReadySets :
        \/ FromActive(R)
        \/ FromPriority(R)
        \/ PriorityBlocks(R)
        \/ FromPim(R)
        \/ FromHost(R)
  BY DEF Slot
<1>2. /\ Typed(buffer) /\ \A b \in Buffers : buffer[b] \in Seq(Admitted(b))
      /\ Located(buffer, pending, done \cup {})
      /\ Len(buffer["active"]) < Capacity["active"]
  BY DEF TypeOK, Typed, IInv, RoomForActive
<1>3. /\ Typed(PimSearched)
      /\ Located(PimSearched, pending, done \cup Dropped(buffer["pim"]))
      /\ \A b \in Buffers \ {"pim"} : PimSearched[b] = buffer[b]
      /\ Len(PimSearched["active"]) < Capacity["active"]
  BY <1>2, SearchedType, SearchedLocated
<1>4. Located(buffer', pending', done')
  <2>1. CASE FromActive(R)
    <3>1. PICK i \in Taken(R, buffer["active"]) : Serve("active", i, buffer, {})
      BY <2>1 DEF FromActive
    <3>2. i \in 1 .. Len(buffer["active"])
      BY <1>2, <3>1, TakenInBuffer DEF Taken
    <3> QED BY <1>2, <3>1, <3>2, ServeLocated
  <2>2. CASE FromPriority(R)
    <3>1. 1 \in 1 .. Len(buffer["priority"])
      BY <1>2, <2>2, EmptySeq DEF FromPriority, PriorityAsked
    <3>2. Serve("priority", 1, buffer, {})
      BY <2>2 DEF FromPriority
    <3> QED BY <1>2, <3>1, <3>2, ServeLocated
  <2>3. CASE PriorityBlocks(R)
    BY <1>2, <2>3 DEF PriorityBlocks, Pass
  <2>4. CASE FromPim(R)
    <3>1. PICK i \in Taken(R, PimSearched["pim"]) :
            Serve("pim", i, PimSearched, Dropped(buffer["pim"]))
      BY <2>4 DEF FromPim
    <3>2. i \in 1 .. Len(PimSearched["pim"])
      BY <1>3, <3>1, TakenInBuffer DEF Taken, Typed
    <3> QED BY <1>3, <3>1, <3>2, ServeLocated
  <2>5. CASE FromHost(R)
    <3>1. HostBuffer \in Buffers \ {"pim"}
      BY DEF HostBuffer
    <3>2. ASSUME NEW i \in Taken(R, buffer[HostBuffer]),
                 Serve(HostBuffer, i, PimSearched, Dropped(buffer["pim"]))
          PROVE  Located(buffer', pending', done')
      <4>1. i \in 1 .. Len(PimSearched[HostBuffer])
        BY <1>2, <1>3, <3>1, TakenInBuffer DEF Taken
      <4> QED BY <1>3, <3>1, <3>2, <4>1, ServeLocated
    <3>3. ASSUME NEW types, Pass(PimSearched, Dropped(buffer["pim"]), types)
          PROVE  Located(buffer', pending', done')
      BY <1>3, <3>3 DEF Pass
    <3> QED BY <2>5, <3>2, <3>3 DEF FromHost
  <2> QED BY <1>1, <2>1, <2>2, <2>3, <2>4, <2>5
<1>5. sent' = sent
  BY DEF Slot
<1> QED BY <1>4, <1>5 DEF IInv, Located

LEMMA SendLocated ==
  ASSUME ControllerAssumption, TypeOK, IInv, NEW t \in Requests, Send(t)
  PROVE  IInv'
<1>1. t \in [cmd : HostCommands \cup PimCommands, addr : Nat, bank : Bank, row : Row]
  BY DEF ControllerAssumption
<1>2. /\ sent + 1 \in 1 .. MaxReqs /\ sent' = sent + 1 /\ sent \in Nat
      /\ done' = done /\ m_clk \in 0 .. MaxReqs
      /\ pending \in Seq(Known) /\ Typed(buffer)
  <2>1. pending \in Seq([id : 1 .. MaxReqs, left : Nat])
    BY DEF TypeOK
  <2>2. pending \in Seq(Known)
    BY <2>1, KnownSeq DEF Known
  <2> QED BY <2>2 DEF Send, TypeOK, ControllerAssumption, Typed
<1> SUFFICES ASSUME NEW n \in 1 .. MaxReqs
             PROVE  \E p \in PlaceNames :
                      Where(buffer', pending', done', n, p) /\ (p = "nowhere" <=> n > sent + 1)
  BY <1>2 DEF IInv, Located
<1>3. PICK p \in PlaceNames : Where(buffer, pending, done, n, p) /\ (p = "nowhere" <=> n > sent)
  BY DEF IInv, Located
<1>4. n = sent + 1 =>
        /\ \A b \in Buffers : Absent(buffer[b], n)
        /\ Absent(pending, n) /\ n \notin done
  BY <1>2, <1>3 DEF Where, Has
<1>5. CASE pending' = Append(pending, [id |-> sent + 1, left |-> 1]) /\ UNCHANGED buffer
  <2> DEFINE e == [id |-> sent + 1, left |-> 1]
  <2>1. e \in Known /\ e.id = sent + 1
    BY <1>2 DEF Known
  <2> HIDE DEF e
  <2>2. CASE n = sent + 1
    <3>1. Once(pending', n)
      BY <1>2, <1>4, <1>5, <2>1, <2>2, AppendHas, TRUE \in BOOLEAN DEF e
    <3>2. Where(buffer', pending', done', n, "pending")
      BY <1>2, <1>4, <1>5, <2>2, <3>1 DEF Where, Has
    <3> QED BY <1>2, <2>2, <3>2 DEF PlaceNames
  <2>3. CASE n # sent + 1
    <3>1. Has(pending', n, p = "pending")
      BY <1>2, <1>3, <1>5, <2>1, <2>3, AppendHas DEF Where, e
    <3>2. Where(buffer', pending', done', n, p)
      BY <1>2, <1>3, <1>5, <3>1 DEF Where
    <3> QED BY <1>2, <1>3, <2>3, <3>2
  <2> QED BY <2>2, <2>3
<1>6. CASE /\ buffer' = [buffer EXCEPT ![BufferOf(t.cmd)] =
                Append(@, [id |-> sent + 1, cmd |-> t.cmd, addr |-> t.addr,
                           bank |-> t.bank, row |-> t.row, arrive |-> m_clk])]
           /\ UNCHANGED pending
  <2> DEFINE e == [id |-> sent + 1, cmd |-> t.cmd, addr |-> t.addr,
                   bank |-> t.bank, row |-> t.row, arrive |-> m_clk]
             b0 == BufferOf(t.cmd)
  <2>1. b0 \in Buffers /\ e \in Known /\ e.id = sent + 1
    BY <1>1, <1>2 DEF BufferOf, Known, Request, HostRequest, TraceCommands
  <2>2. buffer[b0] \in Seq(Known)
    BY <1>2, <2>1, TypedKnown
  <2>3. buffer' = [buffer EXCEPT ![b0] = Append(@, e)]
    BY <1>6
  <2> HIDE DEF e, b0
  <2>4. /\ buffer'[b0] = Append(buffer[b0], e)
        /\ \A b \in Buffers \ {b0} : buffer'[b] = buffer[b]
    BY <1>2, <2>1, <2>3 DEF Typed
  <2>5. CASE n = sent + 1
    <3>1. Once(Append(buffer[b0], e), n)
      BY <1>4, <2>1, <2>2, <2>5, AppendHas, TRUE \in BOOLEAN
    <3>2. Where(buffer', pending', done', n, b0)
      BY <1>2, <1>4, <1>6, <2>1, <2>4, <2>5, <3>1 DEF Where, Has
    <3> QED BY <1>2, <2>1, <2>5, <3>2 DEF PlaceNames
  <2>6. CASE n # sent + 1
    <3>1. Has(Append(buffer[b0], e), n, p = b0)
      <4>1. Has(buffer[b0], n, p = b0) /\ (p = b0) \in BOOLEAN
        BY <1>3, <2>1 DEF Where
      <4> QED BY <2>1, <2>2, <2>6, <4>1, AppendHas
    <3>2. Where(buffer', pending', done', n, p)
      BY <1>2, <1>3, <1>6, <2>4, <3>1 DEF Where
    <3> QED BY <1>2, <1>3, <2>6, <3>2
  <2> QED BY <2>5, <2>6
<1> QED BY <1>5, <1>6 DEF Send

\* A tick serves the first pending read and adds refreshes, which have no id.
LEMMA TickBeginLocated ==
  ASSUME OrgAssumption, ControllerAssumption, TypeOK, IInv, TickBegin
  PROVE  IInv'
<1> DEFINE aged == [k \in DOMAIN pending |->
                      [pending[k] EXCEPT !.left = IF @ = 0 THEN 0 ELSE @ - 1]]
           Pending == [id : 1 .. MaxReqs, left : Nat]
<1>1. /\ aged \in Seq(Pending)
      /\ DOMAIN aged = DOMAIN pending
      /\ \A k \in DOMAIN pending : aged[k].id = pending[k].id
  <2>1. pending \in [1 .. Len(pending) -> Pending] /\ Len(pending) \in Nat
        /\ DOMAIN pending = 1 .. Len(pending)
    <3>1. pending \in Seq(Pending)
      BY DEF TypeOK
    <3> HIDE DEF Pending
    <3> QED BY <3>1, LenProperties
  <2>2. \A x \in Pending :
          /\ [x EXCEPT !.left = IF @ = 0 THEN 0 ELSE @ - 1] \in Pending
          /\ [x EXCEPT !.left = IF @ = 0 THEN 0 ELSE @ - 1].id = x.id
    OBVIOUS
  <2> HIDE DEF Pending
  <2>3. aged \in [1 .. Len(pending) -> Pending]
    BY <2>1, <2>2
  <2>4. aged \in Seq(Pending)
    BY SMTT(40), <2>1, <2>3, SeqDef
  <2>5. \A k \in DOMAIN pending : aged[k].id = pending[k].id
    BY <2>1, <2>2
  <2> QED BY <2>4, <2>5
<1>2. /\ \/ aged # <<>> /\ pending' = Tail(aged) /\ done' = done \cup {aged[1].id}
         \/ pending' = aged /\ done' = done
      /\ sent' = sent
  BY Zenon DEF TickBegin, serve_completed_reads
<1>3. \A n, yes : Has(pending, n, yes) => Has(aged, n, yes)
  BY <1>1 DEF Has, Once, Absent
<1> HIDE DEF aged
<1>4. \A b \in Buffers : \A n \in 1 .. MaxReqs, yes \in BOOLEAN :
        Has(buffer[b], n, yes) => Has(buffer'[b], n, yes)
  <2>1. CASE UNCHANGED <<buffer, refreshes>>
    BY <2>1
  <2>2. CASE buffer' = [buffer EXCEPT !["priority"] = @ \o RefreshRound]
    <3> DEFINE q == buffer["priority"]
               t == q \o RefreshRound
    <3>1. /\ q \in Seq(RefreshRequest) /\ DOMAIN buffer = Buffers
          /\ RefreshRound \in Seq(RefreshRequest)
      <4>1. RefreshRound \in [1 .. NPch -> RefreshRequest]
        <5>1. \A p \in 1 .. NPch : <<p - 1, -1, -1, -1>> \in RefreshPath
          BY DEF RefreshPath, OrgAssumption
        <5> QED BY <5>1 DEF RefreshRound, RefreshRequest
      <4> QED BY <4>1, SeqDef DEF OrgAssumption, TypeOK, Admitted
    <3>2. q \in Seq(RefreshRequest) /\ t \in Seq(RefreshRequest)
      BY <3>1, ConcatProperties
    <3>3. ASSUME NEW s \in Seq(RefreshRequest), NEW n \in 1 .. MaxReqs
          PROVE  Absent(s, n) /\ ~ Once(s, n)
      <4>1. \A k \in DOMAIN s : s[k].id = 0
        <5>1. \A k \in DOMAIN s : s[k] \in RefreshRequest
          BY ElementOfSeq, LenProperties
        <5>2. \A x \in RefreshRequest : x.id = 0
          BY DEF RefreshRequest
        <5> QED BY <5>1, <5>2
      <4> QED BY <4>1 DEF Absent, Once
    <3>4. \A n \in 1 .. MaxReqs, yes \in BOOLEAN : Has(q, n, yes) => Has(t, n, yes)
      BY <3>2, <3>3 DEF Has
    <3> HIDE DEF q, t
    <3>5. buffer'["priority"] = t /\ \A b \in Buffers \ {"priority"} : buffer'[b] = buffer[b]
      BY <2>2, <3>1 DEF q, t
    <3> QED BY <3>4, <3>5 DEF q
  <2> QED BY <2>1, <2>2 DEF TickBegin, refresh_tick
<1> SUFFICES ASSUME NEW n \in 1 .. MaxReqs
             PROVE  \E p \in PlaceNames :
                      Where(buffer', pending', done', n, p) /\ (p = "nowhere" <=> n > sent)
  BY <1>2 DEF IInv, Located
<1>5. PICK p \in PlaceNames : Where(buffer, pending, done, n, p) /\ (p = "nowhere" <=> n > sent)
  BY DEF IInv, Located
<1>6. \A b \in Buffers : Has(buffer'[b], n, p = b)
  BY <1>4, <1>5 DEF Where
<1>7. Has(aged, n, p = "pending")
  BY <1>3, <1>5 DEF Where
<1>8. CASE pending' = aged /\ done' = done
  BY <1>5, <1>6, <1>7, <1>8 DEF Where
<1>9. CASE aged # <<>> /\ pending' = Tail(aged) /\ done' = done \cup {aged[1].id}
  <2>1. CASE aged[1].id # n
    <3>1. Has(Tail(aged), n, p = "pending")
      BY <1>1, <1>7, <1>9, <2>1, TailHas
    <3> QED BY <1>5, <1>6, <1>9, <2>1, <3>1 DEF Where
  <2>2. CASE aged[1].id = n
    <3>1. 1 \in DOMAIN aged
      BY <1>1, <1>9, EmptySeq, LenProperties
    <3>2. p = "pending" /\ Once(aged, n)
      BY <1>7, <2>2, <3>1 DEF Has, Absent
    <3>3. Absent(Tail(aged), n)
      BY <1>1, <1>9, <2>2, <3>2, TailHas, TRUE \in BOOLEAN
    <3>4. Where(buffer', pending', done', n, "done")
      BY <1>6, <1>9, <2>2, <3>2, <3>3 DEF Where, Has
    <3> QED BY <1>5, <3>2, <3>4 DEF PlaceNames
  <2> QED BY <2>1, <2>2
<1> QED BY <1>2, <1>8, <1>9

LEMMA InitLocated ==
  ASSUME ControllerAssumption, Init
  PROVE  IInv
<1> SUFFICES ASSUME NEW n \in 1 .. MaxReqs
             PROVE  Where(buffer, pending, done, n, "nowhere") /\ n > sent
  BY DEF IInv, Located, PlaceNames
<1>1. DOMAIN <<>> = {}
  OBVIOUS
<1> QED BY <1>1 DEF Init, Where, Has, Absent

LEMMA NextLocated ==
  ASSUME OrgAssumption, ControllerAssumption, TypeOK, IInv, RoomForActive, [Next]_vars
  PROVE  IInv'
<1>1. ASSUME NEW t \in Requests, Send(t) PROVE IInv'
  BY <1>1, SendLocated
<1>2. CASE TickBegin
  BY <1>2, TickBeginLocated
<1>3. CASE FirstSlot \/ SecondSlot
  BY <1>3, SlotLocated DEF FirstSlot, SecondSlot
<1>4. CASE RefreshFails \/ UNCHANGED vars
  <2>1. buffer' = buffer /\ pending' = pending /\ done' = done /\ sent' = sent
    BY <1>4 DEF RefreshFails, vars
  <2> QED BY <2>1 DEF IInv, Located
<1> QED BY <1>1, <1>2, <1>3, <1>4 DEF Next, Tick

-----------------------------------------------------------------------------
(* The places of Conservation.                                             *)

LEMMA LocatedConserved ==
  ASSUME ControllerAssumption, TypeOK, IInv
  PROVE  Conservation
<1> SUFFICES ASSUME NEW n \in 1 .. sent
             PROVE  \E p \in Place : /\ \E k \in Found(n, p) : Found(n, p) = {k}
                                     /\ \A q \in Place \ {p} : Found(n, q) = {}
  BY DEF Conservation
<1>1. n \in 1 .. MaxReqs /\ ~ (n > sent)
  BY DEF TypeOK, ControllerAssumption
<1>2. PICK p \in Place : Where(buffer, pending, done, n, p)
  BY <1>1 DEF IInv, Located, PlaceNames
<1>3. \A q \in Buffers : Found(n, q) = {k \in DOMAIN buffer[q] : buffer[q][k].id = n}
  BY DEF Found
<1>4. Found(n, "pending") = {k \in DOMAIN pending : pending[k].id = n}
  BY DEF Found
<1>5. Found(n, "done") = {n} \cap done
  BY DEF Found
<1>6. \A q \in Buffers : q # p => Found(n, q) = {}
  BY <1>2, <1>3 DEF Where, Has, Absent
<1>7. p # "pending" => Found(n, "pending") = {}
  BY <1>2, <1>4 DEF Where, Has, Absent
<1>8. p # "done" => Found(n, "done") = {}
  BY <1>2, <1>5 DEF Where
<1>9. \E k \in Found(n, p) : Found(n, p) = {k}
  <2>1. CASE p \in Buffers
    <3>1. Once(buffer[p], n)
      BY <1>2, <2>1 DEF Where, Has
    <3> QED BY <1>3, <2>1, <3>1 DEF Once
  <2>2. CASE p = "pending"
    <3>1. Once(pending, n)
      BY <1>2, <2>2 DEF Where, Has
    <3> QED BY <1>4, <2>2, <3>1 DEF Once
  <2>3. CASE p = "done"
    BY <1>2, <1>5, <2>3 DEF Where
  <2> QED BY <2>1, <2>2, <2>3
<1> QED BY <1>6, <1>7, <1>8, <1>9

\* No request is lost or duplicated, unless the active buffer is full when a
\* row is opened for one (hbm3_pim_controller.cpp:140 erases a request
\* whether or not enqueue took it).
THEOREM Conserved == Spec /\ []RoomForActive => []Conservation
<1>1. Init => IInv
  BY ControllerAssumption, InitLocated
<1>2. TypeOK /\ IInv /\ RoomForActive /\ [Next]_vars => IInv'
  BY OrgAssumption, ControllerAssumption, NextLocated
<1>3. TypeOK /\ IInv => Conservation
  BY ControllerAssumption, LocatedConserved
<1> QED BY <1>1, <1>2, <1>3, Typing, PTL DEF Spec

HIDE DEF Place
=============================================================================
