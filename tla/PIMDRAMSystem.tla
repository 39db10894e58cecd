---------------------------- MODULE PIMDRAMSystem ----------------------------
(***************************************************************************)
(* The simulator around the controllers: the main loop, the frontend that  *)
(* replays a trace (PIMLoadStoreTrace) and the memory system that hands    *)
(* every request to the controller of its channel (PIMDRAMSystem).         *)
(*                                                                         *)
(* A controller is known by what module BarrierQueue promises of it: it    *)
(* serves its PIM requests in any order that no barrier forbids, and loads *)
(* and stores in any order, and refreshes of its own may wait in it at any *)
(* time.  That it gets on is not taken for granted (see Terminates).       *)
(* A cycle has forced steps: the frontend sends line after line until one  *)
(* is refused, then the memory system ticks.                               *)
(***************************************************************************)
EXTENDS AddressMapper, FiniteSets

CONSTANTS Traces,     \* traces of the runs: sequences of [type, at, offset]
          Capacity,   \* how many requests a buffer of a controller takes
          MaxServed   \* bound: requests that leave a controller in a tick

HostTypes == {"LD", "ST"}
PimTypes == {"PIM_MAC_AB", "PIM_MAC_SB", "PIM_MAC_PB", "PIM_WR_GB", "PIM_MV_SB", "PIM_MV_GB",
             "PIM_SFM", "PIM_SET_MODEL", "PIM_SET_HEAD", "PIM_BARRIER"}
Channel == 0 .. Count[1] - 1
Line == {l \in [type : HostTypes \cup PimTypes, at : Vector, offset : Nat] : WithinRow(l.at, l.offset)}

ASSUME SystemAssumption ==
  /\ \A t \in Traces : t \in Seq(Line)
  /\ Capacity \in Nat \ {0}
  /\ MaxServed \in Nat \ {0}

VARIABLES
  m_trace,
  m_curr_trace_idx,
  m_trace_count,
  waiting,     \* channel -> the requests its controller has accepted
  moved,       \* channel -> those in its active buffer or among its pending reads
  served,      \* channel -> the requests its controller has served
  refreshing,  \* channel -> whether a refresh waits in its priority buffer
  stats,       \* type -> how many requests of it the memory system counts
  phase        \* which part of the cycle comes next

channels == <<waiting, moved, served, refreshing>>
vars == <<m_trace, m_curr_trace_idx, m_trace_count, channels, stats, phase>>

\* Requests are numbered as they are accepted.
Request ==
  [id : 1 .. Len(m_trace), line : 1 .. Len(m_trace), type : HostTypes \cup PimTypes, addr_vec : Vector]

TypeOK ==
  /\ m_trace \in Traces
  /\ m_trace_count \in 0 .. Len(m_trace)
  /\ m_curr_trace_idx = IF m_trace = <<>> THEN 0 ELSE m_trace_count % Len(m_trace)
  /\ waiting \in [Channel -> SUBSET Request]
  /\ moved \in [Channel -> SUBSET Request]
  /\ \A c \in Channel : moved[c] \subseteq {w \in waiting[c] : w.type \in HostTypes}
  /\ served \in [Channel -> SUBSET Request]
  /\ refreshing \in [Channel -> BOOLEAN]
  /\ stats \in [HostTypes \cup PimTypes -> Nat]
  /\ phase \in {"frontend", "memory", "exit"}

Init ==
  /\ m_trace \in Traces
  /\ m_curr_trace_idx = 0
  /\ m_trace_count = 0
  /\ waiting = [c \in Channel |-> {}]
  /\ moved = [c \in Channel |-> {}]
  /\ served = [c \in Channel |-> {}]
  /\ refreshing = [c \in Channel |-> FALSE]
  /\ stats = [t \in HostTypes \cup PimTypes |-> 0]
  /\ phase = "frontend"

-----------------------------------------------------------------------------
(* The frontend.                                                           *)

\* Wrong: the index is compared, which starts again at the end of the trace.
is_finished_Index == m_curr_trace_idx >= Len(m_trace)

is_finished == m_trace_count >= Len(m_trace)

\* The address in line k.
addr(k) == Address(m_trace[k].at, m_trace[k].offset)

\* The request of the current line, as the memory system maps it.
Current ==
  LET k == m_curr_trace_idx + 1
  IN [id |-> m_trace_count + 1, line |-> k, type |-> m_trace[k].type, addr_vec |-> apply(addr(k))]

\* The buffer of the controller that a request of type t shares with others.
SameBuffer(t, u) == t = u \/ (t \in PimTypes /\ u \in PimTypes)

\* A load of what a store in the buffer will write is answered by it and goes
\* to the pending reads at once.
Forwarded(c, r) ==
  r.type = "LD" /\ \E w \in waiting[c] \ moved[c] : w.type = "ST" /\ addr(w.line) = addr(r.line)

\* Wrong: what has been served still takes room.
Accepts_KeepsRoom(c, r) ==
  Cardinality({w \in waiting[c] \cup served[c] : SameBuffer(w.type, r.type)}) < Capacity

\* What has moved on takes no room in a buffer any more.
Accepts(c, r) ==
  \/ Forwarded(c, r)
  \/ Cardinality({w \in waiting[c] \ moved[c] : SameBuffer(w.type, r.type)}) < Capacity

\* Barriers are the one type the memory system does not count.
Counted(t) == [stats EXCEPT ![t] = IF t = "PIM_BARRIER" THEN @ ELSE @ + 1]

send(r) ==
  LET c == r.addr_vec[1] IN
  IF Accepts(c, r)
  THEN /\ waiting' = [waiting EXCEPT ![c] = @ \cup {r}]
       /\ moved' = IF Forwarded(c, r) THEN [moved EXCEPT ![c] = @ \cup {r}] ELSE moved
       /\ stats' = Counted(r.type)
  ELSE UNCHANGED <<waiting, moved, stats>>

\* Wrong: the frontend goes on to the next line when one is refused.
advance_Always(r) ==
  /\ m_trace_count' = m_trace_count + 1
  /\ m_curr_trace_idx' = (m_curr_trace_idx + 1) % Len(m_trace)
  /\ phase' = IF Accepts(r.addr_vec[1], r) THEN "frontend" ELSE "memory"

\* A line that is refused ends the tick and is tried again in the next one.
advance(r) ==
  IF Accepts(r.addr_vec[1], r)
  THEN /\ m_trace_count' = m_trace_count + 1
       /\ m_curr_trace_idx' = (m_curr_trace_idx + 1) % Len(m_trace)
       /\ UNCHANGED phase
  ELSE /\ phase' = "memory"
       /\ UNCHANGED <<m_trace_count, m_curr_trace_idx>>

SendLine ==
  /\ phase = "frontend"
  /\ ~ is_finished
  /\ send(Current)
  /\ advance(Current)
  /\ UNCHANGED <<m_trace, served, refreshing>>

TraceSent ==
  /\ phase = "frontend"
  /\ is_finished
  /\ phase' = "memory"
  /\ UNCHANGED <<m_trace, m_curr_trace_idx, m_trace_count, channels, stats>>

-----------------------------------------------------------------------------
(* The controllers and the end of a cycle.                                 *)

\* Wrong: a barrier holds back what is sent after it, and waits for nothing.
Behind_OneWay(w, r) ==
  w.id < r.id /\ r.type \in PimTypes /\ w.type = "PIM_BARRIER"

\* Wrong: a barrier waits for what is sent before it, and holds back nothing.
Behind_Waits(w, r) ==
  w.id < r.id /\ w.type \in PimTypes /\ r.type = "PIM_BARRIER"

\* Request w of a buffer has to leave before request r may.
Behind(w, r) ==
  /\ w.id < r.id
  /\ {w.type, r.type} \subseteq PimTypes
  /\ "PIM_BARRIER" \in {w.type, r.type}

\* The sets of requests that may leave channel c in one tick.  A load leaves
\* from the pending reads.
Leaving(c) ==
  {D \in SUBSET waiting[c] :
     /\ Cardinality(D) <= MaxServed
     /\ \A r \in D, w \in waiting[c] : Behind(w, r) => w \in D
     /\ \A r \in D : r.type = "LD" => r \in moved[c]}

\* The loads and stores that may move on from their buffer.
Moving(c) == {w \in waiting[c] \ moved[c] : w.type \in HostTypes}

\* Wrong: what has been served stays pending.
is_pending_Keeps == \E c \in Channel : waiting'[c] # {} \/ served'[c] # {}

is_pending == \E c \in Channel : waiting'[c] # {} \/ refreshing'[c]

\* Wrong: the main loop waits for the trace only (as before the patch).
stops_TraceOnly == is_finished

stops == is_finished /\ ~ is_pending

MemoryTick ==
  /\ phase = "memory"
  /\ \E leave \in [Channel -> UNION {Leaving(c) : c \in Channel}],
        move \in [Channel -> SUBSET UNION {Moving(c) : c \in Channel}] :
       /\ \A c \in Channel : leave[c] \in Leaving(c) /\ move[c] \subseteq Moving(c)
       /\ waiting' = [c \in Channel |-> waiting[c] \ leave[c]]
       /\ moved' = [c \in Channel |-> (moved[c] \cup move[c]) \ leave[c]]
       /\ served' = [c \in Channel |-> served[c] \cup leave[c]]
  /\ refreshing' \in [Channel -> BOOLEAN]
  /\ phase' = IF stops THEN "exit" ELSE "frontend"
  /\ UNCHANGED <<m_trace, m_curr_trace_idx, m_trace_count, stats>>

Next == SendLine \/ TraceSent \/ MemoryTick

\* One thread runs the main loop until it stops.
Spec == Init /\ [][Next]_vars /\ WF_vars(Next)
=============================================================================
