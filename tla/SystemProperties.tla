-------------------------- MODULE SystemProperties --------------------------
(***************************************************************************)
(* What a simulation is relied upon for.                                   *)
(***************************************************************************)
EXTENDS PIMDRAMSystem

\* The lines of the trace that are meant for channel c, up to number n.
LinesOf(c, n) == {k \in 1 .. n : m_trace[k].at[1] = c}

\* The requests that channel c has accepted.
Accepted(c) == waiting[c] \cup served[c]

\* Back-pressure loses and repeats nothing: every line sent so far is in its
\* own channel exactly once, waiting or served.
SentOnce ==
  \A c \in Channel :
    /\ {r.line : r \in Accepted(c)} = LinesOf(c, m_trace_count)
    /\ \A r, s \in Accepted(c) : r.line = s.line => r = s
    /\ waiting[c] \cap served[c] = {}

\* Encoding and decoding agree: a request has the place the trace generator
\* meant; an offset that exceeds a column access moves its column, and
\* nothing else.
RightPlace ==
  \A c \in Channel : \A r \in Accepted(c) :
    r.addr_vec = Place(m_trace[r.line].at, m_trace[r.line].offset)

\* The phases of a trace survive the way through frontend, mapper and
\* controllers: a PIM line is served only with all PIM lines of its channel
\* that a barrier line of that channel separates from it.
PhasesKept ==
  \A c \in Channel :
    LET lines == {r.line : r \in served[c]} IN
    \A i \in lines : \A k, j \in LinesOf(c, i) :
      /\ {m_trace[i].type, m_trace[j].type} \subseteq PimTypes
      /\ m_trace[k].type = "PIM_BARRIER"
      /\ j <= k
      => j \in lines

\* What the simulator reports at the end belongs to the whole trace: nothing
\* waits any more, and the counters have counted every line but the barriers.
ReportComplete ==
  phase = "exit" =>
    /\ \A c \in Channel : {r.line : r \in served[c]} = LinesOf(c, Len(m_trace))
    /\ \A t \in HostTypes \cup PimTypes :
         stats[t] = Cardinality({k \in DOMAIN m_trace :
                                   m_trace[k].type = t /\ t # "PIM_BARRIER"})

\* The PIM requests that wait in channel c, as module BarrierQueue sees them.
PimWaiting(c) ==
  {[id |-> r.id, barrier |-> r.type = "PIM_BARRIER"] : r \in {w \in waiting[c] : w.type \in PimTypes}}

Queue(c) == INSTANCE BarrierQueue WITH waiting <- PimWaiting(c), last <- m_trace_count

\* What this module takes a controller to be is what a controller has been
\* shown to do (BarrierOrder of ControllerProperties): every channel keeps the
\* promise of BarrierQueue.
ChannelsPromise ==
  /\ \A c \in Channel : Queue(c)!Init
  /\ [][\A c \in Channel : Queue(c)!Next \/ UNCHANGED Queue(c)!vars]_vars

\* What the end of a simulation depends on: that a controller serves all it
\* has accepted again and again (Drains of ControllerProperties, which is
\* checked for traces of one kind), and that their refreshes, which come at
\* the same cycles, are now and then all done.
ChannelsDrain == \A c \in Channel : []<>(waiting[c] = {})
RefreshesDone == []<>(\A c \in Channel : ~ refreshing[c])

\* If controllers do their part the simulation ends: a full buffer of one
\* channel, which holds up the others, is filled again from the refused line
\* when it has emptied, and the main loop sees when nothing is left.
Terminates == ChannelsDrain /\ RefreshesDone => <>(phase = "exit")
=============================================================================
