------------------------ MODULE ControllerProperties ------------------------
(***************************************************************************)
(* What the HBM3-PIM controller is relied upon for.                        *)
(***************************************************************************)
EXTENDS HBM3PIMController

\* The requests waiting in buffer b.
Waiting(b) == ToSet(buffer[b])

-----------------------------------------------------------------------------
(* Safety.                                                                 *)

\* A bank never has two rows open: the broadcast activations and precharges
\* of the PIM commands agree on the banks they reach.  (The action functions
\* insert into m_row_state without looking at what it holds.)
SingleRow == \A b \in Bank : \A x, y \in row_state[b] : x = y

\* Where a request may be, and the indices at which request number n is there.
Place == Buffers \cup {"pending", "done"}
Found(n, p) ==
  CASE p = "pending" -> {k \in DOMAIN pending : pending[k].id = n}
    [] p = "done"    -> {n} \cap done
    [] OTHER         -> {k \in DOMAIN buffer[p] : buffer[p][k].id = n}

\* An accepted request is never lost and never duplicated by the moves between
\* the buffers: it is once in one buffer, waits to depart or is done, and is
\* nowhere else.
Conservation ==
  \A n \in 1 .. sent : \E p \in Place :
    /\ \E k \in Found(n, p) : Found(n, p) = {k}
    /\ \A q \in Place \ {p} : Found(n, q) = {}

\* While a refresh waits, a row is opened only for a request that was active
\* already: neither slot starts new row activity behind the refresh's back.
RefreshHoldsRows ==
  [][buffer["priority"] # <<>> =>
       \A b \in Bank : \A row \in row_state'[b] \ row_state[b] :
         \E r \in Waiting("active") : r.bank = b /\ r.row = row]_vars

\* A bank an active request is addressed to is closed by a refresh alone: the
\* check of step 2.3 and 5.3 protects the row an activation was spent on.
ActiveRowKept ==
  [][\A b \in Bank :
       row_state[b] # {} /\ row_state'[b] = {} =>
         \/ buffer["priority"] # <<>>
         \/ \A r \in Waiting("active") : r.bank # b]_vars

\* The requests of the PIM buffer that could use the rows as they are.
Hits == {r \in Waiting("pim") : r.cmd \in MacCommands /\ Command(r) = r.cmd}

\* A MAC of the PIM buffer that hits loses its rows to a refresh or to an older
\* request, never to a younger one (the purpose of rowhit_list).
NoYoungerConflict ==
  [][\A h \in Hits :
       get_preq_command(row_state', h) # h.cmd /\ buffer["priority"] = <<>> =>
         \E r \in Waiting("pim") : r.id < h.id /\ Command(r) \in Closing]_vars

\* The requests of buffer q as module BarrierQueue sees them.
Seen(r) == [id |-> r.id, barrier |-> r.cmd = "BARRIER"]
AsBarrierQueue(q) == {Seen(r) : r \in ToSet(q)}

Promise == INSTANCE BarrierQueue WITH
  waiting <- AsBarrierQueue(buffer["pim"]), last <- sent

\* The PIM buffer does what BarrierQueue promises: whatever the scheduler
\* reorders, and whatever is dropped or prefetched around it, no request
\* passes a PIM_BARRIER.
BarrierOrder == Promise!Spec

-----------------------------------------------------------------------------
(* Liveness, under the fairness of the main loop.                          *)

\* Every accepted request is eventually done: no request blocks itself or
\* another one for ever.  At most MaxReqs come, so this means that again and
\* again, and in the end for good, nothing is left to do.
Drains == []<>(done = 1 .. sent)

\* A refresh is not put off for ever.
RefreshServed == buffer["priority"] # <<>> ~> buffer["priority"] = <<>>

-----------------------------------------------------------------------------
(* What comments of the code say of it, and TLC refutes.                   *)

\* "Same-Bank Actions" (HBM3-PIM.cpp:516): with MACSB traffic alone, the banks
\* a same-bank command reaches always have the same rows open.
SameBanksAgree == \A b \in Bank : \A c \in SameBanks(b) : row_state[b] = row_state[c]
=============================================================================
