---------------------------- MODULE SystemProofs ----------------------------
(***************************************************************************)
(* Proofs about the simulator around the controllers, for any traces, any  *)
(* number of channels and any sizes of the buffers.                        *)
(***************************************************************************)
EXTENDS SystemProperties, FiniteSetTheorems, TLAPS

-----------------------------------------------------------------------------
(* The mapper of the memory system undoes what the trace generators do     *)
(* when they compose an address.                                           *)

\* Low digit and rest of a number.
LEMMA Digits ==
  ASSUME NEW n \in Nat \ {0}, NEW a \in Nat, NEW b \in Nat, b < n
  PROVE  (a * n + b) \div n = a /\ (a * n + b) % n = b
OBVIOUS

\* A level is added to the ones above it.
LEMMA OneLevel ==
  ASSUME NEW v \in Nat, NEW n \in Nat, NEW above \in Nat, NEW size \in Nat
  PROVE  above * (n * size) + v * size = (above * n + v) * size
OBVIOUS

LEMMA SizesAreNumbers == \A l \in Levels : HBM_GS[l] \in Nat
<1> DEFINE row == Count[7] * PrefetchBytes
           ba == Count[6] * row
           bg == Count[5] * ba
           rank == Count[4] * bg
           pch == Count[3] * rank
           ch == Count[2] * pch
<1>1. \A a, b \in Nat : a * b \in Nat
  OBVIOUS
<1>2. (\A l \in Levels : Count[l] \in Nat) /\ PrefetchBytes \in Nat
  BY AddressAssumption
<1>3. HBM_GS = <<ch, pch, rank, bg, ba, row, PrefetchBytes>>
  BY DEF HBM_GS
<1>4. row \in Nat
  BY <1>1, <1>2 DEF Levels
<1> HIDE DEF row
<1>5. ba \in Nat
  BY <1>1, <1>2, <1>4 DEF Levels
<1> HIDE DEF ba
<1>6. bg \in Nat
  BY <1>1, <1>2, <1>5 DEF Levels
<1> HIDE DEF bg
<1>7. rank \in Nat
  BY <1>1, <1>2, <1>6 DEF Levels
<1> HIDE DEF rank
<1>8. pch \in Nat
  BY <1>1, <1>2, <1>7 DEF Levels
<1> HIDE DEF pch
<1>9. ch \in Nat
  BY <1>1, <1>2, <1>8 DEF Levels
<1> HIDE DEF ch
<1> QED BY <1>2, <1>3, <1>4, <1>5, <1>6, <1>7, <1>8, <1>9 DEF Levels

-----------------------------------------------------------------------------
(* An address is read from its highest level down: h2 to h7 are the index  *)
(* of the element of each level among all of its kind.                     *)

\* Whatever the sizes of the levels, as long as they are powers of two that
\* both tables agree on: the mapper finds the place that the generator meant,
\* whatever offset within a column access was added.
THEOREM ApplyInverts ==
  ASSUME PowersOfTwo, NEW v \in Vector, NEW offset \in 0 .. PrefetchBytes - 1
  PROVE  apply(Address(v, offset)) = v
<1> DEFINE h2 == v[1] * Count[2] + v[2]
           h3 == h2 * Count[3] + v[3]
           h4 == h3 * Count[4] + v[4]
           h5 == h4 * Count[5] + v[5]
           h6 == h5 * Count[6] + v[6]
           h7 == h6 * Count[7] + v[7]
<1>1. /\ \A l \in Levels : Count[l] \in Nat \ {0} /\ v[l] \in Nat /\ v[l] < Count[l]
      /\ PrefetchBytes \in Nat \ {0} /\ offset \in Nat /\ offset < PrefetchBytes
  BY AddressAssumption DEF Vector
<1>2. /\ h2 \in Nat /\ h3 \in Nat /\ h4 \in Nat /\ h5 \in Nat /\ h6 \in Nat /\ h7 \in Nat
  <2>1. \A a, b, c \in Nat : a * b + c \in Nat
    OBVIOUS
  <2>2. \A l \in Levels : Count[l] \in Nat /\ v[l] \in Nat
    BY <1>1
  <2>3. h2 \in Nat
    BY <2>1, <2>2 DEF Levels
  <2> HIDE DEF h2
  <2>4. h3 \in Nat
    BY <2>1, <2>2, <2>3 DEF Levels
  <2> HIDE DEF h3
  <2>5. h4 \in Nat
    BY <2>1, <2>2, <2>4 DEF Levels
  <2> HIDE DEF h4
  <2>6. h5 \in Nat
    BY <2>1, <2>2, <2>5 DEF Levels
  <2> HIDE DEF h5
  <2>7. h6 \in Nat
    BY <2>1, <2>2, <2>6 DEF Levels
  <2> HIDE DEF h6
  <2>8. h7 \in Nat
    BY <2>1, <2>2, <2>7 DEF Levels
  <2> QED BY <2>3, <2>4, <2>5, <2>6, <2>7, <2>8
<1>3. Address(v, offset) = h7 * PrefetchBytes + offset
  <2> DEFINE row == Count[7] * PrefetchBytes
             ba == Count[6] * row
             bg == Count[5] * ba
             rank == Count[4] * bg
             pch == Count[3] * rank
             ch == Count[2] * pch
  <2>1. Address(v, offset) =
          v[1] * ch + v[2] * pch + v[3] * rank + v[4] * bg + v[5] * ba + v[6] * row
            + v[7] * PrefetchBytes + offset
    BY DEF Address, HBM_GS
  <2>2. /\ row \in Nat /\ ba \in Nat /\ bg \in Nat /\ rank \in Nat /\ pch \in Nat /\ ch \in Nat
    <3>1. \A a, b \in Nat : a * b \in Nat
      OBVIOUS
    <3>2. \A l \in Levels : Count[l] \in Nat
      BY <1>1
    <3>3. row \in Nat
      BY <1>1, <3>1, <3>2 DEF Levels
    <3> HIDE DEF row
    <3>4. ba \in Nat
      BY <3>1, <3>2, <3>3 DEF Levels
    <3> HIDE DEF ba
    <3>5. bg \in Nat
      BY <3>1, <3>2, <3>4 DEF Levels
    <3> HIDE DEF bg
    <3>6. rank \in Nat
      BY <3>1, <3>2, <3>5 DEF Levels
    <3> HIDE DEF rank
    <3>7. pch \in Nat
      BY <3>1, <3>2, <3>6 DEF Levels
    <3> HIDE DEF pch
    <3>8. ch \in Nat
      BY <3>1, <3>2, <3>7 DEF Levels
    <3> QED BY <3>3, <3>4, <3>5, <3>6, <3>7, <3>8
  <2>3. ASSUME NEW l \in Levels, NEW above \in Nat, NEW size \in Nat
        PROVE  above * (Count[l] * size) + v[l] * size = (above * Count[l] + v[l]) * size
    BY <1>1, OneLevel
  <2>4. /\ 2 \in Levels /\ 3 \in Levels /\ 4 \in Levels /\ 5 \in Levels /\ 6 \in Levels /\ 7 \in Levels
        /\ v[1] \in Nat
    BY <1>1 DEF Levels
  <2>5. v[1] * ch + v[2] * pch = h2 * pch
    <3> HIDE DEF pch
    <3> QED BY Zenon, <2>2, <2>3, <2>4
  <2>6. h2 * pch + v[3] * rank = h3 * rank
    <3> HIDE DEF h2, rank
    <3> QED BY Zenon, <1>2, <2>2, <2>3, <2>4
  <2>7. h3 * rank + v[4] * bg = h4 * bg
    <3> HIDE DEF h3, bg
    <3> QED BY Zenon, <1>2, <2>2, <2>3, <2>4
  <2>8. h4 * bg + v[5] * ba = h5 * ba
    <3> HIDE DEF h4, ba
    <3> QED BY Zenon, <1>2, <2>2, <2>3, <2>4
  <2>9. h5 * ba + v[6] * row = h6 * row
    <3> HIDE DEF h5, row
    <3> QED BY Zenon, <1>2, <2>2, <2>3, <2>4
  <2>10. h6 * row + v[7] * PrefetchBytes = h7 * PrefetchBytes
    <3> HIDE DEF h6
    <3> QED BY Zenon, <1>1, <1>2, <2>3, <2>4
  <2> HIDE DEF row, ba, bg, rank, pch, ch, h2, h3, h4, h5, h6, h7
  <2> QED BY <2>1, <2>5, <2>6, <2>7, <2>8, <2>9, <2>10
<1>4. \A l \in Levels : 2 ^ m_addr_bits[l] = Count[l]
  BY DEF PowersOfTwo
<1>5. Address(v, offset) \div 2 ^ m_tx_offset = h7
  <2> HIDE DEF h7
  <2>1. (h7 * PrefetchBytes + offset) \div PrefetchBytes = h7
    BY <1>1, <1>2, Digits
  <2> QED BY <1>3, <2>1 DEF PowersOfTwo
<1>6. ASSUME NEW l \in Levels, NEW above \in Nat, NEW h, h = above * Count[l] + v[l]
      PROVE  rest(h, l) = above /\ lower_bits(h, l) = v[l]
  <2>1. /\ (above * Count[l] + v[l]) \div Count[l] = above
        /\ (above * Count[l] + v[l]) % Count[l] = v[l]
    BY <1>1, Digits
  <2> QED BY <1>4, <1>6, <2>1 DEF rest, lower_bits
<1>7. /\ rest(h7, 7) = h6 /\ lower_bits(h7, 7) = v[7]
      /\ rest(h6, 6) = h5 /\ lower_bits(h6, 6) = v[6]
      /\ rest(h5, 5) = h4 /\ lower_bits(h5, 5) = v[5]
      /\ rest(h4, 4) = h3 /\ lower_bits(h4, 4) = v[4]
      /\ rest(h3, 3) = h2 /\ lower_bits(h3, 3) = v[3]
      /\ rest(h2, 2) = v[1] /\ lower_bits(h2, 2) = v[2]
  <2>1. v[1] \in Nat /\ 2 \in Levels /\ 3 \in Levels /\ 4 \in Levels /\ 5 \in Levels
        /\ 6 \in Levels /\ 7 \in Levels
    BY <1>1 DEF Levels
  <2>2. rest(h7, 7) = h6 /\ lower_bits(h7, 7) = v[7]
    <3> HIDE DEF h6
    <3> QED BY <1>2, <1>6, <2>1
  <2>3. rest(h6, 6) = h5 /\ lower_bits(h6, 6) = v[6]
    <3> HIDE DEF h5
    <3> QED BY <1>2, <1>6, <2>1
  <2>4. rest(h5, 5) = h4 /\ lower_bits(h5, 5) = v[5]
    <3> HIDE DEF h4
    <3> QED BY <1>2, <1>6, <2>1
  <2>5. rest(h4, 4) = h3 /\ lower_bits(h4, 4) = v[4]
    <3> HIDE DEF h3
    <3> QED BY <1>2, <1>6, <2>1
  <2>6. rest(h3, 3) = h2 /\ lower_bits(h3, 3) = v[3]
    <3> HIDE DEF h2
    <3> QED BY <1>2, <1>6, <2>1
  <2>7. rest(h2, 2) = v[1] /\ lower_bits(h2, 2) = v[2]
    BY <1>6, <2>1
  <2> HIDE DEF h2, h3, h4, h5, h6, h7
  <2> QED BY <2>2, <2>3, <2>4, <2>5, <2>6, <2>7
<1>8. lower_bits(v[1], 1) = v[1]
  BY <1>1, <1>4 DEF lower_bits, Levels
<1> HIDE DEF h2, h3, h4, h5, h6, h7
<1>9. apply(Address(v, offset)) = <<v[1], v[2], v[3], v[4], v[5], v[6], v[7]>>
  BY <1>5, <1>7, <1>8 DEF apply
<1>10. v \in [1 .. 7 -> Nat]
  BY DEF Vector, Levels
<1> QED BY <1>9, <1>10

\* An offset that exceeds a column access reaches columns of the same row only.
THEOREM OffsetsStay ==
  ASSUME PowersOfTwo, NEW v \in Vector, NEW offset \in Nat, WithinRow(v, offset)
  PROVE  apply(Address(v, offset)) = Place(v, offset) /\ Place(v, offset) \in Vector
<1> DEFINE q == offset \div PrefetchBytes
           r == offset % PrefetchBytes
           w == Place(v, offset)
<1>1. /\ PrefetchBytes \in Nat \ {0} /\ offset \in Nat /\ Count[7] \in Nat \ {0}
      /\ v \in [Levels -> Nat] /\ 7 \in Levels /\ v[7] \in Nat
      /\ \A l \in Levels : v[l] < Count[l]
  BY AddressAssumption DEF Vector, Levels
<1>2. q \in Nat /\ r \in 0 .. PrefetchBytes - 1 /\ q * PrefetchBytes + r = offset
  <2>1. PrefetchBytes \in Nat \ {0} /\ offset \in Nat
    BY <1>1
  <2>2. q \in Nat /\ r \in 0 .. PrefetchBytes - 1
    BY <2>1
  <2>3. q * PrefetchBytes = offset - r
    BY <2>1
  <2> HIDE DEF q, r
  <2>4. q * PrefetchBytes \in Nat
    BY <2>1, <2>2
  <2> QED BY <2>1, <2>2, <2>3, <2>4
<1>3. w = [v EXCEPT ![7] = v[7] + q]
  BY <1>1 DEF Place
<1> HIDE DEF q, r
<1>4. v[7] + q < Count[7]
  <2>1. v[7] * PrefetchBytes + (q * PrefetchBytes + r) < Count[7] * PrefetchBytes
    BY <1>2 DEF WithinRow
  <2>2. (v[7] + q) * PrefetchBytes < Count[7] * PrefetchBytes
    BY <1>1, <1>2, <2>1
  <2> QED BY <1>1, <1>2, <2>2
<1>5. w \in Vector
  BY <1>1, <1>2, <1>3, <1>4 DEF Vector
<1>6. Address(v, offset) = Address(w, r)
  <2> DEFINE a == v[1] * HBM_GS[1] + v[2] * HBM_GS[2] + v[3] * HBM_GS[3] + v[4] * HBM_GS[4]
                    + v[5] * HBM_GS[5] + v[6] * HBM_GS[6]
  <2>1. /\ w[1] = v[1] /\ w[2] = v[2] /\ w[3] = v[3] /\ w[4] = v[4] /\ w[5] = v[5] /\ w[6] = v[6]
        /\ w[7] = v[7] + q
    BY <1>1, <1>3 DEF Levels
  <2>2. HBM_GS[7] = PrefetchBytes
    BY DEF HBM_GS
  <2>3. Address(v, offset) = a + v[7] * PrefetchBytes + offset
    BY <2>2 DEF Address
  <2>4. Address(w, r) = a + (v[7] + q) * PrefetchBytes + r
    BY <2>1, <2>2 DEF Address
  <2>5. a \in Nat
    <3>1. \A l \in 1 .. 6 : HBM_GS[l] \in Nat /\ v[l] \in Nat
      BY <1>1, SizesAreNumbers DEF Levels
    <3>2. \A x, y \in Nat : x * y \in Nat /\ x + y \in Nat
      OBVIOUS
    <3>3. /\ v[1] * HBM_GS[1] \in Nat /\ v[2] * HBM_GS[2] \in Nat /\ v[3] * HBM_GS[3] \in Nat
          /\ v[4] * HBM_GS[4] \in Nat /\ v[5] * HBM_GS[5] \in Nat /\ v[6] * HBM_GS[6] \in Nat
      BY <3>1, <3>2
    <3> QED BY <3>3
  <2> HIDE DEF a
  <2>6. (v[7] + q) * PrefetchBytes = v[7] * PrefetchBytes + q * PrefetchBytes
        /\ v[7] * PrefetchBytes \in Nat /\ q * PrefetchBytes \in Nat
    BY <1>1, <1>2
  <2> QED BY <1>2, <2>3, <2>4, <2>5, <2>6
<1>7. apply(Address(w, r)) = w
  BY <1>2, <1>5, ApplyInverts
<1> QED BY <1>5, <1>6, <1>7

-----------------------------------------------------------------------------
(* The request for the current line.                                       *)

\* Where the request for line k belongs.
PlaceOf(k) == Place(m_trace[k].at, m_trace[k].offset)

\* While lines are left, the current one is the next to be sent.
LEMMA CurrentRequest ==
  ASSUME PowersOfTwo, SystemAssumption, TypeOK, ~ is_finished
  PROVE  /\ m_curr_trace_idx = m_trace_count
         /\ m_trace_count + 1 \in 1 .. Len(m_trace)
         /\ m_trace[m_trace_count + 1] \in Line
         /\ Current = [id |-> m_trace_count + 1, line |-> m_trace_count + 1,
                       type |-> m_trace[m_trace_count + 1].type,
                       addr_vec |-> PlaceOf(m_trace_count + 1)]
         /\ Current \in Request
         /\ Current.addr_vec[1] = m_trace[m_trace_count + 1].at[1]
         /\ Current.addr_vec[1] \in Channel
<1> DEFINE n == m_trace_count
           t == m_trace[n + 1]
<1>1. /\ m_trace \in Seq(Line) /\ Len(m_trace) \in Nat /\ n \in Nat /\ n < Len(m_trace)
  BY DEF TypeOK, SystemAssumption, is_finished
<1>2. n + 1 \in 1 .. Len(m_trace)
  BY <1>1
<1>3. t \in Line
  BY <1>1, <1>2
<1>4. m_curr_trace_idx = n
  <2>1. m_trace # <<>>
    BY <1>1
  <2>2. n % Len(m_trace) = n
    BY <1>1
  <2> QED BY <2>1, <2>2 DEF TypeOK
<1>5. t.at \in Vector /\ t.offset \in Nat /\ WithinRow(t.at, t.offset) /\ t.type \in HostTypes \cup PimTypes
  BY <1>3 DEF Line
<1>6. apply(addr(n + 1)) = PlaceOf(n + 1) /\ PlaceOf(n + 1) \in Vector
  BY <1>5, OffsetsStay DEF addr, PlaceOf
<1>7. Current = [id |-> n + 1, line |-> n + 1, type |-> t.type, addr_vec |-> PlaceOf(n + 1)]
  BY <1>4, <1>6 DEF Current
<1>8. t.at[1] \in Channel
  <2>1. 1 \in Levels
    BY DEF Levels
  <2>2. t.at[1] \in Nat /\ t.at[1] < Count[1] /\ Count[1] \in Nat
    BY <1>5, <2>1, AddressAssumption DEF Vector
  <2> QED BY <2>2 DEF Channel
<1>9. Current \in Request
  BY <1>2, <1>5, <1>6, <1>7 DEF Request
<1>10. Current.addr_vec[1] = t.at[1]
  <2>1. 1 \in Levels /\ t.at \in [Levels -> Nat]
    BY <1>5 DEF Levels, Vector
  <2>2. PlaceOf(n + 1)[1] = t.at[1]
    BY <2>1 DEF PlaceOf, Place
  <2> QED BY <1>7, <2>2
<1> QED BY <1>2, <1>3, <1>4, <1>7, <1>8, <1>9, <1>10

-----------------------------------------------------------------------------
(* Well-formed states.                                                     *)

LEMMA SendLineType ==
  ASSUME PowersOfTwo, SystemAssumption, TypeOK, SendLine
  PROVE  TypeOK'
<1> DEFINE n == m_trace_count
<1>1. ~ is_finished /\ m_trace' = m_trace /\ served' = served /\ refreshing' = refreshing
      /\ send(Current) /\ advance(Current)
  BY DEF SendLine
<1>2. /\ n + 1 \in 1 .. Len(m_trace) /\ Current \in Request
      /\ Current.addr_vec[1] \in Channel /\ Current.type \in HostTypes \cup PimTypes
  BY <1>1, CurrentRequest DEF Request
<1>3. Request' = Request
  BY <1>1 DEF Request
<1>4. CASE Accepts(Current.addr_vec[1], Current)
  <2>1. /\ waiting' \in [Channel -> SUBSET Request]
        /\ moved' \in [Channel -> SUBSET Request]
        /\ \A c \in Channel : moved'[c] \subseteq {w \in waiting'[c] : w.type \in HostTypes}
    <3> DEFINE d == Current.addr_vec[1]
               r == Current
    <3>1. /\ waiting' = [waiting EXCEPT ![d] = @ \cup {r}]
          /\ moved' = IF Forwarded(d, r) THEN [moved EXCEPT ![d] = @ \cup {r}] ELSE moved
      BY <1>1, <1>4 DEF send
    <3>2. Forwarded(d, r) => r.type \in HostTypes
      BY DEF Forwarded, HostTypes
    <3>3. d \in Channel /\ r \in Request
      BY <1>2
    <3>4. /\ waiting \in [Channel -> SUBSET Request] /\ moved \in [Channel -> SUBSET Request]
          /\ \A c \in Channel : moved[c] \subseteq {w \in waiting[c] : w.type \in HostTypes}
      BY DEF TypeOK
    <3> HIDE DEF d, r
    <3>5. \A c \in Channel : waiting'[c] = IF c = d THEN waiting[c] \cup {r} ELSE waiting[c]
      BY <3>1, <3>4
    <3>6. \A c \in Channel : moved'[c] = IF c = d /\ Forwarded(d, r) THEN moved[c] \cup {r} ELSE moved[c]
      BY <3>1, <3>4
    <3>7. waiting' \in [Channel -> SUBSET Request]
      BY <3>1, <3>3, <3>4
    <3>8. moved' \in [Channel -> SUBSET Request]
      BY <3>1, <3>3, <3>4
    <3> QED BY <3>2, <3>4, <3>5, <3>6, <3>7, <3>8
  <2>2. stats' \in [HostTypes \cup PimTypes -> Nat]
    <3> DEFINE type == Current.type
    <3>1. stats' = Counted(type)
      BY <1>1, <1>4 DEF send
    <3>2. stats \in [HostTypes \cup PimTypes -> Nat]
      BY DEF TypeOK
    <3>3. type \in HostTypes \cup PimTypes
      BY <1>2
    <3> HIDE DEF type
    <3> QED BY <3>1, <3>2, <3>3 DEF Counted
  <2>3. /\ m_trace_count' = n + 1
        /\ m_curr_trace_idx' = (m_curr_trace_idx + 1) % Len(m_trace)
        /\ phase' = phase
    BY <1>1, <1>4 DEF advance
  <2>4. m_curr_trace_idx = n
    BY <1>1, CurrentRequest
  <2>5. m_trace # <<>> /\ Len(m_trace) \in Nat
    BY <1>2 DEF TypeOK, SystemAssumption
  <2>6. m_curr_trace_idx' = m_trace_count' % Len(m_trace)
    BY <2>3, <2>4
  <2> QED BY <1>1, <1>2, <1>3, <2>1, <2>2, <2>3, <2>5, <2>6 DEF TypeOK
<1>5. CASE ~ Accepts(Current.addr_vec[1], Current)
  <2>1. /\ waiting' = waiting /\ moved' = moved /\ stats' = stats /\ phase' = "memory"
        /\ m_trace_count' = m_trace_count /\ m_curr_trace_idx' = m_curr_trace_idx
    BY <1>1, <1>5 DEF send, advance
  <2> QED BY <1>1, <1>3, <2>1 DEF TypeOK
<1> QED BY <1>4, <1>5

\* What a memory tick does to each channel.
LEMMA TickLeaves ==
  ASSUME MemoryTick
  PROVE  \E leave : \A c \in Channel :
           /\ leave[c] \in Leaving(c)
           /\ waiting'[c] = waiting[c] \ leave[c]
           /\ served'[c] = served[c] \cup leave[c]
BY DEF MemoryTick

LEMMA MemoryTickType ==
  ASSUME SystemAssumption, TypeOK, MemoryTick
  PROVE  TypeOK'
<1>1. PICK leave, move :
        /\ \A c \in Channel : leave[c] \in Leaving(c) /\ move[c] \subseteq Moving(c)
        /\ waiting' = [c \in Channel |-> waiting[c] \ leave[c]]
        /\ moved' = [c \in Channel |-> (moved[c] \cup move[c]) \ leave[c]]
        /\ served' = [c \in Channel |-> served[c] \cup leave[c]]
  BY DEF MemoryTick
<1>2. \A c \in Channel : leave[c] \subseteq waiting[c]
  BY <1>1 DEF Leaving
<1>3. /\ waiting' \in [Channel -> SUBSET Request]
      /\ served' \in [Channel -> SUBSET Request]
      /\ refreshing' \in [Channel -> BOOLEAN]
  BY <1>1, <1>2 DEF TypeOK, MemoryTick
<1>4. /\ moved' \in [Channel -> SUBSET Request]
      /\ \A c \in Channel : moved'[c] \subseteq {w \in waiting'[c] : w.type \in HostTypes}
  <2>1. \A c \in Channel : move[c] \subseteq {w \in waiting[c] : w.type \in HostTypes}
    BY <1>1 DEF Moving
  <2> QED BY <1>1, <2>1 DEF TypeOK
<1>5. /\ phase' \in {"frontend", "memory", "exit"}
      /\ m_trace' = m_trace /\ m_curr_trace_idx' = m_curr_trace_idx
      /\ m_trace_count' = m_trace_count /\ stats' = stats
  BY DEF MemoryTick
<1>6. Request' = Request
  BY <1>5 DEF Request
<1> QED BY <1>3, <1>4, <1>5, <1>6 DEF TypeOK

LEMMA InitType ==
  ASSUME SystemAssumption, Init
  PROVE  TypeOK
<1>1. m_trace \in Seq(Line) /\ Len(m_trace) \in Nat
  BY DEF Init, SystemAssumption
<1>2. m_trace # <<>> => 0 % Len(m_trace) = 0
  BY <1>1
<1> QED BY <1>1, <1>2 DEF Init, TypeOK, SystemAssumption

LEMMA NextType ==
  ASSUME PowersOfTwo, SystemAssumption, TypeOK, [Next]_vars
  PROVE  TypeOK'
<1>1. CASE TraceSent
  BY <1>1 DEF TraceSent, TypeOK, Request, channels
<1>2. CASE UNCHANGED vars
  BY <1>2 DEF vars, TypeOK, Request, channels
<1> QED BY <1>1, <1>2, SendLineType, MemoryTickType DEF Next

-----------------------------------------------------------------------------
(* Where the lines are.                                                    *)

\* A request is the one for its line.
RequestOf(k) == [id |-> k, line |-> k, type |-> m_trace[k].type, addr_vec |-> PlaceOf(k)]

\* A channel has accepted the requests for its lines, and nothing else.
Placed ==
  \A c \in Channel :
    /\ Accepted(c) = {RequestOf(k) : k \in LinesOf(c, m_trace_count)}
    /\ waiting[c] \cap served[c] = {}

LEMMA InitPlaced ==
  ASSUME SystemAssumption, Init
  PROVE  Placed
<1>1. m_trace_count = 0 /\ \A c \in Channel : waiting[c] = {} /\ served[c] = {}
  BY DEF Init
<1>2. \A c \in Channel : LinesOf(c, m_trace_count) = {}
  BY <1>1 DEF LinesOf
<1> QED BY <1>1, <1>2 DEF Placed, Accepted

\* A line that is sent comes to its channel, which has not seen it before.
LEMMA SendLinePlaced ==
  ASSUME PowersOfTwo, SystemAssumption, TypeOK, Placed, SendLine
  PROVE  Placed'
<1> DEFINE n == m_trace_count
           d == m_trace[n + 1].at[1]
<1>1. ~ is_finished /\ m_trace' = m_trace /\ served' = served /\ send(Current) /\ advance(Current)
  BY DEF SendLine
<1>2. /\ Current = RequestOf(n + 1) /\ Current.addr_vec[1] = d /\ d \in Channel
  BY <1>1, CurrentRequest DEF RequestOf
<1>3. n \in Nat
  BY DEF TypeOK
<1>4. \A k : RequestOf(k)' = RequestOf(k)
  BY <1>1 DEF RequestOf, PlaceOf
<1>5. CASE Accepts(d, Current)
  <2>1. /\ waiting' = [waiting EXCEPT ![d] = @ \cup {RequestOf(n + 1)}]
        /\ m_trace_count' = n + 1
    BY <1>1, <1>2, <1>5 DEF send, advance
  <2> SUFFICES ASSUME NEW c \in Channel
               PROVE  /\ Accepted(c)' = {RequestOf(k) : k \in LinesOf(c, n + 1)}
                      /\ waiting'[c] \cap served'[c] = {}
    BY <1>4, <2>1, <1>1 DEF Placed, LinesOf
  <2>2. LinesOf(c, n + 1) = IF c = d THEN LinesOf(c, n) \cup {n + 1} ELSE LinesOf(c, n)
    BY <1>3 DEF LinesOf
  <2>3. waiting'[c] = IF c = d THEN waiting[c] \cup {RequestOf(n + 1)} ELSE waiting[c]
    BY <2>1 DEF TypeOK
  <2>4. Accepted(c)' = IF c = d THEN Accepted(c) \cup {RequestOf(n + 1)} ELSE Accepted(c)
    BY <1>1, <2>3 DEF Accepted
  <2>5. RequestOf(n + 1) \notin served[c]
    <3>1. \A k \in LinesOf(c, n) : RequestOf(k).line # RequestOf(n + 1).line
      BY <1>3 DEF LinesOf, RequestOf
    <3> QED BY <3>1 DEF Placed, Accepted
  <2> QED BY <1>1, <2>2, <2>3, <2>4, <2>5 DEF Placed
<1>6. CASE ~ Accepts(d, Current)
  <2>1. waiting' = waiting /\ m_trace_count' = m_trace_count
    BY <1>1, <1>2, <1>6 DEF send, advance
  <2> QED BY <1>1, <1>4, <2>1 DEF Placed, Accepted, LinesOf
<1> QED BY <1>5, <1>6

LEMMA TickPlaced ==
  ASSUME TypeOK, Placed, MemoryTick
  PROVE  Placed'
<1>1. PICK leave : \A c \in Channel :
        /\ leave[c] \in Leaving(c)
        /\ waiting'[c] = waiting[c] \ leave[c]
        /\ served'[c] = served[c] \cup leave[c]
  BY TickLeaves
<1>2. \A c \in Channel : leave[c] \subseteq waiting[c]
  BY <1>1 DEF Leaving
<1>3. m_trace' = m_trace /\ m_trace_count' = m_trace_count
  BY DEF MemoryTick
<1>4. \A c \in Channel : Accepted(c)' = Accepted(c) /\ waiting'[c] \cap served'[c] = {}
  BY <1>1, <1>2 DEF Accepted, Placed
<1> QED BY <1>3, <1>4 DEF Placed, LinesOf, RequestOf, PlaceOf

LEMMA NextPlaced ==
  ASSUME PowersOfTwo, SystemAssumption, TypeOK, Placed, [Next]_vars
  PROVE  Placed'
<1>1. CASE TraceSent
  BY <1>1 DEF TraceSent, channels, Placed, Accepted, LinesOf, RequestOf, PlaceOf
<1>2. CASE UNCHANGED vars
  BY <1>2 DEF vars, channels, Placed, Accepted, LinesOf, RequestOf, PlaceOf
<1> QED BY <1>1, <1>2, SendLinePlaced, TickPlaced DEF Next

\* The state is well-formed and every request is where it belongs.
Good == TypeOK /\ Placed

LEMMA GoodAlways ==
  ASSUME PowersOfTwo
  PROVE  Spec => []Good
<1>1. Init => Good
  BY SystemAssumption, InitType, InitPlaced DEF Good
<1>2. Good /\ [Next]_vars => Good'
  BY SystemAssumption, NextType, NextPlaced DEF Good
<1> QED BY <1>1, <1>2, PTL DEF Spec

\* The indices stay within the trace, the clocks of the channels within their
\* bound, and what a controller holds is a request for a line of the trace.
THEOREM WellFormed ==
  ASSUME PowersOfTwo
  PROVE  Spec => []TypeOK
BY GoodAlways, PTL DEF Good

\* Every line is sent to its channel once, whatever is refused and retried.
THEOREM EachLineOnce ==
  ASSUME PowersOfTwo
  PROVE  Spec => []SentOnce
<1>1. Good => SentOnce
  <2> SUFFICES ASSUME Good, NEW c \in Channel
               PROVE  /\ {r.line : r \in Accepted(c)} = LinesOf(c, m_trace_count)
                      /\ \A r, s \in Accepted(c) : r.line = s.line => r = s
                      /\ waiting[c] \cap served[c] = {}
    BY DEF SentOnce
  <2>1. Accepted(c) = {RequestOf(k) : k \in LinesOf(c, m_trace_count)}
    BY DEF Good, Placed
  <2>2. \A k : RequestOf(k).line = k
    BY DEF RequestOf
  <2> QED BY <2>1, <2>2 DEF Good, Placed
<1> QED BY <1>1, GoodAlways, PTL

\* Every request is where the trace generator meant it.
THEOREM PlacesRight ==
  ASSUME PowersOfTwo
  PROVE  Spec => []RightPlace
<1>1. Good => RightPlace
  BY DEF Good, Placed, RightPlace, RequestOf, PlaceOf
<1> QED BY <1>1, GoodAlways, PTL

-----------------------------------------------------------------------------
(* The phases of a trace.                                                  *)

LEMMA TickKeepsPhases ==
  ASSUME Good, PhasesKept, MemoryTick
  PROVE  PhasesKept'
<1>1. PICK leave : \A c \in Channel :
        /\ leave[c] \in Leaving(c)
        /\ waiting'[c] = waiting[c] \ leave[c]
        /\ served'[c] = served[c] \cup leave[c]
  BY TickLeaves
<1>2. m_trace' = m_trace
  BY DEF MemoryTick
<1> SUFFICES ASSUME NEW c \in Channel,
                    NEW i \in {r.line : r \in served'[c]},
                    NEW k \in LinesOf(c, i), NEW j \in LinesOf(c, i),
                    {m_trace[i].type, m_trace[j].type} \subseteq PimTypes,
                    m_trace[k].type = "PIM_BARRIER",
                    j <= k
             PROVE  j \in {r.line : r \in served'[c]}
  BY <1>2 DEF PhasesKept, LinesOf
<1>3. /\ m_trace_count \in Nat
      /\ Accepted(c) = {RequestOf(l) : l \in LinesOf(c, m_trace_count)}
      /\ leave[c] \subseteq waiting[c]
  BY <1>1 DEF Good, TypeOK, Placed, Leaving
<1>4. \A l : RequestOf(l).line = l /\ RequestOf(l).id = l /\ RequestOf(l).type = m_trace[l].type
  BY DEF RequestOf
<1>5. /\ i \in LinesOf(c, m_trace_count)
      /\ RequestOf(i) \in served[c] \cup leave[c]
  BY <1>1, <1>3, <1>4 DEF Accepted
<1>6. /\ i \in Nat /\ j \in Nat /\ k \in Nat /\ j <= i /\ k <= i
      /\ j \in LinesOf(c, m_trace_count) /\ k \in LinesOf(c, m_trace_count)
  BY <1>3, <1>5 DEF LinesOf
<1>7. /\ RequestOf(j) \in waiting[c] \cup served[c]
      /\ RequestOf(k) \in waiting[c] \cup served[c]
  BY <1>3, <1>6 DEF Accepted
\* A line that is served already has its earlier phases behind it.
<1>8. ASSUME NEW l \in LinesOf(c, i), RequestOf(l) \in served[c], m_trace[l].type \in PimTypes, k <= l
      PROVE  RequestOf(j) \in served[c]
  <2>1. k \in LinesOf(c, l) /\ j \in LinesOf(c, l)
    BY <1>6, <1>8 DEF LinesOf
  <2>2. l \in {r.line : r \in served[c]}
    BY <1>4, <1>8
  <2>3. j \in {r.line : r \in served[c]}
    BY <1>8, <2>1, <2>2 DEF PhasesKept
  <2> QED BY <1>3, <1>4, <2>3 DEF Accepted
<1>9. "PIM_BARRIER" \in PimTypes
  BY DEF PimTypes
\* Of two lines that a barrier orders, the later one leaves after the other.
<1>10. ASSUME NEW a \in LinesOf(c, i), NEW b \in LinesOf(c, i), a < b,
              RequestOf(b) \in leave[c], RequestOf(a) \in waiting[c],
              {m_trace[a].type, m_trace[b].type} \subseteq PimTypes,
              "PIM_BARRIER" \in {m_trace[a].type, m_trace[b].type}
       PROVE  RequestOf(a) \in leave[c]
  BY <1>1, <1>4, <1>10 DEF Behind, Leaving
<1>11. i \in LinesOf(c, i)
  BY <1>5, <1>6 DEF LinesOf
<1>12. RequestOf(j) \in served[c] \cup leave[c]
  <2>1. CASE RequestOf(i) \in served[c]
    BY <1>6, <1>8, <1>11, <2>1
  <2>2. CASE RequestOf(i) \in leave[c] /\ k = i
    <3>1. j < i \/ j = i
      BY <1>6
    <3> QED BY <1>7, <1>9, <1>10, <1>11, <2>2, <3>1
  <2>3. CASE RequestOf(i) \in leave[c] /\ k < i
    <3>1. CASE RequestOf(k) \in served[c]
      BY <1>6, <1>8, <1>9, <3>1
    <3>2. CASE RequestOf(k) \in waiting[c]
      <4>1. RequestOf(k) \in leave[c]
        BY <1>9, <1>10, <1>11, <2>3, <3>2
      <4>2. j < k \/ j = k
        BY <1>6
      <4> QED BY <1>7, <1>9, <1>10, <4>1, <4>2
    <3> QED BY <1>7, <3>1, <3>2
  <2> QED BY <1>5, <1>6, <2>1, <2>2, <2>3
<1> QED BY <1>1, <1>4, <1>12

\* No line is served before the lines of its channel that a barrier puts in
\* front of it, through frontend, back-pressure, mapper and controllers.
THEOREM PhasesInOrder ==
  ASSUME PowersOfTwo
  PROVE  Spec => []PhasesKept
<1>1. Init => PhasesKept
  BY DEF Init, PhasesKept
<1>2. Good /\ PhasesKept /\ [Next]_vars => PhasesKept'
  <2> SUFFICES ASSUME Good, PhasesKept, [Next]_vars PROVE PhasesKept'
    OBVIOUS
  <2>1. CASE SendLine \/ TraceSent \/ UNCHANGED vars
    <3>1. served' = served /\ m_trace' = m_trace
      BY <2>1 DEF SendLine, TraceSent, vars, channels
    <3> QED BY <3>1 DEF PhasesKept, LinesOf
  <2> QED BY <2>1, TickKeepsPhases DEF Next
<1> QED BY <1>1, <1>2, GoodAlways, PTL DEF Spec

-----------------------------------------------------------------------------
(* Every channel keeps the promise of its PIM buffer.                      *)

\* How BarrierQueue sees a request.
Entry(r) == [id |-> r.id, barrier |-> r.type = "PIM_BARRIER"]

LEMMA SendLineQueue ==
  ASSUME PowersOfTwo, SystemAssumption, Good, SendLine, NEW c \in Channel
  PROVE  Queue(c)!Next \/ UNCHANGED Queue(c)!vars
<1> DEFINE n == m_trace_count
           d == m_trace[n + 1].at[1]
           r == Current
<1>1. ~ is_finished /\ send(r) /\ advance(r) /\ TypeOK
  BY DEF SendLine, Good
<1>2. r.addr_vec[1] = d /\ d \in Channel /\ r.id = n + 1
  BY <1>1, CurrentRequest
<1> HIDE DEF r
<1>3. CASE ~ Accepts(d, r)
  <2>1. waiting' = waiting /\ n' = n
    BY <1>1, <1>2, <1>3 DEF send, advance
  <2>2. PimWaiting(c)' = PimWaiting(c)
    BY <2>1 DEF PimWaiting
  <2> QED BY <2>1, <2>2 DEF Queue!vars
<1>4. CASE Accepts(d, r)
  <2>1. waiting' = [waiting EXCEPT ![d] = @ \cup {r}] /\ n' = n + 1
    BY <1>1, <1>2, <1>4 DEF send, advance
  <2>2. waiting'[c] = IF c = d THEN waiting[c] \cup {r} ELSE waiting[c]
    BY <1>1, <2>1 DEF TypeOK
  <2>3. CASE c = d /\ r.type \in PimTypes
    <3>1. PimWaiting(c)' = PimWaiting(c) \cup {Entry(r)}
      BY <2>2, <2>3 DEF PimWaiting, Entry
    <3>2. PICK b \in BOOLEAN : b = (r.type = "PIM_BARRIER")
      OBVIOUS
    <3>3. Entry(r) = [id |-> n + 1, barrier |-> b]
      BY <1>2, <3>2 DEF Entry
    <3>4. Queue(c)!Submit(b)
      BY <2>1, <3>1, <3>3 DEF Queue!Submit
    <3> QED BY <3>2, <3>4 DEF Queue!Next
  <2>4. CASE ~ (c = d /\ r.type \in PimTypes)
    <3>1. PimWaiting(c)' = PimWaiting(c)
      BY <2>2, <2>4 DEF PimWaiting
    <3>2. Queue(c)!Skip
      BY <2>1, <3>1 DEF Queue!Skip
    <3> QED BY <3>2 DEF Queue!Next
  <2> QED BY <2>3, <2>4
<1> QED BY <1>3, <1>4

LEMMA TickQueue ==
  ASSUME Good, MemoryTick, NEW c \in Channel
  PROVE  Queue(c)!Next
<1>1. PICK leave :
        /\ leave[c] \in Leaving(c)
        /\ waiting'[c] = waiting[c] \ leave[c]
  BY TickLeaves
<1> DEFINE L == {r \in leave[c] : r.type \in PimTypes}
           D == {Entry(r) : r \in L}
<1>2. leave[c] \subseteq waiting[c]
  BY <1>1 DEF Leaving
\* The numbers of the requests tell them apart.
<1>3. \A r, s \in waiting[c] : Entry(r) = Entry(s) => r = s
  <2>1. \A r \in waiting[c] : \E k : r = RequestOf(k) /\ r.id = k
    BY DEF Good, Placed, Accepted, RequestOf
  <2>2. \A r, s \in waiting[c] : Entry(r) = Entry(s) => r.id = s.id
    BY DEF Entry
  <2> QED BY <2>1, <2>2
<1>4. PimWaiting(c) = {Entry(r) : r \in {w \in waiting[c] : w.type \in PimTypes}}
  BY DEF PimWaiting, Entry
<1>5. PimWaiting(c)' = PimWaiting(c) \ D
  <2>1. PimWaiting(c)' = {Entry(r) : r \in {w \in waiting[c] \ leave[c] : w.type \in PimTypes}}
    BY <1>1 DEF PimWaiting, Entry
  <2> QED BY <1>2, <1>3, <1>4, <2>1
<1>6. ASSUME NEW d \in D, NEW y \in PimWaiting(c), Queue(c)!Precedes(y, d)
      PROVE  y \in D
  <2>1. PICK r \in L : d = Entry(r)
    OBVIOUS
  <2>2. PICK w \in waiting[c] : w.type \in PimTypes /\ y = Entry(w)
    BY <1>4
  <2>3. w.id < r.id /\ (w.type = "PIM_BARRIER" \/ r.type = "PIM_BARRIER")
    BY <1>6, <2>1, <2>2 DEF Queue!Precedes, Entry
  <2>4. Behind(w, r)
    BY <2>2, <2>3 DEF Behind
  <2>5. w \in leave[c]
    BY <1>1, <2>4 DEF Leaving
  <2> QED BY <2>2, <2>5
<1>7. m_trace_count' = m_trace_count
  BY DEF MemoryTick
<1>8. Queue(c)!Retire(D)
  BY <1>5, <1>6, <1>7 DEF Queue!Retire
<1>9. D \in SUBSET PimWaiting(c)
  BY <1>2, <1>4
<1> QED BY <1>8, <1>9 DEF Queue!Next

\* The simulator around the controllers takes nothing of them but what
\* BarrierQueue promises: each channel is such a queue of its PIM requests.
THEOREM QueuesImplemented ==
  ASSUME PowersOfTwo
  PROVE  Spec => ChannelsPromise
<1> DEFINE Step == \A c \in Channel : Queue(c)!Next \/ UNCHANGED Queue(c)!vars
<1>1. Init => \A c \in Channel : Queue(c)!Init
  BY DEF Init, Queue!Init, PimWaiting
<1>2. Good /\ [Next]_vars => [Step]_vars
  <2> SUFFICES ASSUME Good, Next, NEW c \in Channel
               PROVE  Queue(c)!Next \/ UNCHANGED Queue(c)!vars
    OBVIOUS
  <2>1. CASE TraceSent
    <3>1. waiting' = waiting /\ m_trace_count' = m_trace_count
      BY <2>1 DEF TraceSent, channels
    <3>2. PimWaiting(c)' = PimWaiting(c)
      BY <3>1 DEF PimWaiting
    <3> QED BY <3>1, <3>2 DEF Queue!vars
  <2> QED BY <2>1, SystemAssumption, SendLineQueue, TickQueue DEF Next
<1> QED BY <1>1, <1>2, GoodAlways, PTL DEF Spec, ChannelsPromise

-----------------------------------------------------------------------------
(* The report at the end.                                                  *)

\* The lines of type t that have been sent, as far as they are counted.
Sent(t, n) == {k \in 1 .. n : m_trace[k].type = t /\ t # "PIM_BARRIER"}

\* The counters stand for the lines sent so far.
Counting == \A t \in HostTypes \cup PimTypes : stats[t] = Cardinality(Sent(t, m_trace_count))

\* The main loop has stopped only with the trace sent and nothing waiting.
Ended ==
  phase = "exit" => is_finished /\ \A c \in Channel : waiting[c] = {}

LEMMA SendLineCounting ==
  ASSUME PowersOfTwo, SystemAssumption, Good, Counting, SendLine
  PROVE  Counting'
<1> DEFINE n == m_trace_count
           d == m_trace[n + 1].at[1]
           r == Current
<1>1. ~ is_finished /\ send(r) /\ advance(r) /\ TypeOK /\ m_trace' = m_trace /\ n \in Nat
  BY DEF SendLine, Good, TypeOK
<1>2. r.addr_vec[1] = d /\ d \in Channel /\ r.type = m_trace[n + 1].type
      /\ r.type \in HostTypes \cup PimTypes
  BY <1>1, CurrentRequest DEF Request
<1> HIDE DEF r
<1>3. CASE ~ Accepts(d, r)
  <2>1. stats' = stats /\ n' = n
    BY <1>1, <1>2, <1>3 DEF send, advance
  <2> QED BY <1>1, <2>1 DEF Counting, Sent
<1>4. CASE Accepts(d, r)
  <2>1. stats' = Counted(r.type) /\ n' = n + 1
    BY <1>1, <1>2, <1>4 DEF send, advance
  <2> SUFFICES ASSUME NEW t \in HostTypes \cup PimTypes
               PROVE  stats'[t] = Cardinality(Sent(t, n + 1))
    BY <1>1, <2>1 DEF Counting, Sent
  <2>2. stats[t] = Cardinality(Sent(t, n)) /\ stats \in [HostTypes \cup PimTypes -> Nat]
    BY <1>1 DEF Counting, TypeOK
  <2>3. stats'[t] = IF t = r.type /\ t # "PIM_BARRIER" THEN stats[t] + 1 ELSE stats[t]
    BY <1>2, <2>1, <2>2 DEF Counted
  <2>4. CASE t = r.type /\ t # "PIM_BARRIER"
    <3>1. Sent(t, n + 1) = Sent(t, n) \cup {n + 1} /\ n + 1 \notin Sent(t, n)
      BY <1>1, <1>2, <2>4 DEF Sent
    <3>2. IsFiniteSet(Sent(t, n))
      <4>1. IsFiniteSet(1 .. n)
        BY <1>1, FS_Interval
      <4>2. Sent(t, n) \subseteq 1 .. n
        BY DEF Sent
      <4> QED BY <4>1, <4>2, FS_Subset
    <3>3. Cardinality(Sent(t, n) \cup {n + 1}) = Cardinality(Sent(t, n)) + 1
      BY <3>1, <3>2, FS_AddElement
    <3> QED BY <2>2, <2>3, <2>4, <3>1, <3>3
  <2>5. CASE ~ (t = r.type /\ t # "PIM_BARRIER")
    <3>1. Sent(t, n + 1) = Sent(t, n)
      BY <1>1, <1>2, <2>5 DEF Sent
    <3> QED BY <2>2, <2>3, <2>5, <3>1
  <2> QED BY <2>4, <2>5
<1> QED BY <1>2, <1>3, <1>4

LEMMA TickEnded ==
  ASSUME MemoryTick
  PROVE  Ended'
<1>1. /\ m_trace' = m_trace /\ m_trace_count' = m_trace_count
      /\ phase' = IF stops THEN "exit" ELSE "frontend"
  BY DEF MemoryTick
<1>2. CASE stops
  <2>1. is_finished'
    BY <1>1, <1>2 DEF stops, is_finished
  <2>2. \A c \in Channel : waiting'[c] = {}
    BY <1>2 DEF stops, is_pending
  <2> QED BY <2>1, <2>2 DEF Ended
<1> QED BY <1>1, <1>2 DEF Ended

\* What is reported at the end is about the whole trace: all its lines have
\* been served, and all but the barriers have been counted.
THEOREM ReportsWholeTrace ==
  ASSUME PowersOfTwo
  PROVE  Spec => []ReportComplete
<1> DEFINE Inv == Counting /\ Ended
<1>1. Init => Inv
  <2> SUFFICES ASSUME Init PROVE Inv
    OBVIOUS
  <2>1. \A t : Sent(t, 0) = {}
    BY DEF Sent
  <2> QED BY <2>1, FS_EmptySet DEF Init, Counting, Ended
<1>2. Good /\ Inv /\ [Next]_vars => Inv'
  <2> SUFFICES ASSUME Good, Inv, [Next]_vars PROVE Inv'
    OBVIOUS
  <2>1. CASE SendLine
    <3>1. phase = "frontend" /\ advance(Current)
      BY <2>1 DEF SendLine
    <3>2. phase' \in {phase, "memory"}
      <4>1. CASE Accepts(Current.addr_vec[1], Current)
        BY <3>1, <4>1 DEF advance
      <4>2. CASE ~ Accepts(Current.addr_vec[1], Current)
        BY <3>1, <4>2 DEF advance
      <4> QED BY <4>1, <4>2
    <3> QED BY <2>1, <3>1, <3>2, SystemAssumption, SendLineCounting DEF Ended
  <2>2. CASE TraceSent
    BY <2>2 DEF TraceSent, channels, Counting, Sent, Ended
  <2>3. CASE MemoryTick
    <3>1. m_trace' = m_trace /\ m_trace_count' = m_trace_count /\ stats' = stats
      BY <2>3 DEF MemoryTick
    <3>2. Counting'
      BY <3>1 DEF Counting, Sent
    <3> QED BY <2>3, <3>2, TickEnded
  <2>4. CASE UNCHANGED vars
    BY <2>4 DEF vars, channels, Counting, Sent, Ended, is_finished
  <2> QED BY <2>1, <2>2, <2>3, <2>4 DEF Next
<1>3. Good /\ Inv => ReportComplete
  <2> SUFFICES ASSUME Good, Inv, phase = "exit"
               PROVE  /\ \A c \in Channel : {r.line : r \in served[c]} = LinesOf(c, Len(m_trace))
                      /\ \A t \in HostTypes \cup PimTypes :
                           stats[t] = Cardinality({k \in DOMAIN m_trace :
                                                     m_trace[k].type = t /\ t # "PIM_BARRIER"})
    BY DEF ReportComplete
  <2>1. /\ m_trace \in Seq(Line) /\ m_trace_count = Len(m_trace)
        /\ \A c \in Channel : waiting[c] = {}
    BY SystemAssumption DEF Good, TypeOK, Ended, is_finished
  <2>2. ASSUME NEW c \in Channel
        PROVE  {r.line : r \in served[c]} = LinesOf(c, Len(m_trace))
    <3>1. served[c] = {RequestOf(k) : k \in LinesOf(c, Len(m_trace))}
      BY <2>1 DEF Good, Placed, Accepted
    <3>2. \A k : RequestOf(k).line = k
      BY DEF RequestOf
    <3> QED BY <3>1, <3>2
  <2>3. DOMAIN m_trace = 1 .. m_trace_count
    BY <2>1
  <2> QED BY <2>2, <2>3 DEF Counting, Sent
<1> QED BY <1>1, <1>2, <1>3, GoodAlways, PTL DEF Spec
=============================================================================
