---------------------------- MODULE AddressMapper ----------------------------
(***************************************************************************)
(* Addresses of the traces.  The trace generators compose an address from  *)
(* the sizes of their HBM_GS table; the mapper of the memory system takes  *)
(* it apart again by shifts and masks.  The two share no code: they agree  *)
(* as long as their tables describe the same organization.                 *)
(***************************************************************************)
EXTENDS Naturals, Sequences

CONSTANTS Count,         \* how many there are of each level, from channel to column
          PrefetchBytes  \* bytes of one column access

Levels == 1 .. 7  \* channel, pseudochannel, rank, bankgroup, bank, row, column

ASSUME AddressAssumption ==
  /\ Count \in [Levels -> Nat \ {0}]
  /\ PrefetchBytes \in Nat \ {0}

\* A place in the memory: an index on every level.
Vector == {v \in [Levels -> Nat] : \A l \in Levels : v[l] < Count[l]}

-----------------------------------------------------------------------------
(* The side of the trace generators.                                       *)

\* The bytes of one element of a level.
HBM_GS ==
  LET col  == PrefetchBytes
      row  == Count[7] * col
      ba   == Count[6] * row
      bg   == Count[5] * ba
      rank == Count[4] * bg
      pch  == Count[3] * rank
      ch   == Count[2] * pch
  IN <<ch, pch, rank, bg, ba, row, col>>

\* addr = lch * HBM_GS['ch'] + rank * HBM_GS['rank'] + ... + offset
Address(v, offset) ==
  v[1] * HBM_GS[1] + v[2] * HBM_GS[2] + v[3] * HBM_GS[3] + v[4] * HBM_GS[4]
    + v[5] * HBM_GS[5] + v[6] * HBM_GS[6] + v[7] * HBM_GS[7] + offset

\* Where an address is.  The generators add the index of an entry of a buffer
\* as an offset, which may exceed a column access: it goes on in the columns
\* behind (gen_trace_attacc_buffer.py, for more than 1024 positions).
Place(v, offset) == [v EXCEPT ![7] = @ + offset \div PrefetchBytes]

\* The offset stays within the row.
WithinRow(v, offset) == v[7] * PrefetchBytes + offset < Count[7] * PrefetchBytes

-----------------------------------------------------------------------------
(* The side of the memory system.                                          *)

calc_log2(n) == CHOOSE k \in 0 .. n : 2 ^ k <= n /\ n < 2 ^ (k + 1)

m_addr_bits == [l \in Levels |-> calc_log2(Count[l])]
m_tx_offset == calc_log2(PrefetchBytes)

\* Wrong: the order of the levels of HBM3-PIM-Custom (channel lowest).
apply_Custom(addr) ==
  LET below(l) == IF l = 1 THEN 7 ELSE l - 1
      rest[k \in Levels] ==
        IF k = 1 THEN addr \div 2 ^ m_tx_offset
        ELSE IF k = 2 THEN rest[1] \div 2 ^ m_addr_bits[1]
        ELSE rest[k - 1] \div 2 ^ m_addr_bits[10 - k]
  IN [l \in Levels |-> (IF l = 1 THEN rest[1] ELSE rest[9 - l]) % 2 ^ m_addr_bits[l]]

\* Columns first, then rows, up to the channel: slice_lower_bits takes the low
\* bits of what is left of the address and shifts them out.
lower_bits(addr, l) == addr % 2 ^ m_addr_bits[l]
rest(addr, l) == addr \div 2 ^ m_addr_bits[l]

apply(addr) ==
  LET co  == addr \div 2 ^ m_tx_offset
      ro  == rest(co, 7)
      ba  == rest(ro, 6)
      bg  == rest(ba, 5)
      ra  == rest(bg, 4)
      pch == rest(ra, 3)
      ch  == rest(pch, 2)
  IN <<lower_bits(ch, 1), lower_bits(pch, 2), lower_bits(ra, 3), lower_bits(bg, 4),
       lower_bits(ba, 5), lower_bits(ro, 6), lower_bits(co, 7)>>

\* Every level, and a column access, has a size that the bits represent.
PowersOfTwo ==
  /\ \A l \in Levels : 2 ^ m_addr_bits[l] = Count[l]
  /\ 2 ^ m_tx_offset = PrefetchBytes
=============================================================================
