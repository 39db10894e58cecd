------------------------------ MODULE MCSystem ------------------------------
(***************************************************************************)
(* Two channels of one bank group with two banks of two rows.              *)
(***************************************************************************)
EXTENDS SystemProperties

MCCount == <<2, 1, 1, 1, 2, 2, 2>>

\* A line for channel c, bank b, row r.
For(c, type, b, r) == [type |-> type, at |-> <<c, 0, 0, 0, b, r, 1>>, offset |-> 0]

\* An entry of the buffer of channel c: its index is below the granularity of a
\* column for one, and reaches the next column for the other.
Write(c) == [For(c, "PIM_WR_GB", 1, 0) EXCEPT !.at[7] = 0, !.offset = IF c = 0 THEN 3 ELSE 6]
Bars == <<For(0, "PIM_BARRIER", 0, 0), For(1, "PIM_BARRIER", 0, 0)>>
Macs(r) == <<For(0, "PIM_MAC_AB", 0, r), For(1, "PIM_MAC_AB", 0, r)>>

\* Both channels in step; one channel ahead of the other; loads and stores
\* beside PIM requests; a load of what is about to be stored; no line at all.
MCTraces ==
  {<<Write(0), Write(1)>> \o Bars \o Macs(0) \o Bars \o Macs(1),
   <<Write(0), For(0, "PIM_BARRIER", 0, 0), For(0, "PIM_MAC_AB", 1, 1),
     For(0, "PIM_BARRIER", 0, 0), Write(1), For(0, "PIM_SFM", 0, 0), For(1, "PIM_MV_GB", 0, 0)>>,
   <<For(1, "LD", 0, 1), For(1, "ST", 1, 1), For(1, "LD", 1, 0),
     For(1, "PIM_MAC_AB", 0, 0), For(1, "PIM_BARRIER", 0, 0), For(1, "PIM_MV_SB", 1, 0)>>,
   <<For(1, "LD", 0, 1), For(1, "LD", 1, 1), For(1, "ST", 0, 0), For(1, "LD", 0, 0), For(0, "LD", 0, 0)>>,
   <<>>}

\* What the proofs about this system assume of the tables holds of these.
ASSUME MCPowersOfTwo == PowersOfTwo
=============================================================================
