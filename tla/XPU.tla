-------------------------------- MODULE XPU --------------------------------
(***************************************************************************)
(* GPUs and CPUs: the search for the tiles in which a matrix product is    *)
(* computed, and the traffic that follows from them.  A tile is <<tm, tn>>.*)
(***************************************************************************)
EXTENDS Transformer

CONSTANTS trange,      \* sides of L1 tiles that are tried
          l1_tk,       \* depth of an L1 tile
          l2_split,    \* an L2 tile has the depth k / l2_split
          Config       \* device -> [num_core, l1_cache_size, l2_cache_size]

xPUs == {"GPU", "CPU"}

\* The smallest tile fits any cache.
ASSUME TileAssumption ==
  /\ dbyte \in {1, 2}
  /\ trange \subseteq Nat \ {0}
  /\ {l1_tk, l2_split} \subseteq Nat \ {0}
  /\ \A d \in xPUs : Config[d] \in [num_core : Nat \ {0}, l1_cache_size : Nat, l2_cache_size : Nat]
  /\ \A d \in xPUs : \E s \in trange :
       2 * s * l1_tk * dbyte + s * s * dbyte <= Config[d].l1_cache_size

ceil(a, b) == (a + b - 1) \div b

\* Bytes that are fetched and stored when x is computed in tiles t.
traffic_for_tile(t, x) ==
  (ceil(x.n, t[2]) * x.m * x.k + ceil(x.m, t[1]) * x.n * x.k + x.m * x.n) * dbyte * x.numOp

num_threadblock(t, x) ==
  IF x.type = "FC" THEN ceil(x.m, t[1]) * ceil(x.n, t[2]) * x.numOp ELSE x.numOp

\* The loops try small sides first, those of the rows in the outer loop, and
\* keep the first of the cheapest tiles.  A tile comes with its cost, which is
\* a fraction <<a, b>>.
Before(t, u) == t[1] < u[1] \/ (t[1] = u[1] /\ t[2] < u[2])
Less(c, e) == c[1] * e[2] < e[1] * c[2]
FirstBest(costs) ==
  LET best == CHOOSE c \in costs :
                \A e \in costs \ {c} : Less(c[2], e[2]) \/ (Before(c[1], e[1]) /\ ~ Less(e[2], c[2]))
  IN best[1]

\* Traffic over the square of the share of cores in use.
l1_cost(d, x, t) ==
  LET used == num_threadblock(t, x)
      slots == ceil(used, Config[d].num_core) * Config[d].num_core
  IN <<traffic_for_tile(t, x) * slots * slots, used * used>>

l1_tile(d, x) ==
  LET cut(limit) == {Min({s, limit}) : s \in trange}
      Fits(t) == (t[1] + t[2]) * l1_tk * dbyte + t[1] * t[2] * dbyte <= Config[d].l1_cache_size
  IN FirstBest({<<t, l1_cost(d, x, t)>> : t \in {u \in cut(x.m) \X cut(x.n) : Fits(u)}})

l2_fits(d, x, l1, t) ==
  \/ (t[1] + t[2]) * x.k * dbyte + t[1] * t[2] * dbyte * l2_split
       <= Config[d].l2_cache_size * l2_split
  \/ t = l1

\* Multiples of the L1 tile, and the whole matrix.
l2_sides(limit, side) == {side * i : i \in 1 .. limit \div side} \cup {limit}

l2_tile(d, x, l1) ==
  LET candidates == l2_sides(x.m, l1[1]) \X l2_sides(x.n, l1[2]) IN
  FirstBest({<<t, <<traffic_for_tile(t, x), 1>>>> : t \in {u \in candidates : l2_fits(d, x, l1, u)}})

optimal_tile(d, x) ==
  LET l1 == l1_tile(d, x) IN [l1 |-> l1, l2 |-> l2_tile(d, x, l1)]

\* Wrong: the table of tiles is kept without the number of columns.
TileKey_NoColumns(x) == <<x.m, x.k, x.numOp>>

\* Tiles are remembered by the sizes of a layer; its type is no part of the key.
TileKey(x) == <<x.m, x.n, x.k, x.numOp>>

\* The table of a device after it has been asked for the tiles of x.
Remember(table, d, x) ==
  [key \in DOMAIN table \cup {TileKey(x)} |->
     IF key \in DOMAIN table THEN table[key] ELSE optimal_tile(d, x)]

\* Bytes from and to the memory for x, computed with a tile of the table.
off_traffic(tile, x) ==
  IF x.type \in {"FC", "MATMUL"} THEN traffic_for_tile(tile.l2, x)
  ELSE get_size(x)[1] + get_size(x)[2] + get_size(x)[3]
=============================================================================
