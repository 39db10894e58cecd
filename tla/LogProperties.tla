--------------------------- MODULE LogProperties ---------------------------
(***************************************************************************)
(* What a program relies on when it takes results from the log.            *)
(***************************************************************************)
EXTENDS RamulatorLog

Steps == {"run", "generate", "make_trace", "simulate", "clean", "clean_yaml",
          "update", "write"}

Keys ==
  [L : UNION {ToSet(s.lengths) : s \in AllSettings},
   nhead : {num_ops_per_hbm(s) : s \in AllSettings},
   dhead : {s.dhead : s \in AllSettings},
   pim_type : PimTypes, power_constraint : BOOLEAN]
Results == {Measured(k) : k \in Keys} \cup {MeasuredPart(k) : k \in Keys} \cup {Nothing}
AnyRow == [key : Keys, result : Results] \cup {Garbled}

\* What the programs and the files may hold: a running program has settings, a
\* layer while it works on one, and writes no more rows than it has.
TypeOK ==
  /\ \A n \in FileNames :
       yaml[n].kind \in {"absent", "holds"} /\ trace[n].kind \in {"absent", "holds"}
  /\ log \in {Absent, Truncated} \/ (log.kind = "holds" /\ ToSet(log.content) \subseteq AnyRow)
  /\ \A p \in Programs :
       /\ pc[p] \in {"off", "next", "lookup"} \cup Steps
       /\ setting[p] \in Settings[p] \cup {Absent}
       /\ pc[p] # "off" => setting[p] # Absent /\ asked[p] \in 0 .. Len(setting[p].lengths)
       /\ pc[p] \notin {"off", "next"} => asked[p] # 0
       /\ ToSet(df[p]) \subseteq AnyRow
       /\ pc[p] = "write" => written[p] \in 0 .. Len(df[p]) - 1
       /\ result[p] \in Results
       /\ first[p] \in BOOLEAN
  /\ starts \in 0 .. MaxStarts /\ kills \in 0 .. MaxKills

-----------------------------------------------------------------------------
\* The temporary files of a simulation, and whether two programs may come to
\* use the same ones.
NameOf(key) ==
  [L |-> key.L, nhead |-> key.nhead, dhead |-> key.dhead, power_constraint |-> key.power_constraint]

MayUse(p, n) ==
  \E s \in Settings[p] :
    /\ n.L \in ToSet(s.lengths)
    /\ n.nhead = num_ops_per_hbm(s)
    /\ n.dhead = s.dhead
    /\ n.power_constraint = s.power_constraint

Shared(n) == \E p, q \in Programs : p # q /\ MayUse(p, n) /\ MayUse(q, n)

\* The whole rows, in the log and in the copies.
WholeRows ==
  (Rows(Content(log)) \cup UNION {Rows(df[p]) : p \in Programs}) \ {Garbled}

\* No two programs share its files, and generator and simulator work for it.
Safe(key) == ~ Shared(NameOf(key)) /\ key.L \notin MayFail

\* A row of a safe configuration holds what the simulator measures for just
\* that: whatever happens to the files of others, however the writes of the log
\* overlap, and whatever a killed program left behind.
LogSound ==
  \A row \in WholeRows : Safe(row.key) => row.result = Measured(row.key)

\* And where they do share files, or the generator or the simulator fails: a
\* row has nothing, or is measured for its own length, heads and constraint.
\* Only the type of the units may be another, or the trace not whole.
RowsOfName ==
  \A row \in WholeRows :
    row.result # Nothing => NameOf(row.result.of) = NameOf(row.key)

\* A failed simulation ends the program ("assert 0"): no row is without result.
RowsMeasured ==
  \A row \in WholeRows : row.result # Nothing

\* The units are in the banks or bank groups, and fast mode is off, as in the
\* code: elsewhere run and output count differently.
CountsAlike(s) == ~ s.fast_mode /\ s.pim_type # "buffer"

\* What is simulated for a layer that is wanted.
Simulated(s, wanted) == [wanted EXCEPT !.dhead = s.dhead]

\* An answer from a copy without garbled rows, of a safe configuration, is the
\* measurement of the layer that was asked for; only where the model's
\* description and its layers have two head dimensions it may be that of the
\* description.  It counts the same whether it was simulated now or found in
\* the log (where both count alike).
AnswerRight ==
  \A p \in Programs :
    LET a == answer[p]  s == setting[p] IN
    a # Absent =>
      /\ \/ Garbled \in Rows(df[p])
         \/ ~ Safe(a.wanted) \/ ~ Safe(Simulated(s, a.wanted))
         \/ a.result = Measured(a.wanted)
         \/ s.dhead # s.k /\ a.result = Measured(Simulated(s, a.wanted))
      /\ CountsAlike(s) =>
           a.mem_acc = Units(s) * num_ops_group(s) /\ a.exec_time = num_ops_group(s)
=============================================================================
