---------------------------- MODULE RamulatorLog ----------------------------
(***************************************************************************)
(* The wrapper around the memory simulator.  For every attention layer a   *)
(* program asks for (output), it looks for a row in its copy of the log of *)
(* earlier simulations; without one it writes a configuration and a trace, *)
(* runs the simulator on them, removes both files and rewrites the log.    *)
(*                                                                         *)
(* Programs run side by side in one directory and share these files; the   *)
(* wrapper locks none.  The trace and the log are written in pieces; the   *)
(* small configuration is there at once.  A program may be killed between  *)
(* any two steps, and what it runs ends with it.  A simulation is known by *)
(* what it ran on.                                                         *)
(***************************************************************************)
EXTENDS Naturals, Sequences, SequencesExt, FiniteSetsExt

CONSTANTS Programs,
          Settings,    \* program -> what it may be started with
          num_hbm,
          minimum_heads,
          BufferRows,  \* how many rows of a table are written at a time
          MayFail,     \* the lengths where generator and simulator may fail
          MaxStarts,   \* bound: programs started
          MaxKills     \* bound: programs killed

PimTypes == {"bank", "bg", "buffer"}

Options == [pim_type : PimTypes, power_constraint : BOOLEAN, fast_mode : BOOLEAN,
            numOp : Nat, lengths : Seq(Nat),
            dhead : Nat,   \* of the model's description
            k : Nat]       \* of its layers: the columns over the heads

ASSUME LogAssumption ==
  /\ \A p \in Programs : Settings[p] \subseteq Options
  /\ {num_hbm, minimum_heads, BufferRows} \subseteq Nat \ {0}
  /\ {MaxStarts, MaxKills} \subseteq Nat
  /\ MayFail \subseteq Nat

Absent == [kind |-> "absent"]
Truncated == [kind |-> "truncated"]
Holds(content) == [kind |-> "holds", content |-> content]

VARIABLES
  yaml, trace,   \* file name -> the configuration and the trace it holds
  log,           \* the log file
  setting,       \* program -> what it was started with
  asked,         \* program -> how many of its layers it has asked for
  df,            \* program -> its copy of the log: a sequence of rows
  written,       \* program -> how many of its rows it has written back
  result,        \* program -> what its last simulation returned
  answer,        \* program -> the last answer of output
  pc,            \* program -> where it is
  first,         \* program -> whether it simulates because it has no rows at all
  starts, kills

files == <<yaml, trace, log>>
vars == <<files, setting, asked, df, written, result, answer, pc, first, starts, kills>>

-----------------------------------------------------------------------------
(* The layer a program asks for, and how the wrapper names it.             *)

ceil(a, b) == (a + b - 1) \div b
Length(p) == setting[p].lengths[asked[p]]

num_ops_per_hbm(s) == IF s.fast_mode THEN minimum_heads ELSE ceil(s.numOp, num_hbm)
num_ops_group(s) == IF s.fast_mode THEN ceil(ceil(s.numOp, num_hbm), minimum_heads) ELSE 1

\* The columns that identify a row, as run logs them (dbyte, which goes
\* wherever L goes, is left out).
Key(p) ==
  [L |-> Length(p), nhead |-> num_ops_per_hbm(setting[p]), dhead |-> setting[p].dhead,
   pim_type |-> setting[p].pim_type, power_constraint |-> setting[p].power_constraint]

\* And as output looks for them: with the head dimension of the layer, where
\* run takes that of the model's description.  MT-76B and MT-146B have two.
Wanted(p) == [Key(p) EXCEPT !.dhead = setting[p].k]

AllSettings == UNION {Settings[p] : p \in Programs}

\* Wrong: the power constraint is not part of it either; or the dimension.
file_name_NoConstraint(p) ==
  [L |-> Length(p), nhead |-> num_ops_per_hbm(setting[p]), dhead |-> setting[p].dhead,
   power_constraint |-> TRUE]
file_name_NoDhead(p) ==
  [L |-> Length(p), nhead |-> num_ops_per_hbm(setting[p]),
   dhead |-> CHOOSE d \in {s.dhead : s \in AllSettings} : TRUE,
   power_constraint |-> setting[p].power_constraint]

\* "attacc_l{}_nattn{}_dhead{}_dbyte{}_pc{}": the type is not part of it.
file_name(p) ==
  [L |-> Length(p), nhead |-> num_ops_per_hbm(setting[p]), dhead |-> setting[p].dhead,
   power_constraint |-> setting[p].power_constraint]

FileNames ==
  [L : UNION {ToSet(s.lengths) : s \in AllSettings},
   nhead : {num_ops_per_hbm(s) : s \in AllSettings},
   dhead : {s.dhead : s \in AllSettings},
   power_constraint : BOOLEAN]

\* What the simulator measures for a trace, or a part of it, and a power
\* constraint; a failed run is parsed like any other and counts nothing.
Measured(key) == [of |-> key, whole |-> TRUE]
MeasuredPart(key) == [of |-> key, whole |-> FALSE]
Nothing == [none |-> TRUE]

\* A row that was cut or written over in part.  It reads as other numbers, as
\* no number, or not at all.
Garbled == [garbled |-> TRUE]

Row(key, res) == [key |-> key, result |-> res]
Rows(d) == ToSet(d)
Content(file) == IF file.kind = "holds" THEN file.content ELSE <<>>

Init ==
  /\ yaml = [n \in FileNames |-> Absent]
  /\ trace = [n \in FileNames |-> Absent]
  /\ log = Absent
  /\ setting = [p \in Programs |-> Absent]
  /\ asked = [p \in Programs |-> 0]
  /\ df = [p \in Programs |-> <<>>]
  /\ written = [p \in Programs |-> 0]
  /\ result = [p \in Programs |-> Nothing]
  /\ answer = [p \in Programs |-> Absent]
  /\ pc = [p \in Programs |-> "off"]
  /\ first = [p \in Programs |-> FALSE]
  /\ starts = 0
  /\ kills = 0

-----------------------------------------------------------------------------
(* Begin and end of a program.                                             *)

\* What a program has in memory is gone with it.
End(p) ==
  /\ pc' = [pc EXCEPT ![p] = "off"]
  /\ setting' = [setting EXCEPT ![p] = Absent]
  /\ asked' = [asked EXCEPT ![p] = 0]
  /\ df' = [df EXCEPT ![p] = <<>>]
  /\ written' = [written EXCEPT ![p] = 0]
  /\ result' = [result EXCEPT ![p] = Nothing]
  /\ answer' = [answer EXCEPT ![p] = Absent]
  /\ first' = [first EXCEPT ![p] = FALSE]

\* The log is read when there is one; an empty file cannot be read, nor some
\* that hold garbled rows (it may not start then).
Start(p) ==
  /\ pc[p] = "off"
  /\ starts < MaxStarts
  /\ log # Truncated
  /\ \E s \in Settings[p] : setting' = [setting EXCEPT ![p] = s]
  /\ df' = [df EXCEPT ![p] = Content(log)]
  /\ pc' = [pc EXCEPT ![p] = "next"]
  /\ starts' = starts + 1
  /\ UNCHANGED <<files, asked, written, result, answer, first, kills>>

\* Wrong: one layer more than the model has.
HasNext_OneMore(p) == asked[p] <= Len(setting[p].lengths)

HasNext(p) == asked[p] < Len(setting[p].lengths)

\* The next layer of the model, until there is none.
Ask(p) ==
  /\ pc[p] = "next"
  /\ \/ /\ HasNext(p)
        /\ asked' = [asked EXCEPT ![p] = @ + 1]
        /\ pc' = [pc EXCEPT ![p] = IF df[p] = <<>> THEN "run" ELSE "lookup"]
        /\ first' = [first EXCEPT ![p] = df[p] = <<>>]
        /\ UNCHANGED <<setting, df, written, result, answer>>
     \/ /\ ~ HasNext(p)
        /\ End(p)
  /\ UNCHANGED <<files, starts, kills>>

Kill(p) ==
  /\ pc[p] # "off"
  /\ kills < MaxKills
  /\ kills' = kills + 1
  /\ End(p)
  /\ UNCHANGED <<files, starts>>

-----------------------------------------------------------------------------
(* output: the row is looked up.                                           *)

\* Accesses of all units for one command: per bank (2 * 2 * 4 * 4), per bank
\* group (2 * 2 * 4); of the buffer die by the lookup, which differs from run.
Units(s) == CASE s.pim_type = "bank" -> 64 [] s.pim_type = "bg" -> 16 [] OTHER -> 2
UnitsOfRun(s) == CASE s.pim_type = "bank" -> 64 [] s.pim_type = "bg" -> 16 [] OTHER -> 1

Answer(p, res, units, time) ==
  answer' = [answer EXCEPT ![p] =
    [kind |-> "answer", wanted |-> Wanted(p), result |-> res,
     mem_acc |-> units * num_ops_group(setting[p]), exec_time |-> time]]

\* Wrong: rows of any type.
Matches_AnyType(p, row) ==
  row # Garbled /\ row.key = [Wanted(p) EXCEPT !.pim_type = row.key.pim_type]

Matches(p, row) == row # Garbled /\ row.key = Wanted(p)

\* The first row that matches, or a simulation.  Garbled rows may spoil the
\* columns for all others, match any layer, or hold no number where one is
\* read, which ends the program.
Lookup(p) ==
  LET found == {i \in DOMAIN df[p] : Matches(p, df[p][i])}
      garbled == Garbled \in Rows(df[p])
      found_time == num_ops_group(setting[p])
  IN
  /\ pc[p] = "lookup"
  /\ \/ /\ found = {} \/ garbled
        /\ pc' = [pc EXCEPT ![p] = "run"]
        /\ first' = [first EXCEPT ![p] = FALSE]
        /\ UNCHANGED <<setting, asked, df, written, result, answer>>
     \/ /\ \E i \in found :
             /\ \A j \in found : i <= j
             /\ Answer(p, df[p][i].result, Units(setting[p]), found_time)
        /\ pc' = [pc EXCEPT ![p] = "next"]
        /\ UNCHANGED <<setting, asked, df, written, result, first>>
     \/ /\ garbled
        /\ Answer(p, Garbled, Units(setting[p]), found_time)
        /\ pc' = [pc EXCEPT ![p] = "next"]
        /\ UNCHANGED <<setting, asked, df, written, result, first>>
     \/ /\ garbled
        /\ End(p)
  /\ UNCHANGED <<files, starts, kills>>

-----------------------------------------------------------------------------
(* run: the steps of a simulation.  It is called for the first layer of a  *)
(* program without log (its answer is then looked up), or when the lookup  *)
(* finds no row (its own answer is returned).                              *)

Step(p, from, to) ==
  /\ pc[p] = from
  /\ pc' = [pc EXCEPT ![p] = to]

MakeYaml(p) ==
  /\ Step(p, "run", "generate")
  /\ yaml' = [yaml EXCEPT ![file_name(p)] = Holds([path |-> file_name(p),
                power_constraint |-> setting[p].power_constraint])]
  /\ UNCHANGED <<trace, log, setting, asked, df, written, result, answer, first, starts, kills>>

\* A trace is there in part until the generator has written all of it.
TraceOf(p, whole) ==
  Holds([L |-> Length(p), nhead |-> num_ops_per_hbm(setting[p]), dhead |-> setting[p].dhead,
         pim_type |-> setting[p].pim_type, whole |-> whole])

\* Nobody looks at how the generator ends: where it fails, the simulator runs
\* on what is there by that name.
OpenTrace(p) ==
  /\ \/ /\ Step(p, "generate", "make_trace")
        /\ trace' = [trace EXCEPT ![file_name(p)] = TraceOf(p, FALSE)]
     \/ /\ Step(p, "generate", "simulate")
        /\ Length(p) \in MayFail
        /\ UNCHANGED trace
  /\ UNCHANGED <<yaml, log, setting, asked, df, written, result, answer, first, starts, kills>>

GenerateTrace(p) ==
  /\ Step(p, "make_trace", "simulate")
  /\ \/ trace' = [trace EXCEPT ![file_name(p)] = TraceOf(p, TRUE)]
     \/ Length(p) \in MayFail /\ UNCHANGED trace
  /\ UNCHANGED <<yaml, log, setting, asked, df, written, result, answer, first, starts, kills>>

\* What the simulator finds in a configuration y and in the trace t.
Simulation(y, t) ==
  LET key == [L |-> t.L, nhead |-> t.nhead, dhead |-> t.dhead, pim_type |-> t.pim_type,
              power_constraint |-> y.power_constraint]
  IN IF t.whole THEN Measured(key) ELSE MeasuredPart(key)

\* The simulator reads the configuration and the trace it names.
Simulate(p) ==
  /\ Step(p, "simulate", "clean")
  /\ LET y == yaml[file_name(p)]
         t == IF y # Absent THEN trace[y.content.path] ELSE Absent
     IN \/ /\ Length(p) \in MayFail \/ t = Absent
           /\ result' = [result EXCEPT ![p] = Nothing]
        \/ /\ t # Absent
           /\ result' = [result EXCEPT ![p] = Simulation(y.content, t.content)]
  /\ UNCHANGED <<files, setting, asked, df, written, answer, first, starts, kills>>

\* rm of the trace, then rm of the configuration.
RemoveTrace(p) ==
  /\ Step(p, "clean", "clean_yaml")
  /\ trace' = [trace EXCEPT ![file_name(p)] = Absent]
  /\ UNCHANGED <<yaml, log, setting, asked, df, written, result, answer, first, starts, kills>>

RemoveYaml(p) ==
  /\ Step(p, "clean_yaml", "update")
  /\ yaml' = [yaml EXCEPT ![file_name(p)] = Absent]
  /\ UNCHANGED <<trace, log, setting, asked, df, written, result, answer, first, starts, kills>>

\* update_log_file: the own copy, or the log when there is none, with the new
\* row.  The file is opened, which empties it.  A program dies of an empty log
\* that it reads, and may of one with garbled rows.  (drop_duplicates: whole
\* rows that two writers left twice stay twice here, as a lookup takes the
\* first.)
UpdateLog(p) ==
  LET old == IF df[p] # <<>> THEN df[p] ELSE Content(log)
      row == Row(Key(p), result[p])
  IN \/ /\ df[p] # <<>> \/ log # Truncated
        /\ Step(p, "update", "write")
        /\ df' = [df EXCEPT ![p] = IF row \in Rows(old) THEN old ELSE Append(old, row)]
        /\ written' = [written EXCEPT ![p] = 0]
        /\ log' = Truncated
        /\ UNCHANGED <<yaml, trace, setting, asked, result, answer, first, starts, kills>>
     \/ /\ df[p] = <<>>
        /\ log = Truncated \/ Garbled \in Rows(Content(log))
        /\ pc[p] = "update"
        /\ End(p)
        /\ UNCHANGED <<files, starts, kills>>

\* The log as p has left it after n rows: the next one is cut.
Left(p, n) == SubSeq(df[p], 1, n) \o (IF n < Len(df[p]) THEN <<Garbled>> ELSE <<>>)

\* The log with rows from + 1 to to of p, at their place in the file.  What
\* others have written elsewhere stays; they may have cut the row p had begun,
\* and p cuts the one after its own.
Overlay(p, old, from, to) ==
  [i \in 1 .. Max({Len(old), to + (IF to < Len(df[p]) THEN 1 ELSE 0)}) |->
     CASE i \in from + 1 .. to /\ (i > from + 1 \/ from = 0 \/ old = Left(p, from)) -> df[p][i]
       [] i \in DOMAIN old /\ (i <= from \/ i > to + 1) -> old[i]
       [] OTHER -> Garbled]

\* to_csv: the next rows are written, and with the last of them the file is
\* closed.
WriteLog(p) ==
  LET to == Min({written[p] + BufferRows, Len(df[p])}) IN
  /\ log' = Holds(Overlay(p, Content(log), written[p], to))
  /\ written' = [written EXCEPT ![p] = to]
  /\ \/ /\ to < Len(df[p])
        /\ Step(p, "write", "write")
        /\ UNCHANGED answer
     \/ /\ to = Len(df[p]) /\ first[p]
        /\ Step(p, "write", "lookup")
        /\ UNCHANGED answer
     \/ /\ to = Len(df[p]) /\ ~ first[p]
        /\ Step(p, "write", "next")
        /\ Answer(p, result[p], UnitsOfRun(setting[p]), 1)
  /\ UNCHANGED <<yaml, trace, setting, asked, df, result, first, starts, kills>>

Next ==
  \E p \in Programs :
    \/ Start(p) \/ Ask(p) \/ Kill(p) \/ Lookup(p)
    \/ MakeYaml(p) \/ OpenTrace(p) \/ GenerateTrace(p) \/ Simulate(p)
    \/ RemoveTrace(p) \/ RemoveYaml(p) \/ UpdateLog(p) \/ WriteLog(p)

Spec == Init /\ [][Next]_vars
=============================================================================
