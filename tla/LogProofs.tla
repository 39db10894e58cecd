----------------------------- MODULE LogProofs -----------------------------
(***************************************************************************)
(* Proofs about the log of simulations, for any number of programs, starts *)
(* and kills, any layers and any number of stacks.                         *)
(***************************************************************************)
EXTENDS LogProperties, SequenceTheorems, TLAPS

\* Each program has a value of its own in every table.
Shape ==
  /\ DOMAIN yaml = FileNames /\ DOMAIN trace = FileNames
  /\ DOMAIN setting = Programs /\ DOMAIN asked = Programs /\ DOMAIN df = Programs
  /\ DOMAIN written = Programs /\ DOMAIN result = Programs /\ DOMAIN answer = Programs
  /\ DOMAIN pc = Programs /\ DOMAIN first = Programs

LEMMA InitShape == Init => Shape
BY DEF Init, Shape

LEMMA NextShape == Shape /\ [Next]_vars => Shape'
<1> SUFFICES ASSUME Shape, [Next]_vars PROVE Shape'
  OBVIOUS
<1>1. CASE UNCHANGED vars
  BY <1>1 DEF Shape, vars, files
<1>2. ASSUME NEW p \in Programs, Start(p) \/ Ask(p) \/ Kill(p) \/ Lookup(p) PROVE Shape'
  BY <1>2 DEF Shape, Start, Ask, Kill, Lookup, Answer, End, files
<1>3. ASSUME NEW p \in Programs, MakeYaml(p) \/ Simulate(p) PROVE Shape'
  BY <1>3 DEF Shape, MakeYaml, Simulate, Step, files
<1>4. ASSUME NEW p \in Programs, OpenTrace(p) \/ GenerateTrace(p) PROVE Shape'
  BY <1>4 DEF Shape, OpenTrace, GenerateTrace, Step
<1>5. ASSUME NEW p \in Programs, RemoveTrace(p) \/ RemoveYaml(p) PROVE Shape'
  BY <1>5 DEF Shape, RemoveTrace, RemoveYaml, Step, files
<1>6. ASSUME NEW p \in Programs, UpdateLog(p) \/ WriteLog(p) PROVE Shape'
  BY <1>6 DEF Shape, UpdateLog, WriteLog, Answer, End, Step, files
<1> QED BY <1>1, <1>2, <1>3, <1>4, <1>5, <1>6 DEF Next

-----------------------------------------------------------------------------
(* Steps of one program leave the others alone.                            *)

\* What belongs to program p stays as it is.
Untouched(p) ==
  /\ setting'[p] = setting[p] /\ asked'[p] = asked[p] /\ df'[p] = df[p] /\ written'[p] = written[p]
  /\ result'[p] = result[p] /\ answer'[p] = answer[p] /\ pc'[p] = pc[p] /\ first'[p] = first[p]

Working(p) == pc[p] \notin {"off", "next"}

\* The files of other names stay as they are; idle programs touch none.
OtherFiles(q) ==
  \A n \in FileNames : ~ (Working(q) /\ n = file_name(q)) =>
    yaml'[n] = yaml[n] /\ trace'[n] = trace[n]

Acts(p) ==
  \/ Start(p) \/ Ask(p) \/ Kill(p) \/ Lookup(p)
  \/ MakeYaml(p) \/ OpenTrace(p) \/ GenerateTrace(p) \/ Simulate(p)
  \/ RemoveTrace(p) \/ RemoveYaml(p) \/ UpdateLog(p) \/ WriteLog(p)

LEMMA ActsAlone ==
  ASSUME Shape, NEW q \in Programs, Acts(q)
  PROVE  OtherFiles(q) /\ \A p \in Programs \ {q} : Untouched(p)
<1>1. CASE Start(q) \/ Ask(q) \/ Kill(q) \/ Lookup(q)
  BY <1>1 DEF Shape, OtherFiles, Untouched, Start, Ask, Kill, Lookup, Answer, End, files
<1>2. CASE MakeYaml(q) \/ Simulate(q)
  BY <1>2 DEF Shape, OtherFiles, Untouched, Working, MakeYaml, Simulate, Step, files
<1>3. CASE OpenTrace(q) \/ GenerateTrace(q)
  BY <1>3 DEF Shape, OtherFiles, Untouched, Working, OpenTrace, GenerateTrace, Step
<1>4. CASE RemoveTrace(q) \/ RemoveYaml(q)
  BY <1>4 DEF Shape, OtherFiles, Untouched, Working, RemoveTrace, RemoveYaml, Step, files
<1>5. CASE UpdateLog(q) \/ WriteLog(q)
  BY <1>5 DEF Shape, OtherFiles, Untouched, UpdateLog, WriteLog, Answer, End, Step, files
<1> QED BY <1>1, <1>2, <1>3, <1>4, <1>5 DEF Acts

\* The steps that change a file, and those that change the log and the copies.
LEMMA FileSteps ==
  ASSUME NEW p \in Programs, Acts(p)
  PROVE  \/ MakeYaml(p) \/ OpenTrace(p) \/ GenerateTrace(p)
         \/ RemoveTrace(p) \/ RemoveYaml(p) \/ UNCHANGED <<yaml, trace>>
BY DEF Acts, Start, Ask, Kill, Lookup, Simulate, UpdateLog, WriteLog, files

LEMMA RowSteps ==
  ASSUME NEW p \in Programs, Acts(p)
  PROVE  \/ Start(p) \/ UpdateLog(p) \/ WriteLog(p) \/ (End(p) /\ log' = log)
         \/ UNCHANGED <<log, df>>
BY DEF Acts, Ask, Kill, Lookup, MakeYaml, OpenTrace, GenerateTrace, Simulate,
       RemoveTrace, RemoveYaml, files

-----------------------------------------------------------------------------
(* The rows in the log and in the copies stay in a set that has every new  *)
(* row, whatever pieces of the log are written over each other.            *)

LogOf(S) == log \in {Absent, Truncated} \/ \E c \in Seq(S) : log = Holds(c)

\* The row that p adds.
NewRow(p) == Row(Key(p), result[p])

LEMMA ContentOf ==
  ASSUME NEW S, LogOf(S)
  PROVE  Content(log) \in Seq(S)
<1>1. CASE log \in {Absent, Truncated}
  BY <1>1, EmptySeq DEF Content, Absent, Truncated
<1>2. CASE \E c \in Seq(S) : log = Holds(c)
  BY <1>2 DEF Content, Holds
<1> QED BY <1>1, <1>2 DEF LogOf

LEMMA OverlayOf ==
  ASSUME NEW S, Garbled \in S, NEW p \in Programs, df[p] \in Seq(S), NEW old \in Seq(S),
         NEW from \in Nat, NEW to \in Nat, to <= Len(df[p])
  PROVE  Overlay(p, old, from, to) \in Seq(S)
<1> DEFINE m == Max({Len(old), to + (IF to < Len(df[p]) THEN 1 ELSE 0)})
           row(i) ==
             CASE i \in from + 1 .. to /\ (i > from + 1 \/ from = 0 \/ old = Left(p, from)) -> df[p][i]
               [] i \in DOMAIN old /\ (i <= from \/ i > to + 1) -> old[i]
               [] OTHER -> Garbled
<1>1. Len(old) \in Nat /\ Len(df[p]) \in Nat
  BY LenProperties
<1>2. m \in Nat
  <2> DEFINE a == Len(old)
             b == to + (IF to < Len(df[p]) THEN 1 ELSE 0)
  <2>1. a \in Nat /\ b \in Nat
    BY <1>1
  <2>2. Max({a, b}) \in Nat
    <3> HIDE DEF a, b
    <3>1. \E x \in {a, b} : \A y \in {a, b} : x >= y
      BY <2>1
    <3> QED BY <2>1, <3>1 DEF Max
  <2> QED BY <2>2
<1>3. ASSUME NEW i \in 1 .. m PROVE row(i) \in S
  <2>1. CASE i \in from + 1 .. to /\ (i > from + 1 \/ from = 0 \/ old = Left(p, from))
    <3>1. row(i) = df[p][i]
      BY <2>1
    <3>2. i \in 1 .. Len(df[p])
      BY <1>1, <2>1
    <3> QED BY <3>1, <3>2, ElementOfSeq
  <2>2. CASE /\ ~ (i \in from + 1 .. to /\ (i > from + 1 \/ from = 0 \/ old = Left(p, from)))
             /\ i \in DOMAIN old /\ (i <= from \/ i > to + 1)
    <3>1. row(i) = old[i]
      BY <2>2
    <3> QED BY <2>2, <3>1, ElementOfSeq, LenProperties
  <2>3. CASE /\ ~ (i \in from + 1 .. to /\ (i > from + 1 \/ from = 0 \/ old = Left(p, from)))
             /\ ~ (i \in DOMAIN old /\ (i <= from \/ i > to + 1))
    BY <2>3
  <2> QED BY <2>1, <2>2, <2>3
<1> HIDE DEF m, row
<1>4. [i \in 1 .. m |-> row(i)] \in [1 .. m -> S]
  BY <1>3
<1>5. [i \in 1 .. m |-> row(i)] \in Seq(S)
  BY <1>2, <1>4, SeqDef
<1>6. Overlay(p, old, from, to) = [i \in 1 .. m |-> row(i)]
  BY DEF Overlay, m, row
<1> QED BY <1>5, <1>6

\* The next piece ends within the rows.
LEMMA PieceEnds ==
  ASSUME NEW b \in Nat \ {0}, NEW n \in Nat, NEW from \in 0 .. n - 1
  PROVE  Min({from + b, n}) \in from + 1 .. n
<1>1. \E x \in {from + b, n} : \A y \in {from + b, n} : x =< y
  OBVIOUS
<1> QED BY <1>1 DEF Min

\* Where p stands in its copy when it writes.
WritesOn(p) == pc[p] = "write" => written[p] \in 0 .. Len(df[p]) - 1

LEMMA RowsStay ==
  ASSUME Shape, NEW S, Garbled \in S, LogOf(S), NEW p \in Programs, Acts(p),
         df[p] \in Seq(S), WritesOn(p),
         pc[p] = "update" => NewRow(p) \in S
  PROVE  LogOf(S)' /\ df'[p] \in Seq(S) /\ WritesOn(p)'
<1>1. CASE Start(p)
  <2>1. df'[p] = Content(log) /\ log' = log /\ pc'[p] = "next"
    BY <1>1 DEF Start, Shape, files
  <2> QED BY <2>1, ContentOf DEF LogOf, WritesOn
<1>2. CASE End(p) /\ log' = log
  <2>1. pc'[p] = "off" /\ df'[p] = <<>>
    BY <1>2 DEF End, Shape
  <2> QED BY <1>2, <2>1, EmptySeq DEF LogOf, WritesOn
<1>3. CASE /\ Step(p, "update", "write") /\ log' = Truncated
           /\ written' = [written EXCEPT ![p] = 0]
           /\ df' = [df EXCEPT ![p] = LET old == IF df[p] # <<>> THEN df[p] ELSE Content(log)
                                      IN IF NewRow(p) \in Rows(old) THEN old ELSE Append(old, NewRow(p))]
  <2> DEFINE old == IF df[p] # <<>> THEN df[p] ELSE Content(log)
             row == NewRow(p)
  <2>1. old \in Seq(S)
    BY ContentOf
  <2>2. row \in S
    BY <1>3 DEF Step
  <2>3. df'[p] = IF row \in Rows(old) THEN old ELSE Append(old, row)
    BY <1>3 DEF Shape
  <2> HIDE DEF old, row
  <2>4. Append(old, row) \in Seq(S) /\ Len(Append(old, row)) = Len(old) + 1 /\ Len(old) \in Nat
    BY <2>1, <2>2, AppendProperties, LenProperties
  <2>5. row \in Rows(old) => Len(old) >= 1
    BY <2>1, <2>4, LenProperties DEF Rows, ToSet
  <2>6. df'[p] \in Seq(S) /\ 0 \in 0 .. Len(df'[p]) - 1
    BY <2>1, <2>3, <2>4, <2>5
  <2>7. written'[p] = 0
    BY <1>3 DEF Shape
  <2> QED BY <1>3, <2>6, <2>7 DEF LogOf, WritesOn
<1>4. CASE WriteLog(p)
  <2> DEFINE to == Min({written[p] + BufferRows, Len(df[p])})
  <2>1. written[p] \in 0 .. Len(df[p]) - 1 /\ Len(df[p]) \in Nat
    BY <1>4, LenProperties DEF WritesOn, WriteLog, Step
  <2>2. to \in written[p] + 1 .. Len(df[p])
    BY <2>1, PieceEnds, LogAssumption DEF LogAssumption
  <2>3. log' = Holds(Overlay(p, Content(log), written[p], to)) /\ df' = df
    BY <1>4 DEF WriteLog
  <2>4. written'[p] = to /\ (to < Len(df[p]) \/ pc'[p] # "write")
    BY <1>4 DEF WriteLog, Step, Shape
  <2> HIDE DEF to
  <2>5. Overlay(p, Content(log), written[p], to) \in Seq(S)
    BY <2>1, <2>2, ContentOf, OverlayOf
  <2> QED BY <2>1, <2>2, <2>3, <2>4, <2>5 DEF LogOf, WritesOn
<1>5. CASE UNCHANGED <<log, df>> /\ ~ Start(p) /\ ~ UpdateLog(p) /\ ~ WriteLog(p) /\ ~ End(p)
  <2>1. pc'[p] # "write"
    BY <1>5 DEF Acts, Ask, Kill, Lookup, MakeYaml, OpenTrace, GenerateTrace, Simulate,
                RemoveTrace, RemoveYaml, Step, Shape
  <2> QED BY <1>5, <2>1 DEF LogOf, WritesOn
<1> QED BY <1>1, <1>2, <1>3, <1>4, <1>5, RowSteps DEF UpdateLog, NewRow, files

-----------------------------------------------------------------------------
(* What the programs and the files may hold.                               *)

\* A program that runs has settings, and a layer while it works on one.
Runs(p) ==
  /\ pc[p] # "off" => setting[p] \in Settings[p] /\ asked[p] \in 0 .. Len(setting[p].lengths)
  /\ Working(p) => asked[p] # 0

LEMMA OptionsTyped ==
  ASSUME NEW p \in Programs, NEW s \in Settings[p]
  PROVE  /\ s.pim_type \in PimTypes /\ s.power_constraint \in BOOLEAN
         /\ s.lengths \in Seq(Nat) /\ Len(s.lengths) \in Nat
         /\ s # Absent
<1>1. s \in Options
  BY LogAssumption DEF LogAssumption
<1>2. DOMAIN s # DOMAIN Absent
  BY <1>1 DEF Options, Absent
<1> QED BY <1>1, <1>2, LenProperties DEF Options

\* The layer a working program asks for has a name and a key.
LEMMA Named ==
  ASSUME LogAssumption, NEW p \in Programs, Runs(p), Working(p)
  PROVE  /\ setting[p] \in Settings[p]
         /\ asked[p] \in DOMAIN setting[p].lengths
         /\ file_name(p) \in FileNames
         /\ Key(p) \in Keys
<1>1. /\ setting[p] \in Settings[p]
      /\ asked[p] \in DOMAIN setting[p].lengths
  <2>1. setting[p] \in Settings[p] /\ asked[p] \in 1 .. Len(setting[p].lengths)
    BY DEF Runs, Working
  <2> QED BY <2>1, OptionsTyped, LenProperties
<1>2. setting[p] \in AllSettings
  BY <1>1 DEF AllSettings
<1>3. Length(p) \in UNION {ToSet(s.lengths) : s \in AllSettings}
  BY <1>1, <1>2 DEF Length, ToSet
<1>4. num_ops_per_hbm(setting[p]) \in {num_ops_per_hbm(s) : s \in AllSettings}
  BY <1>2
<1>5. setting[p].dhead \in {s.dhead : s \in AllSettings}
  BY <1>2
<1>6. setting[p].power_constraint \in BOOLEAN /\ setting[p].pim_type \in PimTypes
  BY <1>1, OptionsTyped
<1> QED BY <1>1, <1>3, <1>4, <1>5, <1>6 DEF file_name, FileNames, Key, Keys

\* The key of a name and a type.
KeyOf(n, t) ==
  [L |-> n.L, nhead |-> n.nhead, dhead |-> n.dhead, pim_type |-> t,
   power_constraint |-> n.power_constraint]

LEMMA KeyOfName ==
  ASSUME NEW n \in FileNames, NEW t \in PimTypes
  PROVE  KeyOf(n, t) \in Keys /\ NameOf(KeyOf(n, t)) = n
BY DEF FileNames, Keys, KeyOf, NameOf

LEMMA NameOfKey ==
  ASSUME NEW p \in Programs
  PROVE  NameOf(Key(p)) = file_name(p) /\ Key(p) = KeyOf(file_name(p), setting[p].pim_type)
BY DEF NameOf, Key, file_name, KeyOf

\* What is in a file belongs to its name; but the type of the units is no part
\* of the name.
YamlOf(n) == Holds([path |-> n, power_constraint |-> n.power_constraint])
TraceFor(n, t, whole) ==
  Holds([L |-> n.L, nhead |-> n.nhead, dhead |-> n.dhead, pim_type |-> t, whole |-> whole])

FilesTyped ==
  \A n \in FileNames :
    /\ yaml[n] \in {Absent, YamlOf(n)}
    /\ trace[n] = Absent \/ \E t \in PimTypes, whole \in BOOLEAN : trace[n] = TraceFor(n, t, whole)

\* Results under a name, and rows of them.
ResultsOf(n) ==
  {Nothing} \cup {Measured(KeyOf(n, t)) : t \in PimTypes}
            \cup {MeasuredPart(KeyOf(n, t)) : t \in PimTypes}
NamedRows ==
  {row \in [key : Keys, result : Results] : row.result \in ResultsOf(NameOf(row.key))} \cup {Garbled}

Typed(p) ==
  /\ pc[p] \in {"off", "next", "lookup"} \cup Steps
  /\ setting[p] \in Settings[p] \cup {Absent}
  /\ Runs(p)
  /\ pc[p] = "off" => asked[p] = 0 /\ answer[p] = Absent
  /\ df[p] \in Seq(NamedRows)
  /\ WritesOn(p)
  /\ result[p] \in Results
  /\ pc[p] \in {"clean", "clean_yaml", "update", "write"} => result[p] \in ResultsOf(file_name(p))
  /\ first[p] \in BOOLEAN

Bounded == starts \in 0 .. MaxStarts /\ kills \in 0 .. MaxKills

TypeInv == FilesTyped /\ LogOf(NamedRows) /\ Bounded /\ \A p \in Programs : Typed(p)

LEMMA OwnFiles ==
  ASSUME Shape, TypeInv, NEW p \in Programs, Acts(p)
  PROVE  FilesTyped'
<1>0. FilesTyped /\ Typed(p) /\ Runs(p)
  BY DEF TypeInv, Typed
<1>1. CASE UNCHANGED <<yaml, trace>>
  BY <1>0, <1>1 DEF FilesTyped
<1>3. CASE MakeYaml(p)
  <2> DEFINE y == Holds([path |-> file_name(p), power_constraint |-> setting[p].power_constraint])
  <2>1. y = YamlOf(file_name(p))
    BY DEF YamlOf, file_name
  <2>2. yaml' = [yaml EXCEPT ![file_name(p)] = y] /\ trace' = trace
    BY <1>3 DEF MakeYaml
  <2> HIDE DEF y
  <2>3. \A n \in FileNames : yaml'[n] = yaml[n] \/ (n = file_name(p) /\ yaml'[n] = y)
    BY <2>2 DEF Shape
  <2> QED BY <1>0, <2>1, <2>2, <2>3 DEF FilesTyped
<1>4. CASE OpenTrace(p) \/ GenerateTrace(p)
  <2>1. setting[p].pim_type \in PimTypes
    BY <1>0, <1>4, OptionsTyped DEF Runs, OpenTrace, GenerateTrace, Step
  <2>2. \A whole \in BOOLEAN : TraceOf(p, whole) = TraceFor(file_name(p), setting[p].pim_type, whole)
    BY DEF TraceOf, TraceFor, file_name
  <2>3. /\ yaml' = yaml
        /\ \/ trace' = trace
           \/ \E whole \in BOOLEAN : trace' = [trace EXCEPT ![file_name(p)] = TraceOf(p, whole)]
    BY <1>4 DEF OpenTrace, GenerateTrace
  <2>4. \A n \in FileNames : trace'[n] = trace[n] \/
          (n = file_name(p) /\ \E whole \in BOOLEAN : trace'[n] = TraceFor(n, setting[p].pim_type, whole))
    BY <2>2, <2>3 DEF Shape
  <2> QED BY <1>0, <2>1, <2>3, <2>4 DEF FilesTyped
<1>5. CASE RemoveTrace(p)
  BY <1>0, <1>5 DEF FilesTyped, Shape, RemoveTrace
<1>6. CASE RemoveYaml(p)
  BY <1>0, <1>6 DEF FilesTyped, Shape, RemoveYaml
<1> QED BY <1>1, <1>3, <1>4, <1>5, <1>6, FileSteps

LEMMA OwnBounds ==
  ASSUME TypeInv, NEW p \in Programs, Acts(p)
  PROVE  Bounded'
<1>1. MaxStarts \in Nat /\ MaxKills \in Nat /\ Bounded
  BY LogAssumption DEF LogAssumption, TypeInv
<1>2. CASE Start(p)
  BY <1>1, <1>2 DEF Start, Bounded
<1>3. CASE Kill(p)
  BY <1>1, <1>3 DEF Kill, Bounded
<1>4. CASE starts' = starts /\ kills' = kills
  BY <1>1, <1>4 DEF Bounded
<1>5. Start(p) \/ Kill(p) \/ (starts' = starts /\ kills' = kills)
  BY DEF Acts, Ask, Lookup, MakeYaml, OpenTrace, GenerateTrace, Simulate,
         RemoveTrace, RemoveYaml, UpdateLog, WriteLog, Step, files
<1> QED BY <1>2, <1>3, <1>4, <1>5

\* Whatever the files hold by now, what the simulator returns is nothing or
\* measured for the name, and of a layer that some program may ask for.
LEMMA ResultTyped ==
  ASSUME Shape, TypeInv, NEW p \in Programs, Simulate(p)
  PROVE  result'[p] \in Results /\ result'[p] \in ResultsOf(file_name(p))
<1> DEFINE n == file_name(p)
           y == yaml[n]
           t == IF y # Absent THEN trace[y.content.path] ELSE Absent
<1>1. n \in FileNames /\ FilesTyped
  BY Named, LogAssumption DEF TypeInv, Typed, Simulate, Step, Working
<1>2. result'[p] = Nothing \/ (t # Absent /\ result'[p] = Simulation(y.content, t.content))
  BY DEF Simulate, Shape
<1>3. ASSUME t # Absent
      PROVE  Simulation(y.content, t.content) \in Results \cap ResultsOf(n)
  <2>1. y = YamlOf(n)
    BY <1>1, <1>3 DEF FilesTyped
  <2>2. y # Absent /\ y.content = [path |-> n, power_constraint |-> n.power_constraint]
    BY <2>1 DEF YamlOf, Holds, Absent
  <2>3. t = trace[n]
    BY <2>2
  <2>4. PICK u \in PimTypes, whole \in BOOLEAN : trace[n] = TraceFor(n, u, whole)
    BY <1>1, <1>3, <2>3 DEF FilesTyped
  <2>5. t.content = [L |-> n.L, nhead |-> n.nhead, dhead |-> n.dhead, pim_type |-> u, whole |-> whole]
    BY <2>3, <2>4 DEF TraceFor, Holds
  <2>6. Simulation(y.content, t.content) = IF whole THEN Measured(KeyOf(n, u)) ELSE MeasuredPart(KeyOf(n, u))
    <3> HIDE DEF n, y, t
    <3> QED BY <2>2, <2>5 DEF Simulation, KeyOf
  <2>7. KeyOf(n, u) \in Keys
    BY <1>1, KeyOfName
  <2> HIDE DEF n
  <2> QED BY <2>6, <2>7 DEF Results, ResultsOf
<1> QED BY <1>2, <1>3 DEF Results, ResultsOf

LEMMA OwnTyped ==
  ASSUME Shape, TypeInv, NEW p \in Programs, Acts(p)
  PROVE  LogOf(NamedRows)' /\ Typed(p)'
<1>0. Typed(p) /\ LogOf(NamedRows) /\ Runs(p)
  BY DEF TypeInv, Typed
<1>1. ASSUME pc[p] = "update" PROVE NewRow(p) \in NamedRows
  <2>1. Key(p) \in Keys
    BY <1>0, <1>1, Named, LogAssumption DEF Working
  <2> QED BY <1>0, <1>1, <2>1, NameOfKey DEF Typed, NewRow, Row, NamedRows
<1>2. LogOf(NamedRows)' /\ df'[p] \in Seq(NamedRows) /\ WritesOn(p)'
  <2>1. Garbled \in NamedRows /\ df[p] \in Seq(NamedRows) /\ WritesOn(p)
    BY <1>0 DEF Typed, NamedRows
  <2> QED BY <1>0, <1>1, <2>1, RowsStay
<1>3. CASE Start(p)
  <2>1. setting'[p] \in Settings[p] /\ asked' = asked /\ pc'[p] = "next" /\ result' = result /\ first' = first
    BY <1>3 DEF Start, Shape
  <2>2. Len(setting'[p].lengths) \in Nat
    BY <2>1, OptionsTyped
  <2>3. asked[p] = 0
    BY <1>0, <1>3 DEF Start, Typed
  <2> QED BY <1>0, <1>2, <2>1, <2>2, <2>3 DEF Typed, Runs, Working
<1>4. CASE Ask(p) /\ ~ End(p)
  <2>1. setting[p] \in Settings[p] /\ Len(setting[p].lengths) \in Nat
    BY <1>0, <1>4, OptionsTyped DEF Ask, Runs
  <2>2. /\ setting' = setting /\ result' = result
        /\ first'[p] \in BOOLEAN
        /\ pc'[p] \in {"run", "lookup"}
        /\ asked'[p] = asked[p] + 1 /\ asked[p] < Len(setting[p].lengths) /\ pc[p] = "next"
    BY <1>0, <1>4 DEF Ask, HasNext, Shape, Typed
  <2>3. Runs(p)'
    BY <1>0, <2>1, <2>2 DEF Runs, Working
  <2> QED BY <1>0, <1>2, <2>2, <2>3 DEF Typed, Steps
<1>5. CASE Lookup(p) /\ ~ End(p)
  <2>1. /\ setting' = setting /\ asked' = asked /\ result' = result
        /\ first'[p] \in BOOLEAN
        /\ pc'[p] \in {"next", "run"} /\ pc[p] = "lookup"
    BY <1>0, <1>5 DEF Lookup, Shape, Typed
  <2> QED BY <1>0, <1>2, <2>1 DEF Typed, Runs, Working, Steps
<1>5a. CASE End(p)
  <2>1. /\ pc'[p] = "off" /\ setting'[p] = Absent /\ asked'[p] = 0 /\ result'[p] = Nothing
        /\ first'[p] = FALSE /\ answer'[p] = Absent
    BY <1>5a DEF End, Shape
  <2> QED BY <1>2, <2>1 DEF Typed, Runs, Working, Results
<1>6. CASE MakeYaml(p) \/ OpenTrace(p) \/ GenerateTrace(p)
  <2>1. /\ setting' = setting /\ asked' = asked /\ result' = result /\ first' = first
        /\ pc'[p] \in {"generate", "make_trace", "simulate"} /\ Working(p)
        /\ pc[p] # "off"
    BY <1>6 DEF MakeYaml, OpenTrace, GenerateTrace, Step, Shape, Working
  <2> QED BY <1>0, <1>2, <2>1 DEF Typed, Runs, Working, Steps
<1>7. CASE Simulate(p)
  <2>1. result'[p] \in Results /\ result'[p] \in ResultsOf(file_name(p))
    BY <1>7, ResultTyped
  <2>2. /\ setting' = setting /\ asked' = asked /\ first' = first
        /\ pc[p] = "simulate" /\ pc'[p] = "clean"
    BY <1>7 DEF Simulate, Step, Shape
  <2>3. file_name(p)' = file_name(p)
    BY <2>2 DEF file_name, Length
  <2> QED BY <1>0, <1>2, <2>1, <2>2, <2>3 DEF Typed, Runs, Working, Steps
<1>8. CASE RemoveTrace(p) \/ RemoveYaml(p) \/ (UpdateLog(p) /\ ~ End(p)) \/ WriteLog(p)
  <2>1. /\ setting' = setting /\ asked' = asked /\ result' = result /\ first' = first
        /\ pc[p] \in {"clean", "clean_yaml", "update", "write"}
        /\ pc'[p] \in {"clean_yaml", "update", "write", "next", "lookup"}
    BY <1>8 DEF RemoveTrace, RemoveYaml, UpdateLog, WriteLog, Step, Shape, files
  <2>2. file_name(p)' = file_name(p)
    BY <2>1 DEF file_name, Length
  <2> QED BY <1>0, <1>2, <2>1, <2>2 DEF Typed, Runs, Working, Steps
<1> QED BY <1>3, <1>4, <1>5, <1>5a, <1>6, <1>7, <1>8 DEF Acts, Kill

LEMMA TypeInvariant == Spec => []TypeInv
<1>1. Init => TypeInv
  <2>1. MaxStarts \in Nat /\ MaxKills \in Nat
    BY LogAssumption DEF LogAssumption
  <2>2. Init => \A p \in Programs : Typed(p)
    BY EmptySeq DEF Init, Typed, Runs, Working, Results, WritesOn
  <2> QED BY <2>1, <2>2 DEF Init, TypeInv, FilesTyped, LogOf, Bounded
<1>2. Shape /\ TypeInv /\ [Next]_vars => TypeInv'
  <2> SUFFICES ASSUME Shape, TypeInv, [Next]_vars PROVE TypeInv'
    OBVIOUS
  <2>1. CASE UNCHANGED vars
    <3>1. UNCHANGED <<yaml, trace, log, starts, kills>> /\ \A p \in Programs : Untouched(p)
      BY <2>1 DEF vars, files, Untouched
    <3>2. ASSUME NEW p \in Programs PROVE Typed(p)'
      BY <3>1 DEF TypeInv, Untouched, Typed, Runs, Working, WritesOn, file_name, Length
    <3> QED BY <3>1, <3>2 DEF TypeInv, FilesTyped, LogOf, Bounded
  <2>2. ASSUME NEW q \in Programs, Acts(q) PROVE TypeInv'
    <3>1. FilesTyped' /\ LogOf(NamedRows)' /\ Bounded' /\ Typed(q)'
      BY <2>2, OwnFiles, OwnBounds, OwnTyped
    <3>2. ASSUME NEW p \in Programs \ {q} PROVE Typed(p)'
      <4>1. Untouched(p)
        BY <2>2, ActsAlone
      <4> QED BY <4>1 DEF TypeInv, Untouched, Typed, Runs, Working, WritesOn, file_name, Length
    <3> QED BY <3>1, <3>2 DEF TypeInv
  <2> QED BY <2>1, <2>2 DEF Next, Acts
<1> QED BY <1>1, <1>2, InitShape, NextShape, PTL DEF Spec

\* Any programs, run side by side and killed anywhere, with a simulator that
\* may fail: what they work with is well-formed.
THEOREM LogWellFormed == Spec => []TypeOK
<1>1. TypeInv => TypeOK
  <2> SUFFICES ASSUME TypeInv PROVE TypeOK
    OBVIOUS
  <2>1. \A c \in Seq(NamedRows) : ToSet(c) \subseteq AnyRow
    BY ElementOfSeq, LenProperties DEF ToSet, NamedRows, AnyRow
  <2>2. \A n \in FileNames :
          yaml[n].kind \in {"absent", "holds"} /\ trace[n].kind \in {"absent", "holds"}
    <3>1. Absent.kind = "absent" /\ \A c : Holds(c).kind = "holds"
      BY DEF Absent, Holds
    <3> QED BY <3>1 DEF TypeInv, FilesTyped, YamlOf, TraceFor
  <2>3. log \in {Absent, Truncated} \/ (log.kind = "holds" /\ ToSet(log.content) \subseteq AnyRow)
    BY <2>1 DEF TypeInv, LogOf, Holds
  <2>4. ASSUME NEW p \in Programs
        PROVE  /\ pc[p] \in {"off", "next", "lookup"} \cup Steps
               /\ setting[p] \in Settings[p] \cup {Absent}
               /\ pc[p] # "off" => setting[p] # Absent /\ asked[p] \in 0 .. Len(setting[p].lengths)
               /\ pc[p] \notin {"off", "next"} => asked[p] # 0
               /\ ToSet(df[p]) \subseteq AnyRow
               /\ pc[p] = "write" => written[p] \in 0 .. Len(df[p]) - 1
               /\ result[p] \in Results
               /\ first[p] \in BOOLEAN
    BY <2>1, OptionsTyped DEF TypeInv, Typed, Runs, Working, WritesOn
  <2> QED BY <2>2, <2>3, <2>4 DEF TypeInv, Bounded, TypeOK
<1> QED BY <1>1, TypeInvariant, PTL

\* A whole row is an element of a copy or of the log.
LEMMA WholeRow ==
  ASSUME NEW S, LogOf(S), \A p \in Programs : df[p] \in Seq(S), NEW row \in WholeRows
  PROVE  row \in S \ {Garbled}
<1>1. ASSUME NEW c \in Seq(S), row \in Rows(c) PROVE row \in S
  BY <1>1, ElementOfSeq, LenProperties DEF Rows, ToSet
<1>2. Content(log) \in Seq(S)
  BY ContentOf
<1>3. row # Garbled /\ ((\E p \in Programs : row \in Rows(df[p])) \/ row \in Rows(Content(log)))
  BY DEF WholeRows
<1>4. CASE \E p \in Programs : row \in Rows(df[p])
  BY <1>1, <1>3, <1>4
<1>5. CASE row \in Rows(Content(log))
  BY <1>1, <1>2, <1>3, <1>5
<1> QED BY <1>3, <1>4, <1>5

\* Whoever shares the temporary files, and where generator and simulator may
\* fail: a row has nothing, or is measured for its length, heads and constraint.
THEOREM RowsKeepTheirName == Spec => []RowsOfName
<1>1. TypeInv => RowsOfName
  <2> SUFFICES ASSUME TypeInv, NEW row \in WholeRows, row.result # Nothing
               PROVE  NameOf(row.result.of) = NameOf(row.key)
    BY DEF RowsOfName
  <2>1. row \in [key : Keys, result : Results] /\ row.result \in ResultsOf(NameOf(row.key))
    BY WholeRow DEF TypeInv, Typed, NamedRows
  <2>2. PICK t \in PimTypes : row.result.of = KeyOf(NameOf(row.key), t)
    BY <2>1 DEF ResultsOf, Measured, MeasuredPart
  <2>3. row.key \in Keys
    BY <2>1
  <2>4. NameOf(KeyOf(NameOf(row.key), t)) = NameOf(row.key)
    BY DEF KeyOf, NameOf
  <2> QED BY <2>2, <2>4
<1> QED BY <1>1, TypeInvariant, PTL

-----------------------------------------------------------------------------
(* Every row of a name that nobody shares is right.                        *)

SoundRows ==
  {row \in [key : Keys, result : Results] :
     Safe(row.key) => row.result = Measured(row.key)} \cup {Garbled}

\* What the steps of a safe simulation find is what its own steps left.
Prepared(p) == Safe(Key(p)) =>
  /\ pc[p] \in {"generate", "make_trace", "simulate"} => yaml[file_name(p)] = YamlOf(file_name(p))
  /\ pc[p] = "simulate" => trace[file_name(p)] = TraceOf(p, TRUE)
  /\ pc[p] \in {"clean", "clean_yaml", "update", "write"} => result[p] = Measured(Key(p))

IInv ==
  /\ LogOf(SoundRows)
  /\ \A p \in Programs : Prepared(p) /\ df[p] \in Seq(SoundRows)

LEMMA Uses ==
  ASSUME LogAssumption, NEW p \in Programs, Runs(p), Working(p)
  PROVE  MayUse(p, file_name(p))
<1>1. Length(p) \in ToSet(setting[p].lengths) /\ setting[p] \in Settings[p]
  BY Named DEF Length, ToSet
<1> QED BY <1>1 DEF MayUse, file_name

LEMMA FilesApart ==
  ASSUME LogAssumption, NEW p \in Programs, NEW q \in Programs, p # q,
         Runs(p), Working(p), Runs(q), Working(q), Safe(Key(p))
  PROVE  file_name(p) # file_name(q)
BY Uses, NameOfKey DEF Shared, Safe

\* A program is not disturbed by a step of another one.
LEMMA OthersKeep ==
  ASSUME Shape, TypeInv, IInv, NEW q \in Programs, Acts(q), NEW p \in Programs, p # q
  PROVE  Prepared(p)' /\ df'[p] \in Seq(SoundRows)
<1>1. Untouched(p) /\ OtherFiles(q) /\ Runs(p) /\ Runs(q)
  BY ActsAlone DEF TypeInv, Typed
<1>2. /\ file_name(p)' = file_name(p) /\ Key(p)' = Key(p)
      /\ TraceOf(p, TRUE)' = TraceOf(p, TRUE)
  BY <1>1 DEF Untouched, file_name, Length, Key, TraceOf
<1>3. Working(p) /\ Safe(Key(p)) =>
        yaml'[file_name(p)] = yaml[file_name(p)] /\ trace'[file_name(p)] = trace[file_name(p)]
  BY <1>1, Named, FilesApart, LogAssumption DEF OtherFiles
<1>4. Safe(Key(p))' = Safe(Key(p)) /\ YamlOf(file_name(p))' = YamlOf(file_name(p))
  BY <1>2 DEF Safe, NameOf, Shared, MayUse, YamlOf
<1>5. Prepared(p)'
  BY <1>1, <1>2, <1>3, <1>4 DEF IInv, Prepared, Untouched, Working
<1> QED BY <1>1, <1>5 DEF IInv, Untouched

\* What a program logs is the result of its own simulation.
LEMMA OwnRows ==
  ASSUME Shape, TypeInv, IInv, NEW p \in Programs, Acts(p)
  PROVE  LogOf(SoundRows)' /\ df'[p] \in Seq(SoundRows)
<1>1. ASSUME pc[p] = "update" PROVE NewRow(p) \in SoundRows
  <2>1. Key(p) \in Keys
    BY <1>1, Named, LogAssumption DEF TypeInv, Typed, Working
  <2>2. result[p] \in Results
    BY DEF TypeInv, Typed
  <2>3. Safe(Key(p)) => result[p] = Measured(Key(p))
    BY <1>1 DEF IInv, Prepared
  <2> QED BY <2>1, <2>2, <2>3, NameOfKey DEF NewRow, Row, SoundRows
<1>2. Garbled \in SoundRows
  BY DEF SoundRows
<1>3. LogOf(SoundRows) /\ df[p] \in Seq(SoundRows) /\ WritesOn(p)
  BY DEF IInv, TypeInv, Typed
<1> HIDE DEF SoundRows
<1> QED BY <1>1, <1>2, <1>3, RowsStay

LEMMA OwnStep ==
  ASSUME Shape, TypeInv, IInv, NEW p \in Programs, Acts(p)
  PROVE  Prepared(p)'
<1>0. Runs(p) /\ Prepared(p)
  BY DEF TypeInv, Typed, IInv
<1>1. CASE Start(p) \/ Ask(p) \/ Lookup(p) \/ End(p)
  <2>1. pc'[p] \in {"off", "next", "run", "lookup"}
    BY <1>1 DEF Start, Ask, Lookup, End, Shape
  <2> QED BY <2>1 DEF Prepared
<1>2. CASE setting' = setting /\ asked' = asked /\ ~ Start(p) /\ ~ Ask(p) /\ ~ Lookup(p) /\ ~ End(p)
  <2>1. /\ file_name(p)' = file_name(p) /\ Key(p)' = Key(p)
        /\ TraceOf(p, TRUE)' = TraceOf(p, TRUE)
    BY <1>2 DEF file_name, Length, Key, TraceOf
  <2>2. Safe(Key(p))' = Safe(Key(p)) /\ YamlOf(file_name(p))' = YamlOf(file_name(p))
    BY <2>1 DEF Safe, NameOf, Shared, MayUse, YamlOf
  <2>3. Working(p) => file_name(p) \in FileNames
    BY <1>0, Named, LogAssumption
  <2>4. CASE ~ Safe(Key(p))
    BY <2>1, <2>2, <2>4 DEF Prepared
  <2>4a. Safe(Key(p)) => Length(p) \notin MayFail
    BY DEF Safe, Key
  <2>5. CASE MakeYaml(p)
    <3>1. pc'[p] = "generate" /\ yaml'[file_name(p)] = YamlOf(file_name(p))
      BY <2>3, <2>5 DEF MakeYaml, Step, Shape, Working, YamlOf, file_name
    <3> QED BY <2>1, <2>2, <3>1 DEF Prepared
  <2>6. CASE OpenTrace(p) /\ Safe(Key(p))
    <3>1. pc[p] = "generate" /\ pc'[p] = "make_trace" /\ yaml' = yaml
      BY <2>4a, <2>6 DEF OpenTrace, Step, Shape
    <3> QED BY <1>0, <2>1, <2>2, <3>1 DEF Prepared
  <2>7. CASE GenerateTrace(p) /\ Safe(Key(p))
    <3>1. pc[p] = "make_trace" /\ pc'[p] = "simulate" /\ yaml' = yaml
      BY <2>7 DEF GenerateTrace, Step, Shape
    <3>2. trace'[file_name(p)] = TraceOf(p, TRUE)
      BY <2>3, <2>4a, <2>7, <3>1 DEF GenerateTrace, Shape, Working
    <3> QED BY <1>0, <2>1, <2>2, <3>1, <3>2 DEF Prepared
  <2>8. CASE Simulate(p)
    <3>1. pc[p] = "simulate" /\ pc'[p] = "clean"
      BY <2>8 DEF Simulate, Step, Shape
    <3>2. ASSUME Safe(Key(p)) PROVE result'[p] = Measured(Key(p))
      <4> DEFINE y == YamlOf(file_name(p))
                 t == TraceOf(p, TRUE)
      <4>1. yaml[file_name(p)] = y /\ trace[file_name(p)] = t
        BY <1>0, <3>1, <3>2 DEF Prepared
      <4>2. y # Absent /\ y.content.path = file_name(p) /\ t # Absent
        BY DEF YamlOf, TraceOf, Holds, Absent
      <4>3. Simulation(y.content, t.content) = Measured(Key(p))
        BY DEF Simulation, YamlOf, TraceOf, Holds, Key, file_name
      <4> HIDE DEF y, t
      <4>4. Length(p) \notin MayFail
        BY <3>2 DEF Safe, Key
      <4>5. result' = [result EXCEPT ![p] = Simulation(y.content, t.content)]
        BY <2>8, <4>1, <4>2, <4>4 DEF Simulate
      <4> QED BY <4>3, <4>5 DEF Shape
    <3> QED BY <2>1, <2>2, <3>1, <3>2 DEF Prepared
  <2>9. CASE RemoveTrace(p) \/ RemoveYaml(p) \/ (UpdateLog(p) /\ ~ End(p)) \/ WriteLog(p)
    <3>1. /\ result' = result
          /\ pc[p] \in {"clean", "clean_yaml", "update", "write"}
          /\ pc'[p] \in {"clean_yaml", "update", "write", "next", "lookup", "off"}
      BY <2>9 DEF RemoveTrace, RemoveYaml, UpdateLog, WriteLog, Step, Shape, files
    <3> QED BY <1>0, <2>1, <2>2, <3>1 DEF Prepared
  <2> QED BY <1>2, <2>4, <2>5, <2>6, <2>7, <2>8, <2>9 DEF Acts, Kill
<1>3. Start(p) \/ Ask(p) \/ Lookup(p) \/ End(p) \/ (setting' = setting /\ asked' = asked)
  BY DEF Acts, MakeYaml, OpenTrace, GenerateTrace, Simulate, RemoveTrace, RemoveYaml,
         UpdateLog, WriteLog, Kill, files
<1> QED BY <1>1, <1>2, <1>3

LEMMA NextSound ==
  ASSUME Shape, TypeInv, IInv, [Next]_vars
  PROVE  IInv'
<1>1. CASE UNCHANGED vars
  <2>1. UNCHANGED <<yaml, trace, log>> /\ \A p \in Programs : Untouched(p)
    BY <1>1 DEF vars, files, Untouched
  <2>2. ASSUME NEW p \in Programs PROVE Prepared(p)' /\ df'[p] \in Seq(SoundRows)
    <3>1. /\ file_name(p)' = file_name(p) /\ Key(p)' = Key(p)
          /\ TraceOf(p, TRUE)' = TraceOf(p, TRUE)
      BY <2>1 DEF Untouched, file_name, Length, Key, TraceOf
    <3>2. Safe(Key(p))' = Safe(Key(p)) /\ YamlOf(file_name(p))' = YamlOf(file_name(p))
      BY <3>1 DEF Safe, NameOf, Shared, MayUse, YamlOf
    <3> QED BY <2>1, <3>1, <3>2 DEF IInv, Prepared, Untouched
  <2> QED BY <2>1, <2>2 DEF IInv, LogOf
<1>2. ASSUME NEW q \in Programs, Acts(q) PROVE IInv'
  BY <1>2, OthersKeep, OwnRows, OwnStep DEF IInv
<1> QED BY <1>1, <1>2 DEF Next, Acts

LEMMA SoundInvariant == Spec => []IInv
<1>1. Init => IInv
  <2>1. Init => \A p \in Programs : Prepared(p) /\ df[p] \in Seq(SoundRows)
    BY EmptySeq DEF Init, Prepared
  <2> QED BY <2>1 DEF Init, IInv, LogOf
<1>2. Shape /\ TypeInv /\ IInv /\ [Next]_vars => IInv'
  BY NextSound
<1> QED BY <1>1, <1>2, InitShape, NextShape, TypeInvariant, PTL DEF Spec

\* Every whole row of the log and of the copies holds what the simulator
\* measures for its key, as long as generator and simulator work and no two
\* programs share its temporary files, whatever they do with others and
\* however they write over the log; they may be killed at any time.
THEOREM RowsSound == Spec => []LogSound
<1>1. IInv => LogSound
  <2> SUFFICES ASSUME IInv, NEW row \in WholeRows, Safe(row.key)
               PROVE  row.result = Measured(row.key)
    BY DEF LogSound
  <2>1. row \in SoundRows \ {Garbled}
    BY WholeRow DEF IInv
  <2> QED BY <2>1 DEF SoundRows
<1> QED BY <1>1, SoundInvariant, PTL

-----------------------------------------------------------------------------
(* Every answer is right.                                                  *)

\* What AnswerRight says of program p; a program that has answered has rows.
AnswerOf(p) == answer[p] # Absent =>
  /\ \/ Garbled \in Rows(df[p])
     \/ ~ Safe(answer[p].wanted) \/ ~ Safe(Simulated(setting[p], answer[p].wanted))
     \/ answer[p].result = Measured(answer[p].wanted)
     \/ setting[p].dhead # setting[p].k /\ answer[p].result = Measured(Simulated(setting[p], answer[p].wanted))
  /\ CountsAlike(setting[p]) =>
       /\ answer[p].mem_acc = Units(setting[p]) * num_ops_group(setting[p])
       /\ answer[p].exec_time = num_ops_group(setting[p])
  /\ df[p] # <<>>

LEMMA UnitsAlike ==
  ASSUME NEW p \in Programs, NEW s \in Settings[p], CountsAlike(s)
  PROVE  UnitsOfRun(s) = Units(s) /\ num_ops_group(s) = 1
         /\ Units(s) * num_ops_group(s) = Units(s)
<1>1. ~ s.fast_mode /\ s.pim_type # "buffer"
  BY DEF CountsAlike
<1>2. num_ops_group(s) = 1
  BY Zenon, <1>1 DEF num_ops_group
<1>3. s.pim_type \in {"bank", "bg"}
  BY <1>1, OptionsTyped DEF PimTypes
<1>4. CASE s.pim_type = "bank"
  BY <1>2, <1>4 DEF UnitsOfRun, Units
<1>5. CASE s.pim_type = "bg"
  BY <1>2, <1>5 DEF UnitsOfRun, Units
<1> QED BY <1>3, <1>4, <1>5

\* The copy of p after a step that gives no answer.
LEMMA CopyGrows ==
  ASSUME Shape, TypeInv, NEW p \in Programs, Acts(p), ~ Start(p), ~ End(p), df[p] # <<>>
  PROVE  df'[p] # <<>> /\ (Garbled \in Rows(df[p]) => Garbled \in Rows(df'[p]))
<1>1. CASE df'[p] = df[p]
  BY <1>1
<1>2. CASE df'[p] = Append(df[p], NewRow(p))
  <2>1. df[p] \in Seq(NamedRows \cup {NewRow(p)}) /\ df[p] \in Seq(NamedRows)
    <3>1. df[p] \in Seq(NamedRows)
      BY DEF TypeInv, Typed
    <3>2. \A i \in 1 .. Len(df[p]) : df[p][i] \in NamedRows
      BY <3>1, ElementOfSeq
    <3>3. df[p] \in [1 .. Len(df[p]) -> NamedRows \cup {NewRow(p)}] /\ Len(df[p]) \in Nat
      BY <3>1, <3>2, LenProperties
    <3> QED BY <3>1, <3>3, SeqDef
  <2>2. /\ df'[p] # <<>> /\ Len(df'[p]) = Len(df[p]) + 1
        /\ \A i \in 1 .. Len(df[p]) : df'[p][i] = df[p][i]
    BY <1>2, <2>1, AppendProperties
  <2>3. DOMAIN df[p] = 1 .. Len(df[p]) /\ DOMAIN df'[p] = 1 .. Len(df[p]) + 1 /\ Len(df[p]) \in Nat
    BY <1>2, <2>1, AppendProperties, LenProperties
  <2> QED BY <2>2, <2>3 DEF Rows, ToSet
<1>3. df'[p] \in {df[p], Append(df[p], NewRow(p))}
  BY RowSteps DEF Shape, UpdateLog, WriteLog, NewRow, files
<1> QED BY <1>1, <1>2, <1>3

LEMMA OwnAnswer ==
  ASSUME Shape, TypeInv, IInv, NEW p \in Programs, Acts(p), AnswerOf(p)
  PROVE  AnswerOf(p)'
<1>0. Runs(p) /\ Prepared(p) /\ df[p] \in Seq(SoundRows)
  BY DEF TypeInv, Typed, IInv
<1>1. CASE Start(p) \/ End(p)
  <2>1. answer'[p] = Absent
    BY <1>1 DEF Start, End, Shape, TypeInv, Typed
  <2> QED BY <2>1 DEF AnswerOf
<1>2. CASE ~ Start(p) /\ ~ End(p) /\ setting' = setting /\ answer' = answer
  <2>1. CASE answer[p] = Absent
    BY <1>2, <2>1 DEF AnswerOf
  <2>2. CASE answer[p] # Absent
    <3>1. df'[p] # <<>> /\ (Garbled \in Rows(df[p]) => Garbled \in Rows(df'[p]))
      BY <1>2, <2>2, CopyGrows DEF AnswerOf
    <3>2. \A n : Safe(n)' = Safe(n)
      BY DEF Safe, NameOf, Shared, MayUse
    <3>3. Rows(df[p])' = Rows(df'[p])
      BY DEF Rows
    <3> QED BY <1>2, <2>2, <3>1, <3>2, <3>3 DEF AnswerOf
  <2> QED BY <2>1, <2>2
<1>3. CASE Lookup(p) /\ ~ End(p) /\ answer' # answer
  <2>1. setting' = setting /\ df' = df
    BY <1>3 DEF Lookup
  <2>2. CASE /\ Garbled \in Rows(df[p])
             /\ Answer(p, Garbled, Units(setting[p]), num_ops_group(setting[p]))
    <3>1. df[p] # <<>>
      BY <2>2 DEF Rows, ToSet
    <3>2. /\ answer'[p].mem_acc = Units(setting[p]) * num_ops_group(setting[p])
          /\ answer'[p].exec_time = num_ops_group(setting[p])
      BY <2>2 DEF Answer, Shape
    <3> QED BY <2>1, <2>2, <3>1, <3>2 DEF AnswerOf
  <2>3. CASE \E i \in DOMAIN df[p] :
               /\ Matches(p, df[p][i])
               /\ Answer(p, df[p][i].result, Units(setting[p]), num_ops_group(setting[p]))
    <3>1. PICK i \in DOMAIN df[p] :
            /\ df[p][i] # Garbled /\ df[p][i].key = Wanted(p)
            /\ Answer(p, df[p][i].result, Units(setting[p]), num_ops_group(setting[p]))
      BY <2>3 DEF Matches
    <3>2. df[p][i] \in SoundRows
      BY <1>0, ElementOfSeq, LenProperties
    <3>3. Safe(Wanted(p)) => df[p][i].result = Measured(Wanted(p))
      BY <3>1, <3>2 DEF SoundRows
    <3>4. /\ answer'[p].wanted = Wanted(p) /\ answer'[p].result = df[p][i].result
          /\ answer'[p].mem_acc = Units(setting[p]) * num_ops_group(setting[p])
          /\ answer'[p].exec_time = num_ops_group(setting[p])
      BY <3>1 DEF Answer, Shape
    <3>5. df[p] # <<>>
      OBVIOUS
    <3>6. ~ Safe(Wanted(p)) \/ answer'[p].result = Measured(answer'[p].wanted)
      BY <3>3, <3>4
    <3>7. (\A n : Safe(n)' = Safe(n))
      BY DEF Safe, NameOf, Shared, MayUse
    <3> QED BY <2>1, <3>4, <3>5, <3>6, <3>7 DEF AnswerOf
  <2> QED BY <1>3, <2>2, <2>3 DEF Lookup
<1>4. CASE WriteLog(p) /\ answer' # answer
  <2>1. /\ Answer(p, result[p], UnitsOfRun(setting[p]), 1)
        /\ setting' = setting /\ df' = df /\ pc[p] = "write"
    BY <1>4 DEF WriteLog, Step
  <2>2. /\ answer'[p].wanted = Wanted(p) /\ answer'[p].result = result[p]
        /\ answer'[p].mem_acc = UnitsOfRun(setting[p]) * num_ops_group(setting[p])
        /\ answer'[p].exec_time = 1
    BY <2>1 DEF Answer, Shape
  <2>3. Safe(Key(p)) => result[p] = Measured(Key(p))
    BY <1>0, <2>1 DEF Prepared
  <2>4. Simulated(setting[p], Wanted(p)) = Key(p) /\ NameOf(Key(p)) = file_name(p)
    <3>1. Wanted(p) = [L |-> Key(p).L, nhead |-> Key(p).nhead, dhead |-> setting[p].k,
            pim_type |-> Key(p).pim_type, power_constraint |-> Key(p).power_constraint]
      BY DEF Wanted, Key
    <3>2. Simulated(setting[p], Wanted(p)) =
            [L |-> Key(p).L, nhead |-> Key(p).nhead, dhead |-> setting[p].dhead,
             pim_type |-> Key(p).pim_type, power_constraint |-> Key(p).power_constraint]
      BY <3>1 DEF Simulated
    <3> QED BY <3>2, NameOfKey DEF Key
  <2>5. setting[p].dhead = setting[p].k => Wanted(p) = Key(p)
    BY DEF Wanted, Key
  <2>6. df[p] # <<>>
    <3>1. written[p] \in 0 .. Len(df[p]) - 1
      BY <2>1 DEF TypeInv, Typed, WritesOn
    <3> QED BY <3>1
  <2>7. setting[p] \in Settings[p]
    BY <1>0, <2>1 DEF Runs
  <2>8. CountsAlike(setting[p]) =>
          /\ answer'[p].mem_acc = Units(setting[p]) * num_ops_group(setting[p])
          /\ answer'[p].exec_time = num_ops_group(setting[p])
    BY <2>2, <2>7, UnitsAlike
  <2>9. \A n : Safe(n)' = Safe(n)
    BY DEF Safe, NameOf, Shared, MayUse
  <2> QED BY <2>1, <2>2, <2>3, <2>4, <2>5, <2>6, <2>8, <2>9 DEF AnswerOf
<1>5. Start(p) \/ End(p) \/ setting' = setting
  BY DEF Acts, Ask, Kill, Lookup, MakeYaml, OpenTrace, GenerateTrace, Simulate,
         RemoveTrace, RemoveYaml, UpdateLog, WriteLog, files
<1>6. Start(p) \/ End(p) \/ Lookup(p) \/ WriteLog(p) \/ answer' = answer
  BY DEF Acts, Ask, Kill, MakeYaml, OpenTrace, GenerateTrace, Simulate,
         RemoveTrace, RemoveYaml, UpdateLog, files
<1> QED BY <1>1, <1>2, <1>3, <1>4, <1>5, <1>6

\* What output answers, from a copy without garbled rows and with files that
\* are not shared, is the simulation of the layer it was asked for, or of its
\* model's other head dimension; with the same times and accesses whether it
\* was simulated now or is taken from the log, which others have written, too.
THEOREM AnswersRight == Spec => []AnswerRight
<1> DEFINE Inv == \A p \in Programs : AnswerOf(p)
<1>1. Init => Inv
  BY DEF Init, AnswerOf
<1>2. Shape /\ TypeInv /\ IInv /\ Inv /\ [Next]_vars => Inv'
  <2> SUFFICES ASSUME Shape, TypeInv, IInv, Inv, [Next]_vars PROVE Inv'
    OBVIOUS
  <2>1. CASE UNCHANGED vars
    BY <2>1 DEF vars, AnswerOf, Safe, NameOf, Shared, MayUse, Rows
  <2>2. ASSUME NEW q \in Programs, Acts(q) PROVE Inv'
    <3>1. ASSUME NEW p \in Programs \ {q} PROVE AnswerOf(p)'
      BY <2>2, <3>1, ActsAlone DEF Untouched, AnswerOf, Safe, NameOf, Shared, MayUse, Rows
    <3>2. AnswerOf(q)'
      BY <2>2, OwnAnswer
    <3> QED BY <3>1, <3>2
  <2> QED BY <2>1, <2>2 DEF Next, Acts
<1>3. Inv => AnswerRight
  BY DEF AnswerOf, AnswerRight
<1> QED BY <1>1, <1>2, <1>3, InitShape, NextShape, TypeInvariant, SoundInvariant, PTL DEF Spec
=============================================================================
