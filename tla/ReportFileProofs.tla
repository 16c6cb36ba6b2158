-------------------------- MODULE ReportFileProofs --------------------------
(***************************************************************************)
(* Theorems about ReportFile: for any number of runs with any settings,    *)
(* the file starts with a header and keeps the record of every run that    *)
(* succeeded.                                                              *)
(***************************************************************************)
EXTENDS ReportFile, FiniteSetTheorems, TLAPS

\* What a run hands to the file.
Lines(p) == IF empty[p] THEN <<Header(p), Record(p)>> ELSE <<Record(p)>>

Appended == {p \in Proc : pc[p] \in {"ok", "unequal"}}

Types ==
  /\ settings \in Assignments
  /\ pc \in [Proc -> {"execute", "open", "write", "flush"} \union Ends]
  /\ empty \in [Proc -> BOOLEAN]
  /\ buffer \in [Proc -> Seq(Cell)]
  /\ file \in Seq(Cell)

Buffered == \A p \in Proc : pc[p] = "flush" => buffer[p] = Lines(p)

\* A run that saw content is right: a file never loses content.
SeenContent ==
  \A p \in Proc : pc[p] \in {"write", "flush"} /\ ~empty[p] => file # <<>>

RecordsAreAppended ==
  \A i \in DOMAIN file : file[i].kind = "record" => file[i].by \in Appended

Bounded == Len(file) <= 2 * Cardinality(Appended)

IInv ==
  /\ Types
  /\ Buffered
  /\ SeenContent
  /\ HeaderLeads
  /\ RecordsAreAppended
  /\ RecordIsKept
  /\ Bounded

-----------------------------------------------------------------------------

\* The columns of a line are a number, whatever the settings.
LEMMA ColumnsAreNat ==
  ASSUME NEW s \in Settings
  PROVE  HeaderColumns(s) \in Nat /\ RecordColumns(s) \in Nat
<1>1. Metrics(Opcodes) \in Nat /\ Tracked(s) \in Nat
  BY ReportAssumption DEF Metrics, Tracked, Precompiles
<1>. QED
  BY <1>1, ReportAssumption DEF HeaderColumns, RecordColumns

\* What a run hands to the file are cells.
LEMMA LinesAreCells ==
  ASSUME Types, NEW p \in Proc
  PROVE  /\ Header(p) \in Cell
         /\ Record(p) \in Cell
         /\ Lines(p) \in Seq(Cell)
<1>1. settings[p] \in Settings
  BY ReportAssumption DEF Types
<1>2. Accepted(p) \in BOOLEAN
  BY DEF Accepted
<1>3. Header(p) \in Cell
  BY <1>1, ColumnsAreNat DEF Header, Cell
<1>4. Record(p) \in Cell
  BY <1>1, <1>2, ColumnsAreNat DEF Record, Cell
<1>. QED
  BY <1>3, <1>4 DEF Lines

-----------------------------------------------------------------------------

\* No run has appended anything before the first step.
LEMMA InitIInv == Init => IInv
<1>. SUFFICES ASSUME Init PROVE IInv
  OBVIOUS
<1>1. Types
  BY DEF Init, Types
<1>2. Appended = {}
  BY DEF Init, Appended
<1>3. Bounded
  BY <1>2, FS_EmptySet DEF Init, Bounded
<1>. QED
  BY <1>1, <1>3 DEF Init, IInv, Buffered, SeenContent, HeaderLeads,
     RecordsAreAppended, RecordIsKept

\* A step that leaves the file alone and ends no run with an append.
LEMMA FileKept ==
  ASSUME IInv, UNCHANGED <<settings, file>>, Types', Buffered', SeenContent',
         Appended' = Appended,
         \A p \in Proc : pc'[p] = "ok" => pc[p] = "ok"
  PROVE  IInv'
<1>1. HeaderLeads' /\ RecordsAreAppended'
  BY DEF IInv, HeaderLeads, RecordsAreAppended
<1>2. \A p \in Proc : RecordsOf(p)' = RecordsOf(p)
  BY DEF RecordsOf
<1>3. RecordIsKept'
  BY <1>2 DEF IInv, RecordIsKept
<1>4. Bounded'
  BY DEF IInv, Bounded
<1>. QED
  BY <1>1, <1>3, <1>4 DEF IInv

\* A run that only moves on keeps the invariant.
LEMMA MoveKeeps ==
  ASSUME IInv, NEW p \in Proc, NEW label \in {"open", "failed", "killed"},
         pc[p] \notin Ends, Goto(p, label),
         UNCHANGED <<settings, empty, buffer, file>>
  PROVE  IInv'
<1>1. Types'
  BY DEF IInv, Types, Goto, Ends
<1>2. Buffered' /\ SeenContent'
  BY DEF IInv, Types, Goto, Buffered, SeenContent, Lines, Header, Record, Accepted
<1>3. Appended' = Appended
  BY DEF IInv, Types, Goto, Appended, Ends
<1>4. \A q \in Proc : pc'[q] = "ok" => pc[q] = "ok"
  BY DEF IInv, Types, Goto
<1>. QED
  BY <1>1, <1>2, <1>3, <1>4, FileKept

LEMMA OpenKeeps ==
  ASSUME IInv, NEW p \in Proc, Open(p)
  PROVE  IInv'
<1>1. Types'
  BY DEF IInv, Types, Open, Goto
<1>2. Buffered' /\ SeenContent'
  BY DEF IInv, Types, Open, Goto, Buffered, SeenContent, Lines, Header, Record, Accepted
<1>3. Appended' = Appended
  BY DEF IInv, Types, Open, Goto, Appended
<1>4. \A q \in Proc : pc'[q] = "ok" => pc[q] = "ok"
  BY DEF IInv, Types, Open, Goto
<1>. QED
  BY <1>1, <1>2, <1>3, <1>4, FileKept DEF Open

LEMMA WriteKeeps ==
  ASSUME IInv, NEW p \in Proc, Write(p)
  PROVE  IInv'
<1>. USE DEF Lines
<1>1. Lines(p) \in Seq(Cell)
  BY LinesAreCells DEF IInv
<1>2. /\ pc[p] = "write"
      /\ buffer' = [buffer EXCEPT ![p] = Lines(p)]
      /\ pc' = [pc EXCEPT ![p] = "flush"]
      /\ UNCHANGED <<settings, empty, file>>
  BY DEF Write, Goto
<1>. HIDE DEF Lines
<1>3. Types'
  BY <1>1, <1>2 DEF IInv, Types
<1>4. \A q \in Proc : Lines(q)' = Lines(q)
  BY <1>2 DEF Lines, Header, Record, Accepted
<1>5. Buffered' /\ SeenContent'
  BY <1>2, <1>4 DEF IInv, Types, Buffered, SeenContent
<1>6. Appended' = Appended
  BY <1>2 DEF IInv, Types, Appended
<1>7. \A q \in Proc : pc'[q] = "ok" => pc[q] = "ok"
  BY <1>2 DEF IInv, Types
<1>. QED
  BY <1>2, <1>3, <1>5, <1>6, <1>7, FileKept

\* The append: the run that flushes adds its lines, and becomes one of those
\* that have appended.
LEMMA FlushKeeps ==
  ASSUME IInv, NEW p \in Proc, Flush(p)
  PROVE  IInv'
<1>. DEFINE label == IF Accepted(p) THEN "ok" ELSE "unequal"
<1>1. /\ pc[p] = "flush"
      /\ file' = file \o Lines(p)
      /\ pc' = [pc EXCEPT ![p] = label]
      /\ label \in {"ok", "unequal"}
      /\ UNCHANGED <<settings, empty, buffer>>
  BY DEF IInv, Buffered, Flush, Goto
<1>2. /\ Header(p) \in Cell
      /\ Record(p) \in Cell
      /\ Lines(p) \in Seq(Cell)
  BY LinesAreCells DEF IInv
<1>3. \A q \in Proc : Lines(q)' = Lines(q)
  BY <1>1 DEF Lines, Header, Record, Accepted
<1>4. (label = "ok") <=> Record(p).ended
  BY DEF Record
<1>5. /\ Record(p).kind = "record" /\ Record(p).by = p
      /\ Header(p).kind = "header"
  BY DEF Record, Header
<1>. HIDE DEF label
<1>6. Types'
  <2>1. file' \in Seq(Cell)
    BY <1>1, <1>2 DEF IInv, Types
  <2>. QED
    BY <1>1, <2>1 DEF IInv, Types, Ends
\* The new file: the old one, perhaps a header, and the record.
<1>. DEFINE m == IF empty[p] THEN Len(file) + 2 ELSE Len(file) + 1
<1>7. /\ Len(file') = m
      /\ file'[m] = Record(p)
      /\ \A i \in 1..Len(file) : file'[i] = file[i]
      /\ \A i \in 1..m : i \notin 1..Len(file) /\ i # m => file'[i] = Header(p)
      /\ empty[p] => file'[Len(file) + 1] = Header(p)
      /\ m \in Nat
      /\ m > Len(file)
      /\ m <= Len(file) + 2
  <2>0. file \in Seq(Cell)
    BY DEF IInv, Types
  <2>1. CASE empty[p]
    <3>1. file' = file \o <<Header(p), Record(p)>>
      BY <1>1, <2>1 DEF Lines
    <3>2. m = Len(file) + 2
      BY <2>1
    <3>. HIDE DEF m
    <3>3. Len(file') = m /\ m \in Nat /\ m > Len(file) /\ m <= Len(file) + 2
      BY <2>0, <3>1, <3>2, <1>2
    <3>4. \A i \in 1..Len(file) : file'[i] = file[i]
      BY <2>0, <3>1, <1>2
    <3>5. file'[Len(file) + 1] = Header(p) /\ file'[Len(file) + 2] = Record(p)
      BY <2>0, <3>1, <1>2
    <3>6. \A i \in 1..m : i \notin 1..Len(file) /\ i # m => i = Len(file) + 1
      BY <2>0, <3>2
    <3>. QED
      BY <3>2, <3>3, <3>4, <3>5, <3>6
  <2>2. CASE ~empty[p]
    <3>1. file' = file \o <<Record(p)>>
      BY <1>1, <2>2 DEF Lines
    <3>2. m = Len(file) + 1
      BY <2>2
    <3>. HIDE DEF m
    <3>3. Len(file') = m /\ m \in Nat /\ m > Len(file) /\ m <= Len(file) + 2
      BY <2>0, <3>1, <3>2, <1>2
    <3>4. \A i \in 1..Len(file) : file'[i] = file[i]
      BY <2>0, <3>1, <1>2
    <3>5. file'[Len(file) + 1] = Record(p)
      BY <2>0, <3>1, <1>2
    <3>6. \A i \in 1..m : i \in 1..Len(file) \/ i = m
      BY <2>0, <3>2
    <3>. QED
      BY <2>2, <3>2, <3>3, <3>4, <3>5, <3>6
  <2>. QED
    BY <2>1, <2>2
<1>. HIDE DEF m
<1>8. Len(file) \in Nat /\ DOMAIN file = 1..Len(file) /\ DOMAIN file' = 1..m
  BY <1>6, <1>7 DEF IInv, Types
<1>9. Buffered' /\ SeenContent'
  <2>1. file' # <<>>
    BY <1>7, <1>8
  <2>2. Buffered'
    BY <1>1, <1>3 DEF IInv, Types, Buffered
  <2>. QED
    BY <2>1, <2>2 DEF SeenContent
<1>10. HeaderLeads'
  <2>1. CASE file = <<>>
    <3>1. empty[p]
      BY <1>1, <2>1 DEF IInv, Types, SeenContent
    <3>. QED
      BY <1>5, <1>7, <2>1, <3>1 DEF HeaderLeads
  <2>2. CASE file # <<>>
    <3>1. 1 \in 1..Len(file)
      BY <1>8, <2>2 DEF IInv, Types
    <3>. QED
      BY <1>7, <2>2, <3>1 DEF IInv, HeaderLeads
  <2>. QED
    BY <2>1, <2>2
<1>11. p \notin Appended /\ Appended' = Appended \union {p}
  BY <1>1 DEF IInv, Types, Appended
<1>12. RecordsAreAppended'
  <2>. SUFFICES ASSUME NEW i \in 1..m, file'[i].kind = "record"
                PROVE  file'[i].by \in Appended'
    BY <1>8 DEF RecordsAreAppended
  <2>1. CASE i \in 1..Len(file)
    BY <1>7, <1>8, <1>11, <2>1 DEF IInv, RecordsAreAppended
  <2>2. CASE i \notin 1..Len(file)
    BY <1>5, <1>7, <1>11, <2>2
  <2>. QED
    BY <2>1, <2>2
<1>13. RecordIsKept'
  <2>. SUFFICES ASSUME NEW q \in Proc, pc'[q] = "ok"
                PROVE  \E i \in DOMAIN file' : RecordsOf(q)' = {i} /\ file'[i].ended
    BY DEF RecordIsKept
  <2>1. CASE q = p
    <3>1. m \in 1..m
      BY <1>7, <1>8
    <3>2. \A i \in 1..Len(file) : ~(file[i].kind = "record" /\ file[i].by = p)
      BY <1>8, <1>11 DEF IInv, RecordsAreAppended
    <3>3. RecordsOf(p)' = {m}
      BY <1>5, <1>7, <1>8, <3>1, <3>2 DEF RecordsOf
    <3>4. label = "ok"
      BY <1>1, <2>1 DEF IInv, Types
    <3>. QED
      BY <1>4, <1>7, <1>8, <2>1, <3>1, <3>3, <3>4
  <2>2. CASE q # p
    <3>1. pc[q] = "ok"
      BY <1>1, <2>2 DEF IInv, Types
    <3>2. PICK i \in 1..Len(file) : RecordsOf(q) = {i} /\ file[i].ended
      BY <1>8, <3>1 DEF IInv, RecordIsKept
    <3>3. RecordsOf(q)' = RecordsOf(q)
      BY <1>5, <1>7, <1>8, <2>2 DEF RecordsOf
    <3>. QED
      BY <1>7, <1>8, <3>2, <3>3
  <2>. QED
    BY <2>1, <2>2
<1>14. Bounded'
  <2>1. IsFiniteSet(Appended) /\ Cardinality(Appended) \in Nat
    BY ReportAssumption, FS_Subset, FS_CardinalityType DEF Appended
  <2>2. Cardinality(Appended') = Cardinality(Appended) + 1
    BY <1>11, <2>1, FS_AddElement
  <2>. QED
    BY <1>7, <1>8, <2>1, <2>2 DEF IInv, Bounded
<1>. QED
  BY <1>6, <1>9, <1>10, <1>12, <1>13, <1>14 DEF IInv

LEMMA NextIInv == IInv /\ [Next]_vars => IInv'
<1>. SUFFICES ASSUME IInv, [Next]_vars PROVE IInv'
  OBVIOUS
<1>1. CASE UNCHANGED vars
  BY <1>1 DEF vars, IInv, Types, Buffered, SeenContent, HeaderLeads,
     RecordsAreAppended, RecordIsKept, Bounded, Appended, RecordsOf, Lines,
     Header, Record, Accepted
<1>2. ASSUME NEW p \in Proc, Execute(p) PROVE IInv'
  BY <1>2, MoveKeeps DEF Execute, Ends
<1>3. ASSUME NEW p \in Proc, Fail(p) \/ Kill(p) PROVE IInv'
  BY <1>3, MoveKeeps DEF Fail, Kill
<1>. QED
  BY <1>1, <1>2, <1>3, OpenKeeps, WriteKeeps, FlushKeeps DEF Next, Step, Finished

\* The invariant bounds the file by two cells per run.
LEMMA BoundedByRuns == IInv => TypeOK
<1>. SUFFICES ASSUME IInv PROVE TypeOK
  OBVIOUS
<1>1. Appended \subseteq Proc
  BY DEF Appended
<1>2. Cardinality(Appended) <= Cardinality(Proc) /\ Cardinality(Appended) \in Nat
  BY <1>1, ReportAssumption, FS_Subset, FS_CardinalityType
<1>3. Cardinality(Proc) \in Nat
  BY ReportAssumption, FS_CardinalityType
<1>. QED
  BY <1>2, <1>3 DEF IInv, Types, Bounded, TypeOK

LEMMA Inductive == Spec => []IInv
<1>. QED
  BY InitIInv, NextIInv, PTL DEF Spec

\* The variables keep their types, and the file is bounded: a run appends at
\* most a header and a record.
THEOREM TypeCorrect == Spec => []TypeOK
<1>. QED
  BY Inductive, BoundedByRuns, PTL

\* The file starts with a header, for any number of overlapping runs.
THEOREM HeaderFirst == Spec => []HeaderLeads
<1>1. IInv => HeaderLeads
  BY DEF IInv
<1>. QED
  BY <1>1, Inductive, PTL

\* A run that succeeds has exactly one record in the file, for ever.
THEOREM RecordKept == Spec => []RecordIsKept
<1>1. IInv => RecordIsKept
  BY DEF IInv
<1>. QED
  BY <1>1, Inductive, PTL

-----------------------------------------------------------------------------
(* The columns of a report whose runs all track opcodes *)

AllOpcode == \A p \in Proc : settings[p].opcode

TableInv ==
  AllOpcode =>
    \A i \in DOMAIN file : file[i].ended /\ file[i].columns = 4 + Metrics(Opcodes)

\* Header and record have the same columns, so the writer accepts the record.
LEMMA OpcodeLines ==
  ASSUME Types, AllOpcode, NEW p \in Proc
  PROVE  \A i \in DOMAIN Lines(p) :
           Lines(p)[i].ended /\ Lines(p)[i].columns = 4 + Metrics(Opcodes)
<1>1. settings[p].opcode
  BY DEF AllOpcode
<1>2. /\ HeaderColumns(settings[p]) = 4 + Metrics(Opcodes)
      /\ RecordColumns(settings[p]) = 4 + Metrics(Opcodes)
  BY <1>1 DEF HeaderColumns, RecordColumns
<1>3. /\ Header(p).ended /\ Header(p).columns = 4 + Metrics(Opcodes)
      /\ Record(p).ended /\ Record(p).columns = 4 + Metrics(Opcodes)
  BY <1>2 DEF Header, Record, Accepted
<1>. HIDE DEF AllOpcode
<1>. QED
  BY <1>3 DEF Lines

\* Every cell of the longer file is one of the old file or one of the lines.
LEMMA CellsOfAppend ==
  ASSUME NEW s \in Seq(Cell), NEW t \in Seq(Cell), NEW i \in DOMAIN (s \o t)
  PROVE  \/ i \in DOMAIN s /\ (s \o t)[i] = s[i]
         \/ i - Len(s) \in DOMAIN t /\ (s \o t)[i] = t[i - Len(s)]
<1>. QED
  OBVIOUS

LEMMA TableNext == IInv /\ TableInv /\ [Next]_vars => TableInv'
<1>. SUFFICES ASSUME IInv, TableInv, [Next]_vars PROVE TableInv'
  OBVIOUS
<1>1. CASE UNCHANGED <<settings, file>>
  BY <1>1 DEF TableInv, AllOpcode
<1>2. ASSUME NEW p \in Proc, Flush(p) PROVE TableInv'
  <2>1. file' = file \o Lines(p) /\ settings' = settings
    BY <1>2 DEF Flush, IInv, Buffered
  <2>2. Types /\ file \in Seq(Cell) /\ Lines(p) \in Seq(Cell)
    BY LinesAreCells DEF IInv, Types
  <2>. SUFFICES ASSUME AllOpcode, NEW i \in DOMAIN file'
                PROVE  file'[i].ended /\ file'[i].columns = 4 + Metrics(Opcodes)
    BY <2>1 DEF TableInv, AllOpcode
  <2>3. \A j \in DOMAIN Lines(p) :
          Lines(p)[j].ended /\ Lines(p)[j].columns = 4 + Metrics(Opcodes)
    BY <2>2, OpcodeLines
  <2>4. \A j \in DOMAIN file :
          file[j].ended /\ file[j].columns = 4 + Metrics(Opcodes)
    BY DEF TableInv
  <2>5. \/ i \in DOMAIN file /\ file'[i] = file[i]
        \/ i - Len(file) \in DOMAIN Lines(p) /\ file'[i] = Lines(p)[i - Len(file)]
    BY <2>1, <2>2, CellsOfAppend
  <2>. QED
    BY <2>3, <2>4, <2>5
<1>. QED
  BY <1>1, <1>2 DEF Next, Step, Finished, vars, Execute, Open, Write, Fail, Kill

\* Without overlap or with it: if every run tracks opcodes, all lines of the
\* report have the same number of columns, and none is cut off.
THEOREM OpcodeColumns == Spec => []OpcodeTable
<1>1. Init => TableInv
  BY DEF Init, TableInv
<1>2. IInv /\ TableInv => OpcodeTable
  <2>. SUFFICES ASSUME IInv, TableInv, \A p \in Proc : settings[p].opcode,
                       NEW i \in DOMAIN file
                PROVE  file[i].ended /\ file[i].columns = file[1].columns
    BY DEF OpcodeTable
  <2>1. 1 \in DOMAIN file
    BY DEF IInv, Types
  <2>. QED
    BY <2>1 DEF TableInv, AllOpcode
<1>. QED
  BY <1>1, <1>2, TableNext, Inductive, PTL DEF Spec

-----------------------------------------------------------------------------
(* Headers come early or never *)

\* From the moment a report has settled, whoever will append to it has seen
\* that it has content.
NoHeaderComes(hs) ==
  /\ file # <<>>
  /\ HeaderCells = hs
  /\ \A p \in Proc : pc[p] \in {"write", "flush"} => ~empty[p]

LEMMA HeadersStay ==
  ASSUME NEW hs, IInv, NoHeaderComes(hs), [Next]_vars
  PROVE  NoHeaderComes(hs)'
<1>1. CASE UNCHANGED file
  <2>1. HeaderCells' = HeaderCells
    BY <1>1 DEF HeaderCells
  <2>2. \A p \in Proc : pc'[p] \in {"write", "flush"} => ~empty'[p]
    <3>1. CASE UNCHANGED vars
      BY <3>1 DEF vars, NoHeaderComes
    <3>2. ASSUME NEW q \in Proc, Open(q)
          PROVE  \A p \in Proc : pc'[p] \in {"write", "flush"} => ~empty'[p]
      BY <3>2 DEF Open, Goto, NoHeaderComes, IInv, Types
    <3>3. ASSUME NEW q \in Proc, Execute(q) \/ Write(q) \/ Flush(q) \/ Fail(q) \/ Kill(q)
          PROVE  \A p \in Proc : pc'[p] \in {"write", "flush"} => ~empty'[p]
      <4>1. /\ empty' = empty
            /\ \A p \in Proc : pc'[p] \in {"write", "flush"} => pc[p] \in {"write", "flush"}
        BY <3>3 DEF Execute, Write, Flush, Fail, Kill, Goto, IInv, Types
      <4>. QED
        BY <4>1 DEF NoHeaderComes
    <3>. QED
      BY <3>1, <3>2, <3>3 DEF Next, Step, Finished
  <2>. QED
    BY <1>1, <2>1, <2>2 DEF NoHeaderComes
<1>2. ASSUME NEW q \in Proc, Flush(q) PROVE NoHeaderComes(hs)'
  <2>1. /\ pc[q] = "flush" /\ ~empty[q] /\ Lines(q) = <<Record(q)>>
        /\ file' = file \o Lines(q) /\ empty' = empty
    BY <1>2 DEF Flush, NoHeaderComes, Lines, IInv, Buffered
  <2>2. file \in Seq(Cell) /\ Record(q) \in Cell /\ Record(q).kind = "record"
    BY LinesAreCells DEF IInv, Types, Record
  <2>3. file' = Append(file, Record(q))
    BY <2>1, <2>2
  <2>4. HeaderCells' = HeaderCells
    BY <2>2, <2>3 DEF HeaderCells
  <2>5. file' # <<>>
    BY <2>2, <2>3
  <2>6. \A p \in Proc : pc'[p] \in {"write", "flush"} => pc[p] \in {"write", "flush"}
    BY <1>2 DEF Flush, Goto, IInv, Types
  <2>. QED
    BY <2>1, <2>4, <2>5, <2>6 DEF NoHeaderComes
<1>. QED
  BY <1>1, <1>2 DEF Next, Step, Finished, vars, Execute, Open, Write, Fail, Kill

\* A report that has settled gets no further header, whatever runs follow and
\* however they overlap.
THEOREM HeadersAreEarly == Spec => NoLateHeader
<1>1. ASSUME NEW hs \in SUBSET (1..(2 * Cardinality(Proc)))
      PROVE  Spec => [](Settled /\ HeaderCells = hs => [](HeaderCells = hs))
  <2>1. Settled /\ HeaderCells = hs => NoHeaderComes(hs)
    BY DEF Settled, NoHeaderComes
  <2>2. IInv /\ NoHeaderComes(hs) /\ [Next]_vars => NoHeaderComes(hs)'
    BY HeadersStay
  <2>3. NoHeaderComes(hs) => HeaderCells = hs
    BY DEF NoHeaderComes
  <2>. QED
    BY <2>1, <2>2, <2>3, Inductive, PTL DEF Spec
<1>. QED
  BY <1>1 DEF NoLateHeader
=============================================================================
