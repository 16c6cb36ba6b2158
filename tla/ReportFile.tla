----------------------------- MODULE ReportFile -----------------------------
(***************************************************************************)
(* persist_report_hook.rs: runs of the host CLI that append to one report  *)
(* file.  Each opens the file for appending, writes a header if the file   *)
(* is empty and then one record; the csv writer buffers both, and hands    *)
(* them to the file in one append when it is flushed or dropped.           *)
(*                                                                         *)
(* A csv writer fixes the number of columns with the first line it writes; *)
(* a line of another length is refused after its fields were buffered and  *)
(* before they are terminated.  A cell is what a write_record puts into    *)
(* the file: a header or a record, its columns, and whether it is          *)
(* terminated, as a line must be to end before the next cell.              *)
(***************************************************************************)
EXTENDS Integers, Sequences, FiniteSets

CONSTANTS
  Proc,         \* the runs
  Assignments,  \* the settings the runs may be started with
  Opcodes,      \* the number of opcodes revm knows
  Syscalls      \* the number of syscalls of the zkVM

\* The settings of a run: --opcode-tracking and --precompile-tracking.
Settings == [opcode : BOOLEAN, precompile : BOOLEAN]

ASSUME ReportAssumption ==
  /\ IsFiniteSet(Proc)
  /\ Assignments \subseteq [Proc -> Settings]
  /\ Opcodes \in Nat
  /\ Syscalls \in Nat

VARIABLES
  settings,  \* the settings of each run
  pc,        \* where each run stands
  empty,     \* file_is_empty, as the run has seen it
  buffer,    \* the cells in the writer of the run
  file       \* the cells in the file

vars == <<settings, pc, empty, buffer, file>>

Precompiles == 10

\* A name or a value for each of cycles, count and average.
Metrics(n) == 3 * n

Tracked(s) == IF s.precompile THEN Metrics(Precompiles) ELSE 0

HeaderColumns(s) ==
  4 + IF s.opcode THEN Metrics(Opcodes) ELSE 10 + Syscalls + Tracked(s)

\* The mutant forgets the average.
MutRecordColumns(s) ==
  4 + IF s.opcode THEN 2 * Opcodes ELSE 9 + Syscalls + Tracked(s)

RecordColumns(s) ==
  4 + IF s.opcode THEN Metrics(Opcodes) ELSE 9 + Syscalls + Tracked(s)

Cell ==
  [kind : {"header", "record"}, by : Proc, columns : Nat, ended : BOOLEAN]

Ends == {"ok", "unequal", "failed", "killed"}

TypeOK ==
  /\ settings \in Assignments
  /\ pc \in [Proc -> {"execute", "open", "write", "flush"} \union Ends]
  /\ empty \in [Proc -> BOOLEAN]
  /\ buffer \in [Proc -> Seq(Cell)]
  /\ file \in Seq(Cell)
  /\ Len(file) <= 2 * Cardinality(Proc)

Init ==
  /\ settings \in Assignments
  /\ pc = [p \in Proc |-> "execute"]
  /\ empty = [p \in Proc |-> FALSE]
  /\ buffer = [p \in Proc |-> <<>>]
  /\ file = <<>>

-----------------------------------------------------------------------------

Goto(p, label) == pc' = [pc EXCEPT ![p] = label]

\* The client has run, its report is printed and on_execution_end goes on.
Execute(p) ==
  /\ pc[p] = "execute"
  /\ Goto(p, "open")
  /\ UNCHANGED <<settings, empty, buffer, file>>

\* The mutant tests a length it read before the file was there.
MutOpen(p) ==
  /\ pc[p] = "open"
  /\ empty' = [empty EXCEPT ![p] = TRUE]
  /\ Goto(p, "write")
  /\ UNCHANGED <<settings, buffer, file>>

\* The file is opened, or created, and its length is read.
Open(p) ==
  /\ pc[p] = "open"
  /\ empty' = [empty EXCEPT ![p] = file = <<>>]
  /\ Goto(p, "write")
  /\ UNCHANGED <<settings, buffer, file>>

Header(p) ==
  [kind |-> "header", by |-> p, columns |-> HeaderColumns(settings[p]), ended |-> TRUE]

\* The writer accepts the record: it is its first line, or as long as it.
Accepted(p) ==
  empty[p] => HeaderColumns(settings[p]) = RecordColumns(settings[p])

Record(p) ==
  [kind |-> "record", by |-> p, columns |-> RecordColumns(settings[p]),
   ended |-> Accepted(p)]

\* The mutant writes the header last.
MutWrite(p) ==
  /\ pc[p] = "write"
  /\ buffer' = [buffer EXCEPT ![p] =
                  IF empty[p] THEN <<Record(p), Header(p)>> ELSE <<Record(p)>>]
  /\ Goto(p, "flush")
  /\ UNCHANGED <<settings, empty, file>>

\* write_header if the file was empty, write_record.
Write(p) ==
  /\ pc[p] = "write"
  /\ buffer' = [buffer EXCEPT ![p] =
                  IF empty[p] THEN <<Header(p), Record(p)>> ELSE <<Record(p)>>]
  /\ Goto(p, "flush")
  /\ UNCHANGED <<settings, empty, file>>

\* The mutant opens the file without append.
MutFlush(p) ==
  /\ pc[p] = "flush"
  /\ file' = buffer[p]
  /\ Goto(p, IF Accepted(p) THEN "ok" ELSE "unequal")
  /\ UNCHANGED <<settings, empty, buffer>>

\* The mutant's writer flushes once more when it is dropped.
MutFlushTwice(p) ==
  /\ pc[p] = "flush"
  /\ file' = file \o buffer[p] \o buffer[p]
  /\ Goto(p, IF Accepted(p) THEN "ok" ELSE "unequal")
  /\ UNCHANGED <<settings, empty, buffer>>

\* flush, or the error of write_record and the writer's drop.
Flush(p) ==
  /\ pc[p] = "flush"
  /\ file' = file \o buffer[p]
  /\ Goto(p, IF Accepted(p) THEN "ok" ELSE "unequal")
  /\ UNCHANGED <<settings, empty, buffer>>

\* The client, opening the file or the append fails.
Fail(p) ==
  /\ pc[p] \notin Ends
  /\ Goto(p, "failed")
  /\ UNCHANGED <<settings, empty, buffer, file>>

\* The process is killed.
Kill(p) ==
  /\ pc[p] \notin Ends
  /\ Goto(p, "killed")
  /\ UNCHANGED <<settings, empty, buffer, file>>

Finished ==
  /\ \A p \in Proc : pc[p] \in Ends
  /\ UNCHANGED vars

Step(p) == Execute(p) \/ Open(p) \/ Write(p) \/ Flush(p) \/ Fail(p) \/ Kill(p)

Next == Finished \/ \E p \in Proc : Step(p)

Spec == Init /\ [][Next]_vars

-----------------------------------------------------------------------------
(* Properties *)

\* Whatever runs overlap, fail or are killed, the file starts with a header:
\* the first append is of a run that found the file empty.
HeaderLeads == file # <<>> => file[1].kind = "header"

RecordsOf(p) == {i \in DOMAIN file : file[i].kind = "record" /\ file[i].by = p}

\* A run that succeeds leaves one terminated record, and no other run's
\* append takes it away again.
RecordIsKept ==
  \A p \in Proc :
    pc[p] = "ok" =>
      \E i \in DOMAIN file : RecordsOf(p) = {i} /\ file[i].ended

HeaderCells == {i \in DOMAIN file : file[i].kind = "header"}

\* The file has content and no run is between its test and its append.
Settled == file # <<>> /\ \A p \in Proc : pc[p] \notin {"write", "flush"}

\* Once a report has settled, no run ever adds a header to it: a second one
\* only comes from runs that overlapped while the file was still empty.
NoLateHeader ==
  \A hs \in SUBSET (1..(2 * Cardinality(Proc))) :
    [](Settled /\ HeaderCells = hs => [](HeaderCells = hs))

\* If every run tracks opcodes, the report is a table: each cell is a line of
\* its own, and as long as the first.
OpcodeTable ==
  (\A p \in Proc : settings[p].opcode) =>
    \A i \in DOMAIN file : file[i].ended /\ file[i].columns = file[1].columns

\* README.md: the host CLI "will print out a detailed execution report and
\* statistics on the # of cycles to a CSV file": no run that executes its
\* block fails because the header and the record it writes do not match.
ReportIsWritten == \A p \in Proc : pc[p] # "unequal"
=============================================================================
