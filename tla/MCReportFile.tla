---------------------------- MODULE MCReportFile ----------------------------
(***************************************************************************)
(* Three runs, so that two may find the file empty and a third comes after *)
(* either; all with opcode tracking, all without, and mixed.               *)
(***************************************************************************)
EXTENDS ReportFile

CONSTANTS p1, p2, p3

MCProc == {p1, p2, p3}

Tracking(opcode, precompile) == [opcode |-> opcode, precompile |-> precompile]

MCAssignments ==
  { [p \in MCProc |-> Tracking(TRUE, FALSE)],
    [p \in MCProc |-> Tracking(FALSE, FALSE)],
    [p \in MCProc |-> IF p = p1 THEN Tracking(FALSE, TRUE) ELSE Tracking(p = p2, FALSE)] }
=============================================================================
