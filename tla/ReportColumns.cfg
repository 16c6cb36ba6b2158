SPECIFICATION Spec
CONSTANTS
  p1 = p1
  p2 = p2
  p3 = p3
  Proc <- MCProc
  Assignments <- MCAssignments
  Opcodes = 5
  Syscalls = 4
INVARIANT
  ReportIsWritten
