\* Users stop writing and nothing else is due: the adapter waits.
CHECK_DEADLOCK FALSE
SPECIFICATION Spec
CONSTANTS
  x1 = x1
  Doc = {x1}
  Comment = {c1}
  DocOf <- OneDoc
  Assigned = {c1}
  Proc = {p1, p2}
  NoProc = NoProc
  MaxPages = 2
  MinGap = 1
  Says = {"mention", "plain", "empty", "resolve"}
  MaxWrites = 2
  MaxFaults = 1
  MaxRenewals = 1
  MaxRestarts = 1
SYMMETRY ProcSymmetry
INVARIANTS
  TypeOK
  AcceptedOnce
