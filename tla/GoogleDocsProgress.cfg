\* Two comment threads, on two pages at most.  Users stop writing and nothing else is
\* due: the adapter waits.
CHECK_DEADLOCK FALSE
SPECIFICATION FairSpec
CONSTANTS
  x1 = x1
  Doc = {x1}
  Comment = {c1, c2}
  DocOf <- OneDoc
  Assigned = {}
  Proc = {p1, p2}
  NoProc = NoProc
  MaxPages = 2
  MinGap = 1
  Says = {"mention", "resolve"}
  MaxWrites = 2
  MaxFaults = 0
  MaxRenewals = 0
  MaxRestarts = 0
INVARIANT NotSkipped
PROPERTY WatchedRequestsAreHanded
