SPECIFICATION Spec
CONSTANTS
  w1 = w1  w2 = w2
  rv = rv  ic = ic  is = is  sl = sl  g1 = g1  g2 = g2
  t1 = t1  t2 = t2  t3 = t3
  d1 = d1  d2 = d2  d3 = d3  d4 = d4
  Worker = {w1, w2}
  Event <- PREvent
  Thread = {t1, t2, t3}
  ThreadOf <- PRThreadOf
  KindOf <- PRKindOf
  Delivery = {d1, d2, d3}
  EventsOf <- PREventsOf
  LockKey <- Distinct
  MaxFaults = 1
  MaxRestarts = 0
  MaxCrashes = 0
  NoRow = NoRow
  NoWorker = NoWorker
  NoEvent = NoEvent
SYMMETRY WorkerSymmetry
INVARIANTS
  TypeOK
  TaskExclusive
  ExecutedOnce
  RepliedOnce
  AckedBeforeClaimable
  TaskHasThreadAndMessage
  AnswersReachTheirComment
  NoOrphan
