SPECIFICATION Spec
CONSTANTS
  w1 = w1  w2 = w2
  rv = rv  ic = ic  is = is  sl = sl  g1 = g1  g2 = g2
  t1 = t1  t2 = t2  t3 = t3
  d1 = d1  d2 = d2  d3 = d3  d4 = d4
  Worker = {w1, w2}
  Event <- PairEvent
  Thread = {t1}
  ThreadOf <- PairThreadOf
  KindOf <- PairKindOf
  Delivery = {d1, d2, d4}
  EventsOf <- PairEventsOf
  LockKey <- Distinct
  MaxFaults = 1
  MaxRestarts = 1
  MaxCrashes = 1
  NoRow = NoRow
  NoWorker = NoWorker
  NoEvent = NoEvent
SYMMETRY WorkerSymmetry
INVARIANT Inv
PROPERTY ImplementsLifecycle
