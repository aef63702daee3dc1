SPECIFICATION FairSpec
CONSTANTS
  p1 = p1
  p2 = p2
  p3 = p3
  e1 = e1
  e2 = e2
  NoSlot = NoSlot
  Procs = {p1, p2, p3}
  Keys <- MCKeys
  Slots = {e1, e2}
INVARIANTS BooksAreRight
PROPERTIES ImplementsLockService AcquireReturns
