SPECIFICATION FairSpec
CONSTANTS
  t1 = t1
  t2 = t2
  k1 = k1
  k2 = k2
  c1 = c1
  Tasks = {t1, t2}
  Keys = {k1, k2}
  Channels = {c1}
  KeyOf <- MCKeyOf
  ChannelOf <- MCChannelOf
  Boxed = {t2}
  Patient = {t1}
  QueueCap = 1
CHECK_DEADLOCK FALSE
INVARIANTS HandoffInOnePlace StatusIsTrue
PROPERTIES CancelledNeverFinishes EverythingEnds
