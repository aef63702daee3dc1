SPECIFICATION FairSpec
CONSTANTS
  urgent = urgent
  routine = routine
  once = once
  daily = daily
  Events = {urgent, routine}
  Immediate = {urgent}
  Wakeups = {once, daily}
  Cron = {daily}
  Horizon = 2
  Nap = 2
  QueueCap = 1
  MaxCrashes = 1
INVARIANTS EventIsKept
PROPERTIES OnceInTime AllComesUp
