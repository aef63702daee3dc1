SPECIFICATION FairSpec
CONSTANTS
  chat = chat
  memory = memory
  soul = soul
  a = a
  b = b
  Absent = Absent
  Top = {chat}
  Nested = {memory}
  Identity = {soul}
  Contents = {a, b}
  MaxWrites = 3
  MaxRestarts = 2
CHECK_DEADLOCK FALSE
INVARIANTS SyncIsComplete BackupIsKept
PROPERTIES Converges
