SPECIFICATION Spec
CONSTANTS
  chat = chat
  memory = memory
  soul = soul
  a = a
  b = b
  Absent = Absent
  Top = {chat}
  Nested = {memory}
  Identity = {soul}
  Contents = {a, b}
  MaxWrites = 3
  MaxRestarts = 1
CHECK_DEADLOCK FALSE
INVARIANT NeverWiped
