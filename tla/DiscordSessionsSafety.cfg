SPECIFICATION Spec
CONSTANTS
  c1 = c1
  c2 = c2
  u1 = u1
  u2 = u2
  hb = hb
  nw = nw
  st = st
  cp = cp
  bg = bg
  s1 = s1
  s2 = s2
  s3 = s3
  NoSession = NoSession
  NoEvent = NoEvent
  NoKey = NoKey
  Events = {u1, u2, nw, st, cp}
  Sessions = {s1, s2, s3}
  Keys = {c1}
  KeyOf <- MCKeyOf
  KindOf <- MCKindOf
  QueueCap = 1
  IsolatedHeartbeat = FALSE
SYMMETRY MCSymmetry
INVARIANTS LiveSessionsAreMapped PromptInOnePlace SilenceIsMeant
PROPERTIES ImplementsConversation
