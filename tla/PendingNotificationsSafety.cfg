SPECIFICATION Spec
CONSTANTS
  item = item
  news = news
  manual = manual
  thread = thread
  route = route
  bad = bad
  h1 = h1
  ticker = ticker
  NoKey = NoKey
  NoNote = NoNote
  Items = {item, manual}
  Manual = {manual}
  Dests = {thread, route, bad}
  Notes <- SafetyNotes
  Routes = {route}
  Malformed = {bad}
  Handlers = {h1}
  Drainers = {ticker}
  MaxAttempts = 1
  MaxPosts = 2
  MaxCrashes = 1
INVARIANTS AtLeastOnce
PROPERTIES ImplementsDelivery
