SPECIFICATION FairSpec
CONSTANTS
  item = item
  news = news
  manual = manual
  thread = thread
  route = route
  bad = bad
  h1 = h1
  ticker = ticker
  NoKey = NoKey
  NoNote = NoNote
  Items = {item, news}
  Manual = {}
  Dests = {route}
  Notes <- LivenessNotes
  Routes = {route}
  Malformed = {}
  Handlers = {h1}
  Drainers = {ticker}
  MaxAttempts = 1
  MaxPosts = 2
  MaxCrashes = 0
PROPERTIES QueueIsWorkedOff
