----------------------- MODULE MCPendingNotifications -----------------------
\* Instances of PendingNotifications: an item with a dedupe key and one
\* without, for a thread, a route and a thread with a malformed id; and two
\* items with a key for one thread, whose rows may wait side by side.
EXTENDS PendingNotifications
CONSTANTS item, news, manual, thread, route, bad, h1, ticker
SafetyNotes == {<<item, thread>>, <<item, bad>>, <<manual, thread>>, <<manual, route>>}
LivenessNotes == {<<item, route>>, <<news, route>>}
=============================================================================
