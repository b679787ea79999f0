\* The same instance, for the poll that waits.
\* No refusal, restart or topology refresh.
SPECIFICATION Spec
CONSTANTS
  c1 = c1
  both = both
  watcher = watcher
  follower = follower
  t1 = t1
  t2 = t2
  Configs = {c1}
  Users = {both, watcher, follower}
  Watches <- MCWatches
  Followers = {both, follower}
  Telegram = {both, follower}
  Chats <- MCChats
  WebPush = {watcher, follower}
  Subscribed = {watcher}
  MaxFaults = 0
  Times = {1, 2, 3}
  Ids = {1, 2}
  PageSizes = {1, 2, 3}
  MaxRows = {0, 1, 2, 4}
INVARIANTS
  WaiterToldOnce

