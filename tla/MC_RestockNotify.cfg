\* One page with one config, three users; two refusals, restarts or writes
\* of the topology refresh.  A page behind a run that panicked really stops.
SPECIFICATION Spec
CONSTANTS
  c1 = c1
  both = both
  watcher = watcher
  follower = follower
  t1 = t1
  t2 = t2
  Configs = {c1}
  Users = {both, watcher, follower}
  Watches <- MCWatches
  Followers = {both, follower}
  Telegram = {both, follower}
  Chats <- MCChats
  WebPush = {watcher, follower}
  Subscribed = {watcher}
  MaxFaults = 2
  Times = {1, 2, 3}
  Ids = {1, 2}
  PageSizes = {1, 2, 3}
  MaxRows = {0, 1, 2, 4}
CHECK_DEADLOCK FALSE
INVARIANTS
  TypeOK
  RestockReaches
  NotToldTwice
  FollowersUpToDate
  FeedIsWhole
PROPERTIES
  RecordsSettled
