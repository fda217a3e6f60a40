SPECIFICATION FairSpec
CONSTANTS
  u1 = u1  u2 = u2  d1 = d1  d2 = d2  c1 = c1  c2 = c2  n1 = n1  n2 = n2
  Users = {u1}
  Devices = {d1, d2}
  Chats = {c1}
  Notices = {n1, n2}
  UserOf <- OneUser
  ChannelOf <- PushAndTelegram
  Bells = {n1}
  BatchSize = 2
  None = None
  MaxTime = 1
  MaxLosses = 1
CHECK_DEADLOCK FALSE
INVARIANTS DuplicatesNeedLoss ClaimHolds
PROPERTIES  ImplementsPromise
