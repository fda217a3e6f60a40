SPECIFICATION FairSpec
CONSTANTS
  p1 = p1  r1 = r1  r2 = r2  a1 = a1  a2 = a2  h1 = h1  h2 = h2
  Players = {p1}
  Requests = {r1}
  PlayerOf <- OnePlayer
  Attachments = {a1, a2}
  Handlers = {h1}
  ManagerCount = 2
  PayTimeout = 1
  Retention = 1
  None = None
  MaxTime = 3
  MaxEvents = 4
  MaxRollbacks = 1
CHECK_DEADLOCK FALSE
INVARIANTS ClosedScreenshotIsScheduled
PROPERTIES ImplementsLifecycle AwaitingEnds
