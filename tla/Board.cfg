SPECIFICATION BoardSpec
CONSTANTS
  PostIds = {p1}
  BoardIds = {b1, b2}
  Reporters = {1, 2, 3}
  PostHandlers = {h1, h2}
  AutoHideThreshold = 2
  Scenes <- MCScenes
  MaxCount = 1
  CommentIds = {1, 2, 3}
  Root = 0
  CommentHandlers = {h1, h2}
  MaxSiblings = 2
  MaxComments = 3
  Events = {1, 2, 3}
  Recipients = {r1, r2}
  Ticks = {t1, t2}
  Batch = 2
  MaxAttempts = 2
  MaxFaults = 2
  Viewed = {p1, p2}
  Instances = {i1}
  Flushes = {f1, f2}
  MaxViews = 2
  MaxFailures = 2
CHECK_DEADLOCK FALSE
INVARIANTS
  BoardTypeOK
  CountersExact
  Moderation
  SiblingPathsUnique
  TreeHolds
  Delivery
  ViewsCounted
PROPERTIES
  HiddenStaysHidden
  BoardSettles
