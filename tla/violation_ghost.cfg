SPECIFICATION FairSpec
CONSTANTS
  Conns = {c1, c2}
  u1 = u1
  u2 = u2
  p1 = p1
  p2 = p2
  game = game
  Users <- TwoUsers
  Passwords <- OnePassword
  Channels <- OneChannel
  SubIds <- OneSubId
  Junk = Junk
  Null = Null
  Frames <- ParallelFrames
  Parallel = TRUE
  Mode = "tpc"
PROPERTIES
  GhostLoginEnds
CHECK_DEADLOCK FALSE
