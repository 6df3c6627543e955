SPECIFICATION MCSpec
CONSTANTS
  c1 = c1
  c2 = c2
  c3 = c3
  u1 = u1
  u2 = u2
  p1 = p1
  game = game
  Conns <- MCConns
  Users <- MCUsers
  Passwords = {p1}
  Channels = {game}
  SubIds = {1, 2}
  Junk = Junk
  Null = Null
  Frames <- MCFrames
  Parallel = TRUE
  Mode = "tpc"
PROPERTIES
  OnlyCompleteFramesSubscribe
  AnsweredOrClosed
  EveryFrameEnds
  ErrorEndsConnection
  LogoutEnds
  CompletedBroadcastReachesAll
  GivenUpOnlyByChange
CHECK_DEADLOCK FALSE
