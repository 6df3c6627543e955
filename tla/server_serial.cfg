SPECIFICATION Spec
CONSTANTS
  Conns = {c1, c2}
  u1 = u1
  u2 = u2
  p1 = p1
  p2 = p2
  game = game
  Users <- TwoUsers
  Passwords <- TwoPasswords
  Channels <- OneChannel
  SubIds <- OneSubId
  Junk = Junk
  Null = Null
  Frames <- SerialFrames
  Parallel = FALSE
  Mode = "reactor"
SYMMETRY Symmetry
INVARIANTS
  TypeOK
  OneSessionPerUser
  SubscriptionsNeedSession
PROPERTIES
  LoginNeedsPassword
  KeepsPromise
