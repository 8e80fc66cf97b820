CONSTANTS
  w1 = w1  w2 = w2  w3 = w3
  Workers <- WorkersTwo
  MaxCommands = 2
  MaxEvents = 2
  MaxSessions = 2
  PostMayFail = FALSE
SPECIFICATION FairSpec
PROPERTIES StopReturns CommandSettles EventSettles
CHECK_DEADLOCK FALSE
